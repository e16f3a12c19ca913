------------------------- MODULE Calculator_proofs --------------------------
(***************************************************************************)
(* For every base and all arguments: numbers stay well formed; the loops   *)
(* of add_impl and mul_impl stay inside the result and sub_impl leaves it  *)
(* only when the number subtracted has more decimals; the digits, carries  *)
(* and borrows written so far are the sum, difference, product or quotient *)
(* of the digits read so far; a subtraction of the smaller number from the *)
(* larger leaves no borrow; the result is the number wanted, and so is the *)
(* text printed, unless one of the things named in Lost has happened.      *)
(***************************************************************************)
EXTENDS Calculator, BufferTheorems

\* r is the result of the current loop for the arguments a and b.
Allocated(len, point) == r.len = len /\ r.point = point /\ op \in Operations

Looping ==
  /\ phase = "add" => /\ op = "+"
                      /\ Allocated(AddTimes(a, b) + 1, Max2(a.point, b.point))
                      /\ i <= AddTimes(a, b) /\ carry <= 1
  /\ phase = "sub" => /\ op = "-"
                      /\ Allocated(a.len, Max2(a.point, b.point))
                      /\ Integer(a) >= Integer(b)
                      /\ i <= AddTimes(a, b) /\ carry <= 1
  /\ phase = "mul" => /\ op = "x"
                      /\ Allocated(a.len + b.len, a.point + b.point)
                      /\ i <= b.len
  /\ phase \in {"div", "divsub"} => /\ op = "/"
                                    /\ Allocated(a.len - b.len + 1, Decimals)
                                    /\ b.len > 0 /\ i <= r.len
  /\ phase = "divsub" => i < r.len /\ j < Digits /\ carry <= 1
  /\ phase \in {"read", "call"} => Number(a) /\ i = 0 /\ j = 0 /\ carry = 0 /\ ~outside

IInv == /\ TypeOK /\ InBounds /\ Looping
        /\ x \in Texts /\ y \in Texts

LEMMA DigitFacts == 0 \in Digit /\ 1 \in Digit /\ Digit \subseteq Nat
BY BaseAssumption DEF Digit

LEMMA BaseDivMod ==
  ASSUME NEW n \in Nat
  PROVE  n % Base \in Digit /\ n \div Base \in Nat
BY BaseAssumption DEF Digit

\* The carry of an addition of two digits, and of a multiplication.
LEMMA SumCarry ==
  ASSUME NEW n \in Nat, n <= 2 * Base - 1
  PROVE  n \div Base \in 0..1
<1> USE BaseAssumption
<1>1. n \div Base \in Nat
  BY BaseDivMod
<1>2. n \div Base < 2
  <2>1. n < 2 * Base
    OBVIOUS
  <2> QED  BY <2>1
<1> QED  BY <1>1, <1>2

LEMMA ProductCarry ==
  ASSUME NEW d \in Digit, NEW e \in Digit, NEW c \in Digit, NEW z \in Digit
  PROVE  c + d * e + z \in Nat /\ (c + d * e + z) \div Base \in Digit
<1> USE BaseAssumption DEF Digit
<1>1. d * e \in Nat
  OBVIOUS
<1>2. d * e <= (Base - 1) * (Base - 1)
  <2>1. d * e <= (Base - 1) * e
    OBVIOUS
  <2>2. (Base - 1) * e <= (Base - 1) * (Base - 1)
    OBVIOUS
  <2> QED  BY <1>1, <2>1, <2>2
<1>3. (Base - 1) * (Base - 1) + 2 * (Base - 1) < Base * Base
  OBVIOUS
<1>4. c + d * e + z \in Nat /\ c + d * e + z < Base * Base
  <2> DEFINE p == d * e
             q == (Base - 1) * (Base - 1)
             s == Base * Base
  <2>1. p \in Nat /\ q \in Int /\ s \in Int /\ p <= q /\ q + 2 * (Base - 1) < s
    BY <1>1, <1>2, <1>3
  <2> HIDE DEF p, q, s
  <2>2. c + p + z \in Nat /\ c + p + z < s
    BY <2>1
  <2> QED  BY <2>2 DEF p, s
<1>5. ASSUME NEW n \in Nat, n < Base * Base  PROVE n \div Base \in 0..(Base - 1)
  BY <1>5
<1> QED  BY <1>4, <1>5

LEMMA Joined ==
  ASSUME NEW s \in Seq(Digit), NEW u \in Seq(Digit)
  PROVE  /\ s \o u \in Seq(Digit)
         /\ Len(s) \in Nat /\ Len(u) \in Nat /\ Len(s \o u) = Len(s) + Len(u)
         /\ \A k \in 1..Len(s \o u) : (s \o u)[k] \in Digit
<1>1. s \o u \in Seq(Digit) /\ Len(s \o u) = Len(s) + Len(u)
  OBVIOUS
<1>2. ASSUME NEW z \in Seq(Digit), NEW k \in 1..Len(z)  PROVE z[k] \in Digit
  OBVIOUS
<1> QED  BY <1>1, <1>2

\* make_bignumber_fromstr makes a number of any argument.
LEMMA TextNumber == ASSUME NEW t \in Texts PROVE Number(FromStr(t))
<1> DEFINE digits == t.int \o t.frac
           n == Len(t.int)
           f == Len(t.frac)
           d == Len(digits)
           lead == LeadingZeros(t.int)
           zeros == Appended(t)
           len == d - lead + zeros
           point == IF f <= t.exp THEN 0 ELSE f - t.exp
           data == [k \in 0..(len - 1) |-> IF k < zeros THEN 0 ELSE digits[d - (k - zeros)]]
<1>1. /\ t.sign \in {0, 1} /\ t.int \in Seq(Digit) /\ t.frac \in Seq(Digit) /\ t.exp \in Nat
  BY TextsAssumption
<1>2. d = n + f /\ n \in Nat /\ f \in Nat /\ d \in Nat
  BY <1>1, Joined
<1>3. lead \in 0..n
  <2> DEFINE Z == {k \in 1..n : \A q \in 1..k : t.int[q] = 0}
  <2>1. lead = Cardinality(Z)
    BY DEF LeadingZeros
  <2> HIDE DEF n, lead
  <2>2. IsFiniteSet(1..n) /\ Cardinality(1..n) = n
    <3>1. 1 \in Int /\ n \in Int /\ (1 > n => n = 0) /\ n - 1 + 1 = n
      BY <1>2
    <3>2. IsFiniteSet(1..n) /\ Cardinality(1..n) = IF 1 > n THEN 0 ELSE n - 1 + 1
      BY <3>1, FS_Interval
    <3> QED  BY <3>1, <3>2
  <2>3. IsFiniteSet(Z) /\ Cardinality(Z) <= n
    <3>1. Z \subseteq 1..n
      OBVIOUS
    <3> QED  BY <3>1, <2>2, FS_Subset
  <2>4. Cardinality(Z) \in Nat
    BY <2>3, FS_CardinalityType
  <2> QED  BY <1>2, <2>1, <2>3, <2>4
<1>4. zeros \in Nat /\ (point = 0 \/ zeros = 0) /\ point \in Nat /\ point <= f
  BY <1>1, <1>2 DEF Appended
<1>5. FromStr(t) = [sign |-> t.sign, len |-> len, point |-> point, sci |-> zeros, data |-> data]
  BY DEF FromStr
<1>6. \A k \in 1..d : digits[k] \in Digit
  BY <1>1, Joined
<1> HIDE DEF n, f, d, lead, zeros, point, digits
<1>7. len \in Nat /\ point <= len
  BY <1>2, <1>3, <1>4
<1>8. data \in [0..(len - 1) -> Digit]
  <2>1. ASSUME NEW k \in 0..(len - 1), k >= zeros
        PROVE  digits[d - (k - zeros)] \in Digit
    <3>1. d - (k - zeros) \in 1..d
      BY <2>1, <1>2, <1>3, <1>4, <1>7
    <3> QED  BY <3>1, <1>6
  <2> QED  BY <2>1, <1>4, DigitFacts
<1> QED  BY <1>1, <1>4, <1>5, <1>7, <1>8, DigitFacts DEF Number, Result, WellFormed

LEMMA TempDigits ==
  ASSUME NEW len \in Nat, NEW s, NEW point, NEW sci
  PROVE  Temp(len, s, point, sci).len = len /\ Temp(len, s, point, sci).point = point
BY DEF Temp

LEMMA TempResult ==
  ASSUME NEW len \in Nat, NEW s \in {0, 1}, NEW point \in Nat, NEW sci \in Nat
  PROVE  Result(Temp(len, s, point, sci))
BY DigitFacts DEF Temp, Result, WellFormed

\* A result is well formed if its digits are.
LEMMA Formed == ASSUME NEW n PROVE Result(n) => WellFormed(n)
BY DEF Result

LEMMA UseSciType == ASSUME NEW m, NEW n PROVE UseSci(m, n) \in Nat
BY DEF UseSci

LEMMA NumberFacts ==
  ASSUME NEW m, NEW n, Number(m), Number(n)
  PROVE  /\ m.len \in Nat /\ m.point \in Nat /\ Integer(m) \in Nat
         /\ Number(Abs(m)) /\ Abs(m).sign = 0
         /\ Max2(m.point, n.point) \in Nat /\ AddTimes(m, n) \in Nat
<1>1. /\ m.len \in Nat /\ m.point \in Nat /\ n.len \in Nat /\ n.point \in Nat
      /\ m.point <= m.len /\ n.point <= n.len
  BY DEF Number, Result, WellFormed
<1>2. Number(Abs(m)) /\ Abs(m).sign = 0
  <2>1. m = [sign |-> m.sign, len |-> m.len, point |-> m.point, sci |-> m.sci, data |-> m.data]
    BY DEF Number, Result, WellFormed
  <2>2. Abs(m) = [sign |-> 0, len |-> m.len, point |-> m.point, sci |-> m.sci, data |-> m.data]
    BY <2>1 DEF Abs
  <2> QED  BY <2>2 DEF Number, Result, WellFormed
<1> QED  BY <1>1, <1>2 DEF Integer, Max2, AddTimes

\* The minuend has at least as many digits before the point.
LEMMA CmpInteger ==
  ASSUME NEW m, NEW n, Number(m), Number(n), m.sign = 0, n.sign = 0
  PROVE  /\ Cmp(m, n) \in {-1, 0, 1}
         /\ Cmp(m, n) >= 0 => Integer(m) >= Integer(n)
         /\ Cmp(m, n) < 0 => Integer(n) >= Integer(m)
<1>1. Integer(m) \in Nat /\ Integer(n) \in Nat
  BY NumberFacts
<1>2. Cmp(m, n) = CmpMagnitude(m, n)
  BY DEF Cmp
<1>3. Integer(m) # Integer(n) => CmpMagnitude(m, n) = IF Integer(m) > Integer(n) THEN 1 ELSE -1
  BY DEF CmpMagnitude
<1>4. CmpMagnitude(m, n) \in {-1, 0, 1}
  BY DEF CmpMagnitude
<1> QED  BY <1>1, <1>2, <1>3, <1>4

LEMMA DigitOfType == ASSUME NEW n, Number(n), NEW k PROVE DigitOf(n, k) \in Digit
BY DigitFacts DEF Number, Result, WellFormed, DigitOf, Has

\* A result stays one if its digits are replaced by digits.
LEMMA NewDigits ==
  ASSUME NEW n, Result(n), NEW data \in [0..(n.len - 1) -> Digit], NEW m, m = [n EXCEPT !.data = data]
  PROVE  Result(m) /\ m.len = n.len /\ m.point = n.point
<1>1. m = [sign |-> n.sign, len |-> n.len, point |-> n.point, sci |-> n.sci, data |-> data]
  BY DEF Result, WellFormed
<1>2. data \in [0..(n.len - 1) -> Int]
  <2>1. \A k \in 0..(n.len - 1) : data[k] \in Int
    BY BaseAssumption DEF Digit
  <2> QED  BY <2>1
<1> QED  BY <1>1, <1>2 DEF Result, WellFormed

LEMMA WriteKeeps ==
  ASSUME Result(r), NEW k \in Nat, NEW d \in Digit, Write(k, d)
  PROVE  /\ r'.len = r.len /\ r'.point = r.point /\ Result(r)'
         /\ outside' = (outside \/ k >= r.len)
<1>1. CASE k < r.len
  <2>1. r' = [r EXCEPT !.data = [r.data EXCEPT ![k] = d]]
    BY <1>1 DEF Write
  <2>2. [r.data EXCEPT ![k] = d] \in [0..(r.len - 1) -> Digit]
    BY DEF Result, WellFormed
  <2>3. Result(r') /\ r'.len = r.len /\ r'.point = r.point
    BY <2>1, <2>2, NewDigits
  <2> QED  BY <2>3 DEF Write
<1>2. CASE ~(k < r.len)
  BY <1>2 DEF Write, Result, WellFormed
<1> QED  BY <1>1, <1>2

(***************************************************************************)
(* One lemma for the calls and one for each loop.                          *)
(***************************************************************************)
\* The steps of additions, subtractions and multiplications leave the rest alone.
Rest == UNCHANGED <<rem, time, wrapped, x, y, op0, leftover, text>>

LEMMA ReadKeeps == ASSUME IInv, Read PROVE IInv'
<1>1. Number(a') /\ Number(b')
  BY TextNumber DEF Read, IInv, TypeOK, Looping
<1>2. Result(a') /\ Number(b')
  BY <1>1 DEF Number
<1>3. TypeOK'
  BY <1>1, <1>2 DEF Read, IInv, TypeOK, division, Digits, WellFormed, Result
<1>4. InBounds' /\ x' \in Texts /\ y' \in Texts
  BY DEF Read, IInv, Looping, InBounds, command
<1>5. Looping'
  BY <1>1 DEF Read, IInv, Looping
<1> QED  BY <1>3, <1>4, <1>5 DEF IInv

\* A call of the other function with changed signs, or arguments swapped.
LEMMA CallKeeps ==
  ASSUME IInv, phase = "call", op # "/", NEW f \in {"+", "-"}, NEW m, NEW n, Number(m), Number(n),
         NEW s \in {0, 1, None}, Call(f, m, n, s), Rest
  PROVE  IInv'
<1>1. /\ op' = f /\ a' = m /\ b' = n /\ sign' = s
      /\ UNCHANGED <<phase, r, i, j, carry, outside, wrapped, time, x, y>>
  BY DEF Call, Rest
<1>2. Result(a') /\ Number(a') /\ Number(b')
  BY <1>1 DEF Number
<1>3. /\ Result(r') /\ WellFormed(r') /\ i \in Nat /\ j \in Nat /\ carry \in Digit
      /\ outside \in BOOLEAN /\ wrapped \in BOOLEAN /\ time \in Nat
      /\ i = 0 /\ j = 0 /\ carry = 0 /\ ~outside /\ x \in Texts /\ y \in Texts
  BY <1>1 DEF IInv, Looping, TypeOK
<1>4. TypeOK'
  BY <1>1, <1>2, <1>3 DEF TypeOK, Operations
<1> QED  BY <1>1, <1>2, <1>3, <1>4 DEF IInv, InBounds, Looping

\* The start of a loop whose result is of the given size.
LEMMA StartKeeps ==
  ASSUME IInv, phase = "call", op # "/", NEW next \in {"add", "sub", "mul"},
         NEW len \in Nat, NEW s \in {0, 1}, NEW point \in Nat, NEW sci \in Nat,
         Start(next, Temp(len, s, point, sci)), Rest,
         Number(a'), Number(b'), op' = op, sign' = sign
  PROVE  /\ TypeOK' /\ InBounds' /\ x' \in Texts /\ y' \in Texts
         /\ phase' = next /\ i' = 0 /\ j' = 0 /\ carry' = 0 /\ ~outside'
         /\ Allocated(len, point)'
<1>1. /\ phase' = next /\ i' = 0 /\ j' = 0 /\ carry' = 0 /\ ~outside' /\ outside' \in BOOLEAN
      /\ x' = x /\ y' = y /\ r' = Temp(len, s, point, sci)
      /\ wrapped' \in BOOLEAN /\ time' \in Nat
  BY DEF Start, Rest, IInv, TypeOK, Looping
<1>2. Result(r') /\ WellFormed(r') /\ r'.len = len /\ r'.point = point
  <2>1. PICK t : t = Temp(len, s, point, sci)
    OBVIOUS
  <2>2. Result(t) /\ t.len = len /\ t.point = point
    BY <2>1, TempResult, TempDigits
  <2>3. WellFormed(t)
    BY <2>2, Formed
  <2>4. r' = t
    BY <1>1, <2>1
  <2> QED  BY <2>2, <2>3, <2>4
<1>3. op \in Operations /\ sign \in {0, 1, None} /\ x \in Texts /\ y \in Texts
  BY DEF IInv, TypeOK
<1>4. Result(a')
  BY DEF Number
<1>5. TypeOK'
  BY <1>1, <1>2, <1>3, <1>4, DigitFacts DEF TypeOK
<1> QED  BY <1>1, <1>2, <1>3, <1>5 DEF InBounds, Allocated

LEMMA CallFacts ==
  ASSUME IInv, phase = "call"
  PROVE  /\ Number(a) /\ Number(b) /\ Number(Abs(a)) /\ Number(Abs(b))
         /\ a.sign \in {0, 1} /\ b.sign \in {0, 1}
         /\ a.len \in Nat /\ b.len \in Nat /\ a.point \in Nat /\ b.point \in Nat
         /\ Max2(a.point, b.point) \in Nat /\ AddTimes(a, b) \in Nat
         /\ sign \in {0, 1, None} /\ UseSci(a, b) \in Nat
<1>1. Number(a) /\ Number(b) /\ sign \in {0, 1, None}
  BY DEF IInv, TypeOK, Looping
<1>2. a.sign \in {0, 1} /\ b.sign \in {0, 1} /\ a.len \in Nat /\ b.len \in Nat
  BY <1>1 DEF Number, Result, WellFormed
<1> QED  BY <1>1, <1>2, NumberFacts, UseSciType

LEMMA CalcAddKeeps == ASSUME IInv, CalcAdd, Rest PROVE IInv'
<1>1. phase = "call" /\ op = "+"
  BY DEF CalcAdd
<1>2. CASE a.sign = b.sign
  <2> DEFINE len == AddTimes(a, b) + 1
             point == Max2(a.point, b.point)
  <2>1. len \in Nat /\ point \in Nat /\ a.sign \in {0, 1} /\ AddTimes(a, b) \in Nat
    BY <1>1, CallFacts
  <2>2. Start("add", Temp(len, a.sign, point, UseSci(a, b))) /\ op' = op /\ a' = a /\ b' = b /\ sign' = sign
    BY <1>2, <1>1 DEF CalcAdd
  <2>3. Number(a') /\ Number(b') /\ UseSci(a, b) \in Nat
    BY <1>1, <2>2, CallFacts
  <2>4. /\ TypeOK' /\ InBounds' /\ x' \in Texts /\ y' \in Texts
        /\ phase' = "add" /\ i' = 0 /\ j' = 0 /\ carry' = 0 /\ ~outside'
        /\ Allocated(len, point)'
    BY <1>1, <2>1, <2>2, <2>3, StartKeeps
  <2>5. Looping'
    BY <1>1, <2>1, <2>2, <2>4 DEF Looping, Allocated
  <2> QED  BY <2>4, <2>5 DEF IInv
<1>3. CASE a.sign # b.sign
  BY <1>1, <1>3, CallFacts, CallKeeps DEF CalcAdd, Operations
<1> QED  BY <1>2, <1>3

LEMMA CalcSubKeeps == ASSUME IInv, CalcSub, Rest PROVE IInv'
<1>1. phase = "call" /\ op = "-"
  BY DEF CalcSub
<1>2. ASSUME NEW m, NEW n, NEW s \in {0, 1}, Number(m), Number(n), Integer(m) >= Integer(n),
             Start("sub", Temp(m.len, s, Max2(a.point, b.point), 0)),
             Max2(a.point, b.point) = Max2(m.point, n.point),
             a' = m, b' = n, op' = op, sign' = sign
      PROVE  IInv'
  <2>1. m.len \in Nat /\ Max2(a.point, b.point) \in Nat /\ AddTimes(m, n) \in Nat
    BY <1>1, <1>2, CallFacts, NumberFacts
  <2>2. /\ TypeOK' /\ InBounds' /\ x' \in Texts /\ y' \in Texts
        /\ phase' = "sub" /\ i' = 0 /\ j' = 0 /\ carry' = 0 /\ ~outside'
        /\ Allocated(m.len, Max2(a.point, b.point))'
    <3> DEFINE len == m.len
               point == Max2(a.point, b.point)
    <3>1. len \in Nat /\ point \in Nat /\ Start("sub", Temp(len, s, point, 0)) /\ Number(a') /\ Number(b')
      BY <1>2, <2>1
    <3> HIDE DEF len, point
    <3>2. PICK l \in Nat, p \in Nat : l = len /\ p = point
      BY <3>1
    <3>3. /\ TypeOK' /\ InBounds' /\ x' \in Texts /\ y' \in Texts
          /\ phase' = "sub" /\ i' = 0 /\ j' = 0 /\ carry' = 0 /\ ~outside'
          /\ Allocated(l, p)'
      BY <1>1, <1>2, <3>1, <3>2, StartKeeps
    <3> QED  BY <3>2, <3>3, <1>2 DEF len, point, Allocated
  <2> QED  BY <1>1, <1>2, <2>1, <2>2 DEF IInv, Looping, Allocated
<1>3. CASE a.sign = 0 /\ b.sign = 0
  <2>1. /\ Number(a) /\ Number(b) /\ a.point \in Nat /\ b.point \in Nat
        /\ 0 \in {0, 1} /\ 1 \in {0, 1}
    BY <1>1, CallFacts
  <2>2. Max2(a.point, b.point) = Max2(b.point, a.point)
    BY <2>1 DEF Max2
  <2> DEFINE order == Cmp(a, b)
  <2>3. order \in {-1, 0, 1}
    BY <2>1, <1>3, CmpInteger
  <2>4. CASE Cmp(a, b) >= 0
    <3>1. Integer(a) >= Integer(b)
      BY <2>1, <2>4, <1>3, CmpInteger
    <3>2. /\ Start("sub", Temp(a.len, 0, Max2(a.point, b.point), 0))
          /\ a' = a /\ b' = b /\ op' = op /\ sign' = sign
      BY <1>3, <2>3, <2>4 DEF CalcSub
    <3> QED  BY <1>2, <2>1, <3>1, <3>2
  <2>5. CASE Cmp(a, b) < 0
    <3>1. Integer(b) >= Integer(a)
      BY <2>1, <2>5, <1>3, CmpInteger
    <3>2. /\ Start("sub", Temp(b.len, 1, Max2(a.point, b.point), 0))
          /\ a' = b /\ b' = a /\ op' = op /\ sign' = sign
      BY <1>3, <2>3, <2>5 DEF CalcSub
    <3> QED  BY <1>2, <2>1, <2>2, <3>1, <3>2
  <2> QED  BY <2>3, <2>4, <2>5
<1>4. CASE a.sign = 1 \/ b.sign = 1
  BY <1>1, <1>4, CallFacts, CallKeeps DEF CalcSub, Operations
<1> QED  BY <1>1, <1>3, <1>4, CallFacts

LEMMA CalcMulKeeps == ASSUME IInv, CalcMul, Rest PROVE IInv'
<1> DEFINE len == a.len + b.len
           s == IF a.sign = b.sign THEN 0 ELSE 1
           point == a.point + b.point
<1>1. phase = "call" /\ op = "x"
  BY DEF CalcMul
<1>2. len \in Nat /\ s \in {0, 1} /\ point \in Nat /\ b.len \in Nat
  BY <1>1, CallFacts
<1>3. Start("mul", Temp(len, s, point, UseSci(a, b))) /\ op' = op /\ a' = a /\ b' = b /\ sign' = sign
  BY DEF CalcMul
<1>4. Number(a') /\ Number(b') /\ UseSci(a, b) \in Nat
  BY <1>1, <1>3, CallFacts
<1>5. /\ TypeOK' /\ InBounds' /\ x' \in Texts /\ y' \in Texts
      /\ phase' = "mul" /\ i' = 0 /\ j' = 0 /\ carry' = 0 /\ ~outside'
      /\ Allocated(len, point)'
  BY <1>1, <1>2, <1>3, <1>4, StartKeeps
<1> QED  BY <1>1, <1>2, <1>3, <1>5 DEF IInv, Looping, Allocated

LEMMA LoopFacts ==
  ASSUME IInv, op # "/"
  PROVE  /\ Number(a) /\ Number(b) /\ Result(r) /\ carry \in Digit /\ carry \in Nat
         /\ i \in Nat /\ j \in Nat /\ AddTimes(a, b) \in Nat /\ outside \in BOOLEAN
         /\ a.len \in Nat /\ b.len \in Nat /\ a.point \in Nat /\ b.point \in Nat
         /\ Integer(a) \in Nat /\ Integer(b) \in Nat /\ r.len \in Nat
<1>1. Number(a) /\ Number(b) /\ Result(r) /\ carry \in Digit /\ i \in Nat /\ j \in Nat /\ outside \in BOOLEAN
  BY DEF IInv, TypeOK
<1>2. carry \in Nat /\ r.len \in Nat
  BY <1>1, DigitFacts DEF Result, WellFormed
<1> QED  BY <1>1, <1>2, NumberFacts

LEMMA AddDigitKeeps == ASSUME IInv, AddDigit, Rest PROVE IInv'
<1> DEFINE times == AddTimes(a, b)
           total == carry + DigitOf(a, i) + DigitOf(b, i)
           last == i = times - 1 /\ total >= Base
           data == [k \in DOMAIN r.data |->
                      IF k = i THEN total % Base ELSE IF last /\ k = times THEN 1 ELSE r.data[k]]
<1>1. /\ phase = "add" /\ op = "+" /\ i < times /\ carry <= 1 /\ ~outside
      /\ r.len = times + 1 /\ r.point = Max2(a.point, b.point)
  BY DEF AddDigit, IInv, Looping, Allocated, InBounds
<1>2. DigitOf(a, i) \in Digit /\ DigitOf(b, i) \in Digit
  BY <1>1, LoopFacts, DigitOfType
<1>3. total \in Nat /\ total <= 2 * Base - 1
  <2>1. carry \in Nat
    BY <1>1, LoopFacts
  <2> QED  BY <1>1, <1>2, <2>1, BaseAssumption DEF Digit
<1> HIDE DEF total
<1>4. total % Base \in Digit /\ total \div Base \in 0..1
  BY <1>3, BaseDivMod, SumCarry
<1>5. /\ r' = [r EXCEPT !.data = data] /\ carry' = total \div Base /\ i' = i + 1
      /\ outside' = (outside \/ i >= r.len \/ (last /\ times >= r.len))
      /\ UNCHANGED <<phase, op, a, b, sign, j>>
  BY DEF AddDigit, Loop, total
<1>6. i \in Nat /\ times \in Nat /\ Result(r) /\ Number(a) /\ Number(b)
  BY <1>1, LoopFacts
<1>7. data \in [0..(r.len - 1) -> Digit]
  BY <1>4, <1>6, DigitFacts DEF Result, WellFormed
<1>8. Result(r') /\ r'.len = r.len /\ r'.point = r.point
  <2> HIDE DEF data
  <2> QED  BY <1>5, <1>6, <1>7, NewDigits
<1>9. ~outside'
  <2>1. ~(i >= r.len) /\ ~(times >= r.len)
    BY <1>1, <1>6
  <2> QED  BY <1>1, <1>5, <2>1
<1>10. carry' \in Digit /\ carry' <= 1 /\ i' \in Nat /\ i' <= times
  BY <1>1, <1>4, <1>5, <1>6, DigitFacts
<1>11. TypeOK'
  BY <1>1, <1>5, <1>6, <1>8, <1>9, <1>10, Formed DEF IInv, TypeOK, Rest, Number
<1>12. Looping'
  BY <1>1, <1>5, <1>8, <1>10 DEF Looping, Allocated, Operations
<1> QED  BY <1>5, <1>9, <1>11, <1>12 DEF IInv, InBounds, Rest

LEMMA SubDigitKeeps == ASSUME IInv, SubDigit, Rest PROVE IInv'
<1> DEFINE total == DigitOf(a, i) + Base - carry - DigitOf(b, i)
<1>1. /\ phase = "sub" /\ op = "-" /\ i < AddTimes(a, b) /\ carry <= 1
      /\ r.len = a.len /\ r.point = Max2(a.point, b.point) /\ Integer(a) >= Integer(b)
  BY DEF SubDigit, IInv, Looping, Allocated
<1>2. DigitOf(a, i) \in Digit /\ DigitOf(b, i) \in Digit
  BY <1>1, LoopFacts, DigitOfType
<1>3. total \in Nat
  <2>1. carry \in Nat
    BY <1>1, LoopFacts
  <2> QED  BY <1>1, <1>2, <2>1, BaseAssumption DEF Digit
<1>4. /\ Write(i, total % Base) /\ carry' = IF total \div Base # 0 THEN 0 ELSE 1
      /\ i' = i + 1
      /\ UNCHANGED <<phase, op, a, b, sign, j>>
  BY DEF SubDigit, Loop
<1> HIDE DEF total
<1>5. i \in Nat /\ AddTimes(a, b) \in Nat /\ Result(r) /\ Number(a) /\ Number(b) /\ outside \in BOOLEAN
  BY <1>1, LoopFacts
<1>6. /\ r'.len = r.len /\ r'.point = r.point /\ Result(r)'
      /\ outside' = (outside \/ i >= r.len)
  BY <1>3, <1>4, <1>5, BaseDivMod, WriteKeeps
<1>7. carry' \in Digit /\ carry' <= 1 /\ i' \in Nat /\ i' <= AddTimes(a, b)
  BY <1>1, <1>4, <1>5, DigitFacts
<1>8. i >= r.len => a.point < b.point
  BY <1>1, <1>5, LoopFacts DEF AddTimes, Integer, Max2
<1>9. outside' => op = "-" /\ a.point < b.point
  BY <1>1, <1>6, <1>8 DEF IInv, InBounds
<1>10. TypeOK'
  BY <1>1, <1>4, <1>5, <1>6, <1>7, Formed DEF IInv, TypeOK, Rest, Number
<1>11. Looping'
  BY <1>1, <1>4, <1>6, <1>7 DEF Looping, Allocated, Operations
<1> QED  BY <1>4, <1>9, <1>10, <1>11 DEF IInv, InBounds, Rest

LEMMA MulDigitKeeps == ASSUME IInv, MulDigit, Rest PROVE IInv'
<1> DEFINE total == carry + (IF j < a.len THEN b.data[i] * a.data[j] ELSE 0) + r.data[i + j]
<1>1. /\ phase = "mul" /\ op = "x" /\ i < b.len /\ i + j < r.len /\ ~outside
      /\ r.len = a.len + b.len /\ r.point = a.point + b.point
  BY DEF MulDigit, IInv, Looping, Allocated, InBounds
<1>2. /\ i \in Nat /\ j \in Nat /\ i + j \in Nat /\ Result(r) /\ Number(a) /\ Number(b)
      /\ outside \in BOOLEAN /\ carry \in Digit
      /\ a.len \in Nat /\ b.len \in Nat /\ r.len \in Nat
  BY <1>1, LoopFacts
<1>3. b.data[i] \in Digit /\ r.data[i + j] \in Digit /\ (j < a.len => a.data[j] \in Digit)
  <2>1. /\ i \in 0..(b.len - 1) /\ i + j \in 0..(r.len - 1) /\ (j < a.len => j \in 0..(a.len - 1))
    BY <1>1, <1>2
  <2> QED  BY <1>2, <2>1 DEF Number, Result
<1>4. total \in Nat /\ total \div Base \in Digit
  <2>1. CASE j < a.len
    <3>1. total = carry + b.data[i] * a.data[j] + r.data[i + j]
      BY <2>1
    <3> HIDE DEF total
    <3> QED  BY <2>1, <1>2, <1>3, <3>1, ProductCarry
  <2>2. CASE ~(j < a.len)
    <3>1. total = carry + 0 + r.data[i + j]
      BY <2>2
    <3> HIDE DEF total
    <3>2. 0 \in Digit /\ 0 * 0 = 0
      BY DigitFacts
    <3> QED  BY <1>2, <1>3, <3>1, <3>2, ProductCarry
  <2> QED  BY <2>1, <2>2
<1>5. /\ Write(i + j, total % Base) /\ carry' = total \div Base /\ j' = j + 1
      /\ UNCHANGED <<phase, op, a, b, sign, i>>
  BY DEF MulDigit
<1> HIDE DEF total
<1>6. /\ r'.len = r.len /\ r'.point = r.point /\ Result(r)'
      /\ outside' = (outside \/ i + j >= r.len)
  BY <1>2, <1>4, <1>5, BaseDivMod, WriteKeeps
<1>7. ~outside'
  <2>1. ~(i + j >= r.len)
    BY <1>1, <1>2
  <2> QED  BY <1>1, <1>6, <2>1
<1>8. TypeOK'
  BY <1>1, <1>2, <1>4, <1>5, <1>6, <1>7, Formed DEF IInv, TypeOK, Rest, Number
<1>9. Looping'
  BY <1>1, <1>2, <1>5, <1>6 DEF Looping, Allocated, Operations
<1> QED  BY <1>5, <1>7, <1>8, <1>9 DEF IInv, InBounds, Rest

LEMMA MulRowKeeps == ASSUME IInv, MulRow, Rest PROVE IInv'
<1>1. /\ phase = "mul" /\ op = "x" /\ i < b.len /\ i' = i + 1 /\ j' = 0
      /\ UNCHANGED <<x, y, op0, phase, op, a, b, sign, r, carry, outside, wrapped, time>>
  BY DEF MulRow, Rest, IInv, Looping
<1>2. i \in Nat /\ b.len \in Nat /\ Number(a) /\ Number(b) /\ Result(r) /\ WellFormed(r)
  BY <1>1, LoopFacts, Formed
<1>3. TypeOK'
  BY <1>1, <1>2 DEF IInv, TypeOK, Number
<1>4. Looping'
  BY <1>1, <1>2 DEF IInv, Looping, Allocated
<1> QED  BY <1>1, <1>3, <1>4 DEF IInv, InBounds

(***************************************************************************)
(* The steps of a division.                                                *)
(***************************************************************************)
LEMMA AddZeroFields ==
  ASSUME NEW n, WellFormed(n), NEW v \in Int
  PROVE  AddZero(n, v) =
           [sign |-> n.sign, len |-> n.len + v, point |-> n.point, sci |-> n.sci, data |-> Moved(n, v)]
<1> DEFINE len == n.len + v
           data == Moved(n, v)
<1>1. n = [sign |-> n.sign, len |-> n.len, point |-> n.point, sci |-> n.sci, data |-> n.data]
  BY DEF WellFormed
<1>2. AddZero(n, v) = [n EXCEPT !.len = len, !.data = data]
  BY DEF AddZero
<1> HIDE DEF len, data
<1>3. AddZero(n, v) = [sign |-> n.sign, len |-> len, point |-> n.point, sci |-> n.sci, data |-> data]
  BY <1>1, <1>2
<1> QED  BY <1>3 DEF len, data

LEMMA MovedType ==
  ASSUME NEW n, Result(n), NEW v \in Int, n.len + v \in Nat
  PROVE  Moved(n, v) \in [0..(n.len + v - 1) -> Digit]
<1>1. n.len \in Nat /\ n.data \in [0..(n.len - 1) -> Digit]
  BY DEF Result, WellFormed
<1>2. ASSUME NEW k \in 0..(n.len + v - 1), ~(k < v)  PROVE n.data[k - v] \in Digit
  <2>1. k - v \in 0..(n.len - 1)
    BY <1>1, <1>2
  <2> QED  BY <1>1, <2>1
<1>3. \A k \in 0..(n.len + v - 1) : (IF k < v THEN 0 ELSE n.data[k - v]) \in Digit
  BY <1>2, DigitFacts
<1> QED  BY <1>3 DEF Moved

LEMMA CalcDivKeeps == ASSUME IInv, CalcDiv, UNCHANGED <<x, y>> PROVE IInv'
<1>1. /\ phase = "call" /\ op = "/"
      /\ UNCHANGED <<op, b, sign, i, j, carry, outside, time, wrapped, x, y>>
  BY DEF CalcDiv
<1>2. /\ Number(a) /\ Number(b) /\ a.len \in Nat /\ b.len \in Nat
      /\ a.point \in Nat /\ b.point \in Nat
  BY <1>1, CallFacts
<1>3. Result(a) /\ WellFormed(r) /\ a.point <= a.len
  BY <1>2 DEF Number, IInv, TypeOK
<1>4. /\ i = 0 /\ j = 0 /\ carry = 0 /\ ~outside /\ x \in Texts /\ y \in Texts
      /\ time \in Nat /\ wrapped \in BOOLEAN /\ sign \in {0, 1, None} /\ op \in Operations
      /\ outside \in BOOLEAN
  BY <1>1 DEF IInv, TypeOK, Looping
<1>5. CASE phase' \in {"exit", "undefined"} /\ UNCHANGED <<a, r>>
  <2>1. phase' \notin {"div", "divsub"} /\ Result(a') /\ Number(b') /\ WellFormed(r')
    BY <1>1, <1>2, <1>3, <1>5
  <2>2. TypeOK'
    BY <1>1, <1>4, <1>5, <2>1, DigitFacts DEF TypeOK
  <2> QED  BY <1>1, <1>4, <1>5, <2>2 DEF IInv, InBounds, Looping
<1>6. CASE phase' = "print" /\ r' = Temp(1, 0, 0, 0) /\ UNCHANGED a
  <2>1. WellFormed(r')
    BY <1>6, TempResult, Formed
  <2>2. Result(a') /\ Number(b')
    BY <1>1, <1>2, <1>3, <1>6
  <2>3. TypeOK'
    BY <1>1, <1>4, <1>6, <2>2, <2>1, DigitFacts DEF TypeOK
  <2> QED  BY <1>1, <1>4, <1>6, <2>3 DEF IInv, InBounds, Looping
<1>7. CASE /\ JudgeZero(b) /\ QuotientLen >= 0 /\ phase' = "div"
           /\ a' = AddZero(a, Extension)
           /\ r' = Temp(QuotientLen, 0, Decimals, 0)
           /\ rem' = IF QuotientLen > 0 THEN Front(a', b.len) ELSE <<>>
  <2>1. Extension \in Int /\ Decimals \in Nat
    BY <1>2, DivisionAssumption DEF Extension
  <2>2. b.len > 0
    BY <1>2, <1>7 DEF JudgeZero
  <2>3. a.len + Extension \in Nat
    BY <1>2, <1>7, <2>1, <2>2 DEF QuotientLen
  <2>4. PICK len \in Nat : len = a.len + Extension
    BY <2>3
  <2>5. QuotientLen = len - b.len + 1 /\ QuotientLen \in Nat
    BY <1>2, <1>7, <2>1, <2>4 DEF QuotientLen
  <2>6. Moved(a, Extension) \in [0..(a.len + Extension - 1) -> Digit]
    BY <1>3, <2>3, <2>1, MovedType, Zenon
  <2>7. a' = [sign |-> a.sign, len |-> len, point |-> a.point, sci |-> a.sci,
              data |-> Moved(a, Extension)]
    <3>1. WellFormed(a)
      BY <1>3 DEF Result
    <3> QED  BY <1>7, <2>1, <2>4, <3>1, AddZeroFields
  <2>8. a'.len = len /\ a'.data \in [0..(len - 1) -> Digit]
    <3>1. Moved(a, Extension) \in [0..(len - 1) -> Digit]
      BY <1>2, <2>1, <2>6, <2>4
    <3> QED  BY <2>7, <3>1
  <2>9. Result(a')
    BY <1>3, <2>7, <2>8, DigitFacts DEF Result, WellFormed
  <2>10. WellFormed(r') /\ r'.len = QuotientLen /\ r'.point = Decimals
    BY <1>7, <2>1, <2>5, TempResult, TempDigits, Formed
  <2>11. ASSUME QuotientLen > 0  PROVE rem' \in [0..(b.len - 1) -> Digit]
    <3>1. ASSUME NEW k \in 0..(b.len - 1)  PROVE a'.data[a'.len - b.len + k] \in Digit
      <4>1. len - b.len + k \in 0..(len - 1)
        BY <1>2, <2>5, <2>11, <3>1
      <4> QED  BY <2>8, <4>1
    <3> QED  BY <1>7, <2>11, <3>1 DEF Front
  <2>12. i' < r'.len => rem' \in [0..(Digits' - 1) -> Digit]
    BY <1>1, <1>4, <2>10, <2>11 DEF Digits
  <2>13. TypeOK'
    <3>1. Number(b') /\ op' = "/"
      BY <1>1, <1>2
    <3> QED  BY <1>1, <1>4, <1>7, <2>9, <2>10, <2>12, <3>1, DigitFacts DEF TypeOK
  <2>14. Looping'
    BY <1>1, <1>4, <1>7, <2>2, <2>5, <2>8, <2>10 DEF Looping, Allocated
  <2> QED  BY <1>1, <1>4, <2>13, <2>14 DEF IInv, InBounds
<1> QED  BY <1>5, <1>6, <1>7 DEF CalcDiv

LEMMA DivFacts ==
  ASSUME IInv, phase \in {"div", "divsub"}
  PROVE  /\ op = "/" /\ Result(a) /\ Number(b) /\ WellFormed(r) /\ ~outside
         /\ a.len \in Nat /\ b.len \in Nat /\ r.len \in Nat /\ i \in Nat /\ j \in Nat /\ time \in Nat
         /\ b.len > 0 /\ r.len = a.len - b.len + 1 /\ i <= r.len /\ r.point = Decimals
         /\ Digits \in Nat /\ Digits > 0 /\ (\A k \in Nat : Divisor(k) \in Digit)
         /\ (i < r.len => rem \in [0..(Digits - 1) -> Digit])
         /\ wrapped \in BOOLEAN /\ outside \in BOOLEAN /\ carry \in Digit /\ sign \in {0, 1, None}
         /\ op \in Operations /\ x \in Texts /\ y \in Texts
<1>1. /\ op = "/" /\ Result(a) /\ Number(b) /\ WellFormed(r) /\ ~outside
      /\ i \in Nat /\ j \in Nat /\ time \in Nat
      /\ b.len > 0 /\ r.len = a.len - b.len + 1 /\ i <= r.len /\ r.point = Decimals
      /\ (i < r.len => rem \in [0..(Digits - 1) -> Digit])
      /\ wrapped \in BOOLEAN /\ outside \in BOOLEAN /\ carry \in Digit /\ sign \in {0, 1, None}
      /\ op \in Operations /\ x \in Texts /\ y \in Texts
  BY DEF IInv, TypeOK, InBounds, Looping, Allocated
<1>2. a.len \in Nat /\ b.len \in Nat /\ r.len \in Nat
  BY <1>1 DEF Number, Result, WellFormed
<1>3. \A k \in Nat : Divisor(k) \in Digit
  BY <1>1, <1>2, DigitFacts DEF Divisor, Number, Result
<1> QED  BY <1>1, <1>2, <1>3 DEF Digits

LEMMA SubtractKeeps == ASSUME IInv, Subtract, UNCHANGED <<x, y>> PROVE IInv'
<1>1. /\ phase = "div" /\ i < r.len /\ phase' = "divsub" /\ j' = 0 /\ carry' = 0
      /\ UNCHANGED <<op, a, b, sign, r, i, outside, rem, time, wrapped, x, y>>
  BY DEF Subtract
<1>2. TypeOK'
  BY <1>1, DivFacts, DigitFacts DEF TypeOK, Digits
<1>3. Looping'
  BY <1>1, DivFacts DEF Looping, Allocated, Digits
<1> QED  BY <1>1, <1>2, <1>3, DivFacts DEF IInv, InBounds

LEMMA RemainderDigitKeeps == ASSUME IInv, RemainderDigit, UNCHANGED <<x, y>> PROVE IInv'
<1> DEFINE total == rem[j] + Base - carry - Divisor(j)
<1>1. /\ phase = "divsub" /\ i < r.len /\ j < Digits /\ carry <= 1
  BY DEF RemainderDigit, IInv, Looping
<1>2. rem \in [0..(Digits - 1) -> Digit] /\ j \in 0..(Digits - 1) /\ Divisor(j) \in Digit
  BY <1>1, DivFacts
<1>3. total \in Nat
  <2>1. rem[j] \in Digit /\ carry \in Nat
    BY <1>1, <1>2, DivFacts, DigitFacts
  <2> QED  BY <1>1, <1>2, <2>1, BaseAssumption DEF Digit
<1>4. /\ rem' = [rem EXCEPT ![j] = total % Base]
      /\ carry' = IF total \div Base # 0 THEN 0 ELSE 1
      /\ \/ j < Digits - 1 /\ j' = j + 1 /\ phase' = phase /\ time' = time
         \/ phase' = "div" /\ time' = time + 1 /\ j' = j
      /\ UNCHANGED <<op, a, b, sign, r, i, outside, wrapped, x, y>>
  BY DEF RemainderDigit
<1> HIDE DEF total
<1>5. rem' \in [0..(Digits - 1) -> Digit]
  BY <1>2, <1>3, <1>4, BaseDivMod
<1>6. carry' \in Digit /\ carry' <= 1
  BY <1>4, DigitFacts
<1>7. Digits' = Digits
  BY <1>4 DEF Digits
<1>8. phase' \in {"div", "divsub"} /\ j' \in Nat /\ time' \in Nat /\ (phase' = "divsub" => j' < Digits)
  BY <1>1, <1>4, DivFacts
<1>9. TypeOK'
  BY <1>1, <1>4, <1>5, <1>6, <1>7, <1>8, DivFacts DEF TypeOK
<1>10. Looping'
  BY <1>1, <1>4, <1>6, <1>7, <1>8, DivFacts DEF Looping, Allocated
<1> QED  BY <1>1, <1>4, <1>9, <1>10, DivFacts DEF IInv, InBounds

LEMMA QuotientDigitKeeps == ASSUME IInv, QuotientDigit, UNCHANGED <<x, y>> PROVE IInv'
<1>1. /\ phase = "div" /\ i < r.len /\ i' = i + 1 /\ time' = 0
      /\ r' = [r EXCEPT !.data[r.len - 1 - i] = Char(time)]
      /\ wrapped' = (wrapped \/ Char(time) # time)
      /\ rem' = IF i + 1 = r.len THEN rem
                ELSE [k \in 0..b.len |-> IF k = 0 THEN a.data[r.len - 2 - i] ELSE rem[k - 1]]
      /\ UNCHANGED <<phase, op, a, b, sign, j, carry, outside, x, y>>
  BY DEF QuotientDigit
<1>2. Char(time) \in Int
  BY <1>1, DivFacts, DivisionAssumption DEF Char
<1>3. /\ WellFormed(r) /\ i \in Nat /\ r.len \in Nat /\ a.len \in Nat /\ b.len \in Nat
      /\ b.len > 0 /\ r.len = a.len - b.len + 1
  BY <1>1, DivFacts
<1>4. WellFormed(r') /\ r'.len = r.len /\ r'.point = r.point
  <2> DEFINE data == [r.data EXCEPT ![r.len - 1 - i] = Char(time)]
  <2>1. r = [sign |-> r.sign, len |-> r.len, point |-> r.point, sci |-> r.sci, data |-> r.data]
    BY <1>1, DivFacts DEF WellFormed
  <2>2. r' = [sign |-> r.sign, len |-> r.len, point |-> r.point, sci |-> r.sci, data |-> data]
    BY <1>1, <2>1
  <2>3. data \in [0..(r.len - 1) -> Int]
    BY <1>3, <1>2 DEF WellFormed
  <2> HIDE DEF data
  <2> QED  BY <1>3, <2>2, <2>3 DEF WellFormed
<1>5. ASSUME i + 1 < r.len  PROVE rem' \in [0..(Digits' - 1) -> Digit]
  <2>1. Digits' = b.len + 1 /\ Digits >= b.len
    BY <1>1, DivFacts DEF Digits
  <2>2. a.data[r.len - 2 - i] \in Digit
    <3>1. r.len - 2 - i \in 0..(a.len - 1)
      BY <1>3, <1>5
    <3> QED  BY <1>1, <3>1, DivFacts DEF Result
  <2>3. ASSUME NEW k \in 1..b.len  PROVE rem[k - 1] \in Digit
    <3>1. k - 1 \in 0..(Digits - 1)
      BY <1>1, <2>1, <2>3, DivFacts
    <3> QED  BY <1>1, <3>1, DivFacts
  <2>4. \A k \in 0..b.len : (IF k = 0 THEN a.data[r.len - 2 - i] ELSE rem[k - 1]) \in Digit
    BY <1>1, <2>2, <2>3, DivFacts
  <2>5. rem' \in [0..b.len -> Digit]
    BY <1>1, <1>5, <2>4, DivFacts
  <2>6. Digits' - 1 = b.len
    BY <1>1, <2>1, DivFacts
  <2> QED  BY <2>5, <2>6
<1>6. TypeOK'
  BY <1>1, <1>4, <1>5, DivFacts DEF TypeOK
<1>7. Looping'
  BY <1>1, <1>4, DivFacts DEF Looping, Allocated
<1> QED  BY <1>1, <1>6, <1>7, DivFacts DEF IInv, InBounds

LEMMA DivReturnKeeps == ASSUME IInv, DivReturn, UNCHANGED <<x, y>> PROVE IInv'
<1> DEFINE s == IF a.sign = b.sign THEN 0 ELSE 1
           sci == UseSci(a, b)
<1>1. /\ phase = "div" /\ phase' = "print" /\ r' = [r EXCEPT !.sign = s, !.sci = sci]
      /\ UNCHANGED <<op, a, b, sign, i, j, carry, outside, rem, time, wrapped, x, y>>
  BY DEF DivReturn
<1>2. s \in {0, 1} /\ sci \in Nat
  BY UseSciType
<1> HIDE DEF s, sci
<1>3. WellFormed(r')
  <2>1. r = [sign |-> r.sign, len |-> r.len, point |-> r.point, sci |-> r.sci, data |-> r.data]
    BY <1>1, DivFacts DEF WellFormed
  <2>2. r' = [sign |-> s, len |-> r.len, point |-> r.point, sci |-> sci, data |-> r.data]
    BY <1>1, <2>1
  <2> QED  BY <1>1, <1>2, <2>2, DivFacts DEF WellFormed
<1>4. TypeOK'
  BY <1>1, <1>3, DivFacts DEF TypeOK
<1> QED  BY <1>1, <1>4, DivFacts DEF IInv, InBounds, Looping

LEMMA ReturnKeeps == ASSUME IInv, Return PROVE IInv'
<1>1. /\ phase' = "print" /\ r' = IF sign = None THEN r ELSE [r EXCEPT !.sign = sign]
      /\ UNCHANGED <<x, y, op0, op, a, b, sign, i, j, carry, outside, wrapped, time>>
      /\ op # "/"
  BY DEF Return, loop, command, division, output, IInv, Looping
<1>2. Number(a) /\ Number(b) /\ Result(a) /\ Result(r) /\ sign \in {0, 1, None}
  BY <1>1, LoopFacts DEF IInv, TypeOK
<1>3. Result(r') /\ WellFormed(r')
  <2>1. CASE sign = None
    BY <1>1, <1>2, <2>1, Formed
  <2>2. CASE sign # None
    <3>1. r = [sign |-> r.sign, len |-> r.len, point |-> r.point, sci |-> r.sci, data |-> r.data]
      BY <1>2 DEF Result, WellFormed
    <3>2. r' = [sign |-> sign, len |-> r.len, point |-> r.point, sci |-> r.sci, data |-> r.data]
      BY <1>1, <2>2, <3>1
    <3> QED  BY <1>2, <2>2, <3>2 DEF Result, WellFormed, None
  <2> QED  BY <2>1, <2>2
<1>4. TypeOK'
  BY <1>1, <1>2, <1>3 DEF IInv, TypeOK
<1> QED  BY <1>1, <1>4 DEF IInv, InBounds, Looping

LEMMA PrintKeeps == ASSUME IInv, PrintBignumber PROVE IInv'
<1>1. /\ phase' = "end" /\ r' = Adjusted(r)
      /\ UNCHANGED <<x, y, op0, op, a, b, sign, i, j, carry, outside, wrapped, time>>
  BY DEF PrintBignumber, loop, command, division
<1>2. ASSUME NEW n, WellFormed(n)
      PROVE  WellFormed(Adjusted(n)) /\ (Result(n) => Result(Adjusted(n)))
  <2>1. n = [sign |-> n.sign, len |-> n.len, point |-> n.point, sci |-> n.sci, data |-> n.data]
    BY <1>2 DEF WellFormed
  <2>2. n.point \in Nat /\ n.sci \in Nat
    BY <1>2 DEF WellFormed
  <2>3. CASE n.point = 0 \/ n.sci = 0
    BY <1>2, <2>3 DEF Adjusted
  <2>4. CASE ~(n.point = 0 \/ n.sci = 0) /\ n.point > n.sci
    <3>1. Adjusted(n) = [sign |-> n.sign, len |-> n.len, point |-> n.point - n.sci, sci |-> 0,
                         data |-> n.data]
      BY <2>1, <2>4 DEF Adjusted
    <3>2. n.point - n.sci \in Nat
      BY <2>2, <2>4
    <3> QED  BY <1>2, <3>1, <3>2 DEF WellFormed, Result
  <2>5. CASE ~(n.point = 0 \/ n.sci = 0) /\ ~(n.point > n.sci)
    <3>1. Adjusted(n) = [sign |-> n.sign, len |-> n.len, point |-> 0, sci |-> n.sci - n.point,
                         data |-> n.data]
      BY <2>1, <2>5 DEF Adjusted
    <3>2. n.sci - n.point \in Nat
      BY <2>2, <2>5
    <3> QED  BY <1>2, <3>1, <3>2 DEF WellFormed, Result
  <2> QED  BY <2>3, <2>4, <2>5
<1>3. WellFormed(r') /\ (op # "/" => Result(r'))
  BY <1>1, <1>2 DEF IInv, TypeOK
<1>4. TypeOK'
  BY <1>1, <1>3 DEF IInv, TypeOK, WellFormed, Result, Number
<1> QED  BY <1>1, <1>4 DEF IInv, InBounds, Looping

LEMMA UsageKeeps == ASSUME IInv, Usage PROVE IInv'
<1>1. phase' = "exit" /\ UNCHANGED <<loop, r, division, command>>
  BY DEF Usage
<1>2. TypeOK'
  BY <1>1 DEF IInv, TypeOK, loop, division, WellFormed, Result, Number
<1> QED  BY <1>1, <1>2 DEF IInv, InBounds, Looping, loop, command

LEMMA Invariance == Spec => []IInv
<1>1. Init => IInv
  <2> SUFFICES ASSUME Init PROVE IInv
    OBVIOUS
  <2>1. Result(Zero) /\ WellFormed(Zero) /\ Zero.point = 0 /\ Zero.len = 0
    BY TempResult, TempDigits, Formed DEF Zero
  <2>2. Number(Zero)
    BY <2>1 DEF Number
  <2> HIDE DEF Zero
  <2> QED  BY <2>1, <2>2, DigitFacts
           DEF Init, IInv, TypeOK, InBounds, Looping, Operations, None
<1>2. IInv /\ [Next]_vars => IInv'
  <2> SUFFICES ASSUME IInv, [Next]_vars PROVE IInv'
    OBVIOUS
  <2>1. CASE UNCHANGED vars
    BY <2>1 DEF vars, loop, division, command, IInv, TypeOK, InBounds, Looping, Allocated, Number,
       Result, WellFormed, AddTimes, Integer, Max2, Digits
  <2>2. CASE Calculate
    <3>1. Rest
      BY <2>2 DEF Calculate, Rest, division, command, output
    <3> QED  BY <2>2, <3>1, CalcAddKeeps, CalcSubKeeps, CalcMulKeeps, AddDigitKeeps, SubDigitKeeps,
             MulDigitKeeps, MulRowKeeps DEF Calculate
  <2>3. CASE Divide
    <3>1. UNCHANGED <<x, y, op0, leftover, text>>
      BY <2>3 DEF Divide, command, output
    <3> QED  BY <2>3, <3>1, CalcDivKeeps, SubtractKeeps, RemainderDigitKeeps, QuotientDigitKeeps,
             DivReturnKeeps DEF Divide
  <2> QED  BY <2>1, <2>2, <2>3, ReadKeeps, UsageKeeps, ReturnKeeps, PrintKeeps DEF Next
<1> QED  BY <1>1, <1>2, PTL DEF Spec
-----------------------------------------------------------------------------
(***************************************************************************)
(* In every base and for all arguments the digits of all numbers and the   *)
(* carries of the three loops are digits; no carry overflows.              *)
(***************************************************************************)
THEOREM TypeCorrect == Spec => []TypeOK
<1>1. IInv => TypeOK
  BY DEF IInv
<1> QED  BY <1>1, Invariance, PTL

(***************************************************************************)
(* The sum and the product fit in the numbers calc_add and calc_mul        *)
(* allocate; the difference does unless the number with fewer decimals is  *)
(* the larger one.                                                         *)
(***************************************************************************)
THEOREM ResultsFit == Spec => []InBounds
<1>1. IInv => InBounds
  BY DEF IInv
<1> QED  BY <1>1, Invariance, PTL

-----------------------------------------------------------------------------
(***************************************************************************)
(* Numbers and their digits.                                               *)
(***************************************************************************)
LEMMA PowerDef ==
  /\ Power \in [Nat -> Nat \ {0}]
  /\ Power[0] = 1
  /\ \A n \in Nat : Power[n + 1] = Base * Power[n]
<1>1. PICK G : G = [p \in (Nat \ {0}) \X (Nat \ {0}) |-> Base * p[2]]
  OBVIOUS
<1>2. G \in [(Nat \ {0}) \X (Nat \ {0}) -> Nat \ {0}]
  <2>1. \A v \in Nat \ {0} : Base * v \in Nat \ {0}
    BY BaseAssumption
  <2> QED BY <1>1, <2>1
<1>3. 1 \in Nat \ {0}
  OBVIOUS
<1>4. PICK F \in [Nat -> Nat \ {0}] : F = [n \in Nat |-> IF n = 0 THEN 1 ELSE G[<<n, F[n - 1]>>]]
  <2>1. PICK V : V = Nat \ {0}
    OBVIOUS
  <2>2. 1 \in V /\ G \in [(Nat \ {0}) \X V -> V]
    BY <1>2, <1>3, <2>1
  <2>3. \E F \in [Nat -> V] : NatRecurs(F, 1, G)
    BY <2>2, NatRecursionExists
  <2> QED BY <2>1, <2>3 DEF NatRecurs
<1>5. F = [n \in Nat |-> IF n = 0 THEN 1 ELSE Base * F[n - 1]]
  <2>1. \A n \in Nat : n # 0 => G[<<n, F[n - 1]>>] = Base * F[n - 1]
    <3> SUFFICES ASSUME NEW n \in Nat, n # 0  PROVE G[<<n, F[n - 1]>>] = Base * F[n - 1]
      OBVIOUS
    <3>1. <<n, F[n - 1]>> \in (Nat \ {0}) \X (Nat \ {0})
      BY <1>4
    <3> QED BY <1>1, <3>1
  <2> QED BY <1>4, <2>1
<1>6. \E f : f = [n \in Nat |-> IF n = 0 THEN 1 ELSE Base * f[n - 1]]
  BY <1>5
<1>7. Power = CHOOSE f : f = [n \in Nat |-> IF n = 0 THEN 1 ELSE Base * f[n - 1]]
  BY DEF Power
<1>8. Power = [n \in Nat |-> IF n = 0 THEN 1 ELSE Base * Power[n - 1]]
  BY <1>6, <1>7
<1>9. PICK P : P = Power
  OBVIOUS
<1>10. P = [n \in Nat |-> IF n = 0 THEN 1 ELSE Base * P[n - 1]]
  BY <1>8, <1>9
<1>11. P[0] = 1
  BY <1>10
<1>12. \A n \in Nat : P[n + 1] = Base * P[n]
  <2> SUFFICES ASSUME NEW n \in Nat  PROVE P[n + 1] = Base * P[n]
    OBVIOUS
  <2>1. n + 1 \in Nat /\ n + 1 # 0 /\ (n + 1) - 1 = n
    OBVIOUS
  <2>2. \A q \in Nat : P[q] = IF q = 0 THEN 1 ELSE Base * P[q - 1]
    BY <1>10
  <2> QED BY <2>1, <2>2
<1>13. \A n \in Nat : P[n] \in Nat \ {0}
  <2> SUFFICES ASSUME NEW n \in Nat  PROVE P[n] \in Nat \ {0}
    OBVIOUS
  <2>1. PICK T : T = {q \in Nat : P[q] \in Nat \ {0}}
    OBVIOUS
  <2>2. 0 \in T
    BY <1>11, <2>1
  <2>3. \A q \in 0..(n - 1) : q \in T => q + 1 \in T
    <3> SUFFICES ASSUME NEW q \in 0..(n - 1), q \in T  PROVE q + 1 \in T
      OBVIOUS
    <3>1. P[q + 1] = Base * P[q]
      BY <1>12
    <3> QED BY <2>1, <3>1, BaseAssumption
  <2>4. \A q \in 0..n : q \in T
    BY <2>2, <2>3, Upward
  <2> QED BY <2>1, <2>4
<1>14. P \in [Nat -> Nat \ {0}]
  <2>1. P = [n \in Nat |-> P[n]]
    BY <1>10
  <2> QED BY <1>13, <2>1
<1> QED BY <1>9, <1>11, <1>12, <1>14

LEMMA PowerSum ==
  ASSUME NEW m \in Nat, NEW n \in Nat
  PROVE  Power[m + n] = Power[m] * Power[n]
<1>1. PICK T : T = {q \in Nat : Power[m + q] = Power[m] * Power[q]}
  OBVIOUS
<1>2. 0 \in T
  BY <1>1, PowerDef
<1>3. \A q \in 0..(n - 1) : q \in T => q + 1 \in T
  <2> SUFFICES ASSUME NEW q \in 0..(n - 1), q \in T  PROVE q + 1 \in T
    OBVIOUS
  <2>1. Power[m + q] \in Nat /\ Power[m] \in Nat /\ Power[q] \in Nat /\ m + q \in Nat /\ q \in Nat
    BY PowerDef
  <2>2. (m + q) + 1 = m + (q + 1)
    OBVIOUS
  <2>3. Power[(m + q) + 1] = Base * Power[m + q] /\ Power[q + 1] = Base * Power[q]
    BY <2>1, PowerDef
  <2>4. Power[m + q] = Power[m] * Power[q]
    BY <1>1
  <2>5. Base * (Power[m] * Power[q]) = Power[m] * (Base * Power[q])
    BY <2>1, BaseAssumption
  <2> QED BY <1>1, <2>2, <2>3, <2>4, <2>5
<1>4. \A q \in 0..n : q \in T
  BY <1>2, <1>3, Upward
<1> QED BY <1>1, <1>4

LEMMA PowerType == ASSUME NEW n \in Nat PROVE Power[n] \in Nat \ {0}
BY PowerDef

\* What the first k digits of d are worth.
Worth(d, k) == SumFunction([q \in 0..(k - 1) |-> d[q] * Power[q]])

Terms(d, k) == [q \in 0..(k - 1) |-> d[q] * Power[q]]

LEMMA WorthSum ==
  ASSUME NEW d, NEW k \in Nat
  PROVE  Worth(d, k) = SumFunctionOnSet(Terms(d, k), 0..(k - 1)) /\ IsFiniteSet(0..(k - 1))
<1>1. Worth(d, k) = SumFunctionOnSet(Terms(d, k), 0..(k - 1))
  <2>1. DOMAIN Terms(d, k) = 0..(k - 1)
    BY DEF Terms
  <2>2. SumFunction(Terms(d, k)) = SumFunctionOnSet(Terms(d, k), 0..(k - 1))
    BY <2>1, SumOver
  <2> QED BY <2>2 DEF Worth, Terms
<1>2. k - 1 \in Int
  OBVIOUS
<1> QED BY <1>1, <1>2, FS_Interval

LEMMA TermInt ==
  ASSUME NEW d, NEW k \in Nat, \A q \in 0..(k - 1) : d[q] \in Int
  PROVE  \A q \in 0..(k - 1) : Terms(d, k)[q] = d[q] * Power[q] /\ Terms(d, k)[q] \in Int
<1> SUFFICES ASSUME NEW q \in 0..(k - 1)
             PROVE  Terms(d, k)[q] = d[q] * Power[q] /\ Terms(d, k)[q] \in Int
  OBVIOUS
<1>1. Power[q] \in Nat
  BY PowerDef
<1> QED BY <1>1 DEF Terms

LEMMA WorthInt ==
  ASSUME NEW d, NEW k \in Nat, \A q \in 0..(k - 1) : d[q] \in Int
  PROVE  Worth(d, k) \in Int
BY WorthSum, TermInt, SumInt

LEMMA WorthZero == ASSUME NEW d PROVE Worth(d, 0) = 0
<1>1. 0..(0 - 1) = {}
  OBVIOUS
<1>2. Worth(d, 0) = SumFunctionOnSet(Terms(d, 0), 0..(0 - 1))
  BY WorthSum
<1> QED BY <1>1, <1>2, SumEmpty

LEMMA WorthNext ==
  ASSUME NEW d, NEW k \in Nat, \A q \in 0..k : d[q] \in Int
  PROVE  Worth(d, k + 1) = Worth(d, k) + d[k] * Power[k]
<1>1. PICK f : f = Terms(d, k + 1)
  OBVIOUS
<1>2. PICK g : g = Terms(d, k)
  OBVIOUS
<1>3. \A q \in 0..k : f[q] = d[q] * Power[q] /\ f[q] \in Int
  <2>1. 0..((k + 1) - 1) = 0..k
    OBVIOUS
  <2> QED BY <1>1, <2>1, TermInt
<1>4. SumFunctionOnSet(f, 0..k) = SumFunctionOnSet(f, 0..(k - 1)) + f[k]
  BY <1>3, SumLast
<1>5. SumFunctionOnSet(f, 0..(k - 1)) = SumFunctionOnSet(g, 0..(k - 1))
  <2>1. \A q \in 0..(k - 1) : f[q] = g[q]
    BY <1>2, <1>3 DEF Terms
  <2>2. IsFiniteSet(0..(k - 1))
    BY WorthSum
  <2> QED BY <2>1, <2>2, SumCongruence
<1>6. Worth(d, k + 1) = SumFunctionOnSet(f, 0..k)
  <2>1. (k + 1) - 1 = k /\ k + 1 \in Nat
    OBVIOUS
  <2>2. Worth(d, k + 1) = SumFunctionOnSet(Terms(d, k + 1), 0..((k + 1) - 1))
    BY <2>1, WorthSum
  <2> QED BY <1>1, <2>1, <2>2
<1>7. Worth(d, k) = SumFunctionOnSet(g, 0..(k - 1))
  BY <1>2, WorthSum
<1>8. k \in 0..k
  OBVIOUS
<1> QED BY <1>3, <1>4, <1>5, <1>6, <1>7, <1>8

LEMMA WorthEqual ==
  ASSUME NEW d, NEW e, NEW k \in Nat, \A q \in 0..(k - 1) : d[q] = e[q]
  PROVE  Worth(d, k) = Worth(e, k)
<1>1. Terms(d, k) = Terms(e, k)
  BY DEF Terms
<1> QED BY <1>1, WorthSum

(***************************************************************************)
(* Numbers of k digits are smaller than Base^k.                            *)
(***************************************************************************)
LEMMA WorthBound ==
  ASSUME NEW d, NEW k \in Nat, \A q \in 0..(k - 1) : d[q] \in Digit
  PROVE  Worth(d, k) \in Nat /\ Worth(d, k) < Power[k]
<1>1. PICK T : T = {q \in Nat : Worth(d, q) \in Nat /\ Worth(d, q) < Power[q]}
  OBVIOUS
<1>2. 0 \in T
  BY <1>1, WorthZero, PowerDef
<1>3. \A q \in 0..(k - 1) : q \in T => q + 1 \in T
  <2> SUFFICES ASSUME NEW q \in 0..(k - 1), q \in T  PROVE q + 1 \in T
    OBVIOUS
  <2>1. \A z \in 0..q : d[z] \in Int
    <3>1. \A z \in 0..q : z \in 0..(k - 1)
      OBVIOUS
    <3>2. \A z \in 0..q : d[z] \in Digit
      BY <3>1
    <3>3. \A z \in Digit : z \in Int
      BY DigitFacts
    <3> QED BY <3>2, <3>3
  <2>2. q \in Nat /\ Worth(d, q + 1) = Worth(d, q) + d[q] * Power[q]
    BY <2>1, WorthNext
  <2>3. PICK c : c = d[q]
    OBVIOUS
  <2>4. PICK P : P = Power[q]
    OBVIOUS
  <2>5. PICK w : w = Worth(d, q)
    OBVIOUS
  <2>6. c \in 0..(Base - 1) /\ P \in Nat \ {0} /\ w \in Nat /\ w < P
    BY <1>1, <2>2, <2>3, <2>4, <2>5, PowerDef DEF Digit
  <2>7. Power[q + 1] = Base * P
    BY <2>2, <2>4, PowerDef
  <2>8. c * P <= (Base - 1) * P /\ c * P \in Nat
    BY <2>6, BaseAssumption
  <2>9. (Base - 1) * P + P = Base * P
    BY <2>6, BaseAssumption
  <2>10. w + c * P \in Nat /\ w + c * P < Base * P
    <3>1. Base * P \in Nat /\ (Base - 1) * P \in Nat
      BY <2>6, BaseAssumption
    <3> QED BY <2>6, <2>8, <2>9, <3>1
  <2> QED BY <1>1, <2>2, <2>3, <2>4, <2>5, <2>7, <2>10
<1>4. \A q \in 0..k : q \in T
  BY <1>2, <1>3, Upward
<1> QED BY <1>1, <1>4

(***************************************************************************)
(* Zeros at the upper end, digits moved up, and a digit overwritten.       *)
(***************************************************************************)
LEMMA WorthZeros ==
  ASSUME NEW d, NEW k \in Nat, NEW l \in Nat, k <= l,
         \A q \in 0..(k - 1) : d[q] \in Int, \A q \in k..(l - 1) : d[q] = 0
  PROVE  Worth(d, l) = Worth(d, k)
<1>1. PICK T : T = {q \in k..l : Worth(d, q) = Worth(d, k)}
  OBVIOUS
<1>2. k \in T
  BY <1>1
<1>3. \A q \in k..(l - 1) : q \in T => q + 1 \in T
  <2> SUFFICES ASSUME NEW q \in k..(l - 1), q \in T  PROVE q + 1 \in T
    OBVIOUS
  <2>1. \A z \in 0..q : d[z] \in Int
    <3> SUFFICES ASSUME NEW z \in 0..q  PROVE d[z] \in Int
      OBVIOUS
    <3>1. CASE z \in 0..(k - 1)
      BY <3>1
    <3>2. CASE z \notin 0..(k - 1)
      <4>1. z \in k..(l - 1)
        BY <3>2
      <4>2. d[z] = 0
        BY <4>1
      <4> QED BY <4>2
    <3> QED BY <3>1, <3>2
  <2>2. q \in Nat /\ d[q] = 0
    OBVIOUS
  <2>3. Worth(d, q + 1) = Worth(d, q) + d[q] * Power[q]
    BY <2>1, <2>2, WorthNext
  <2>4. 0 * Power[q] = 0 /\ Worth(d, k) \in Int
    BY <2>2, PowerDef, WorthInt
  <2>5. Worth(d, q) = Worth(d, k) /\ q + 1 \in k..l
    BY <1>1
  <2> QED BY <1>1, <2>2, <2>3, <2>4, <2>5
<1>4. \A q \in k..l : q \in T
  BY <1>2, <1>3, Upward
<1> QED BY <1>1, <1>4

\* e has the digits of d moved up by s places, above s digits of its own.
LEMMA WorthMoved ==
  ASSUME NEW d, NEW e, NEW k \in Nat, NEW s \in Nat,
         \A q \in 0..(k - 1) : d[q] \in Int /\ e[q + s] = d[q],
         \A q \in 0..(s - 1) : e[q] \in Int
  PROVE  Worth(e, k + s) = Worth(e, s) + Power[s] * Worth(d, k)
<1>1. PICK T : T = {q \in Nat : Worth(e, q + s) = Worth(e, s) + Power[s] * Worth(d, q)}
  OBVIOUS
<1>2. Worth(e, s) \in Int /\ Power[s] \in Nat
  BY WorthInt, PowerDef
<1>3. 0 \in T
  <2>1. Worth(d, 0) = 0 /\ 0 + s = s /\ Power[s] * 0 = 0
    BY <1>2, WorthZero
  <2>2. Worth(e, 0 + s) = Worth(e, s) + Power[s] * Worth(d, 0)
    BY <1>2, <2>1
  <2> QED BY <1>1, <2>2
<1>4. \A q \in 0..(k - 1) : q \in T => q + 1 \in T
  <2> SUFFICES ASSUME NEW q \in 0..(k - 1), q \in T  PROVE q + 1 \in T
    OBVIOUS
  <2>1. \A z \in 0..q : d[z] \in Int /\ z \in 0..(k - 1)
    OBVIOUS
  <2>2. q \in Nat /\ q + s \in Nat /\ (q + s) + 1 = (q + 1) + s
    OBVIOUS
  <2>3. \A z \in 0..(q + s) : e[z] \in Int
    <3> SUFFICES ASSUME NEW z \in 0..(q + s)  PROVE e[z] \in Int
      OBVIOUS
    <3>1. CASE z \in 0..(s - 1)
      BY <3>1
    <3>2. CASE z \notin 0..(s - 1)
      <4>1. z - s \in 0..(k - 1) /\ (z - s) + s = z
        BY <3>2
      <4>2. e[(z - s) + s] = d[z - s] /\ d[z - s] \in Int
        BY <4>1
      <4> QED BY <4>1, <4>2
    <3> QED BY <3>1, <3>2
  <2>4. Worth(d, q + 1) = Worth(d, q) + d[q] * Power[q]
    BY <2>1, <2>2, WorthNext
  <2>5. Worth(e, (q + s) + 1) = Worth(e, q + s) + e[q + s] * Power[q + s]
    BY <2>2, <2>3, WorthNext
  <2>6. e[q + s] = d[q] /\ d[q] \in Int
    OBVIOUS
  <2>7. Power[q + s] = Power[q] * Power[s] /\ Power[q] \in Nat
    BY <2>2, PowerSum, PowerDef
  <2>8. Worth(d, q) \in Int
    BY <2>1, <2>2, WorthInt
  <2>9. \A P, S, w, c \in Int : S * (w + c * P) = S * w + c * (P * S)
    OBVIOUS
  <2>10. Power[s] * (Worth(d, q) + d[q] * Power[q]) = Power[s] * Worth(d, q) + d[q] * (Power[q] * Power[s])
    BY <1>2, <2>6, <2>7, <2>8, <2>9
  <2>11. Worth(e, q + s) = Worth(e, s) + Power[s] * Worth(d, q)
    BY <1>1
  <2>12. Power[s] * Worth(d, q) \in Int /\ d[q] * (Power[q] * Power[s]) \in Int
    BY <1>2, <2>6, <2>7, <2>8
  <2>13. Worth(e, (q + 1) + s) = Worth(e, s) + Power[s] * Worth(d, q + 1)
    BY <1>2, <2>2, <2>4, <2>5, <2>6, <2>7, <2>10, <2>11, <2>12
  <2> QED BY <1>1, <2>2, <2>13
<1>5. \A q \in 0..k : q \in T
  BY <1>3, <1>4, Upward
<1> QED BY <1>1, <1>5

LEMMA WorthWritten ==
  ASSUME NEW d, NEW e, NEW k \in Nat, NEW w \in 0..(k - 1),
         \A q \in 0..(k - 1) : d[q] \in Int /\ e[q] \in Int /\ (q # w => e[q] = d[q])
  PROVE  Worth(e, k) = Worth(d, k) + (e[w] - d[w]) * Power[w]
<1>1. PICK T : T = {q \in Nat : Worth(e, q) = Worth(d, q) + (e[w] - d[w]) * Power[w]}
  OBVIOUS
<1>2. w \in Nat /\ Power[w] \in Nat /\ e[w] \in Int /\ d[w] \in Int
  BY PowerDef
<1>3. w + 1 \in T
  <2>1. \A q \in 0..w : d[q] \in Int /\ e[q] \in Int
    OBVIOUS
  <2>2. Worth(e, w + 1) = Worth(e, w) + e[w] * Power[w] /\ Worth(d, w + 1) = Worth(d, w) + d[w] * Power[w]
    BY <1>2, <2>1, WorthNext
  <2>3. Worth(e, w) = Worth(d, w)
    <3>1. \A q \in 0..(w - 1) : e[q] = d[q]
      OBVIOUS
    <3> QED BY <1>2, <3>1, WorthEqual
  <2>4. Worth(d, w) \in Int
    BY <1>2, <2>1, WorthInt
  <2>5. (e[w] - d[w]) * Power[w] = e[w] * Power[w] - d[w] * Power[w]
    BY <1>2
  <2>6. e[w] * Power[w] \in Int /\ d[w] * Power[w] \in Int
    BY <1>2
  <2>7. Worth(e, w + 1) = Worth(d, w + 1) + (e[w] - d[w]) * Power[w]
    BY <2>2, <2>3, <2>4, <2>5, <2>6
  <2> QED BY <1>1, <1>2, <2>7
<1>4. \A q \in (w + 1)..(k - 1) : q \in T => q + 1 \in T
  <2> SUFFICES ASSUME NEW q \in (w + 1)..(k - 1), q \in T  PROVE q + 1 \in T
    OBVIOUS
  <2>1. q \in Nat /\ q \in 0..(k - 1) /\ q # w /\ \A z \in 0..q : z \in 0..(k - 1)
    OBVIOUS
  <2>2. Worth(e, q + 1) = Worth(e, q) + e[q] * Power[q] /\ Worth(d, q + 1) = Worth(d, q) + d[q] * Power[q]
    BY <2>1, WorthNext
  <2>3. e[q] = d[q] /\ d[q] \in Int /\ Power[q] \in Nat
    BY <2>1, PowerDef
  <2>4. Worth(d, q) \in Int
    BY <2>1, WorthInt
  <2>5. Worth(e, q) = Worth(d, q) + (e[w] - d[w]) * Power[w]
    BY <1>1
  <2>6. d[q] * Power[q] \in Int /\ (e[w] - d[w]) * Power[w] \in Int
    BY <1>2, <2>3
  <2>7. Worth(e, q + 1) = Worth(d, q + 1) + (e[w] - d[w]) * Power[w]
    BY <2>2, <2>3, <2>4, <2>5, <2>6
  <2> QED BY <1>1, <2>1, <2>7
<1>5. \A q \in (w + 1)..k : q \in T
  BY <1>2, <1>3, <1>4, Upward
<1>6. k \in (w + 1)..k
  OBVIOUS
<1> QED BY <1>1, <1>5, <1>6

\* The k digits e are those of d from place m on, and their worth as the sums
\* over parts of a number are written.
PartOf(d, e, m, k) == \A q \in 0..(k - 1) : d[q + m] \in Int /\ e[q] = d[q + m]
PartTerms(d, m, k) == [q \in m..(m + k - 1) |-> d[q] * Power[q - m]]

LEMMA WorthPart ==
  ASSUME NEW d, NEW m \in Int, NEW k \in Nat, NEW e, PartOf(d, e, m, k)
  PROVE  SumFunction(PartTerms(d, m, k)) = Worth(e, k)
<1>1. PICK f : f = PartTerms(d, m, k)
  OBVIOUS
<1>2. PICK g : g = Terms(e, k)
  OBVIOUS
<1>3. SumFunction(f) = SumFunctionOnSet(f, m..(m + k - 1))
  BY <1>1, SumOver DEF PartTerms
<1>4. \A q \in 0..(k - 1) : g[q] \in Int /\ f[q + m] = g[q]
  <2> SUFFICES ASSUME NEW q \in 0..(k - 1)  PROVE g[q] \in Int /\ f[q + m] = g[q]
    OBVIOUS
  <2>1. e[q] \in Int /\ e[q] = d[q + m] /\ q + m \in m..(m + k - 1) /\ (q + m) - m = q
    BY DEF PartOf
  <2>2. g[q] = e[q] * Power[q]
    BY <1>2 DEF Terms
  <2>3. Power[q] \in Nat
    BY PowerType
  <2>4. f[q + m] = d[q + m] * Power[(q + m) - m]
    BY <1>1, <2>1 DEF PartTerms
  <2> QED BY <2>1, <2>2, <2>4, <2>3
<1>5. SumFunctionOnSet(g, 0..(k - 1)) = SumFunctionOnSet(f, (0 + m)..((k - 1) + m))
  <2>1. PICK n : n = k - 1
    OBVIOUS
  <2>2. PICK z : z = 0
    OBVIOUS
  <2>3. z \in Int /\ n \in Int /\ m \in Int
    BY <2>1, <2>2
  <2>4. \A q \in z..n : g[q] \in Int /\ f[q + m] = g[q]
    BY <1>4, <2>1, <2>2
  <2>5. SumFunctionOnSet(g, z..n) = SumFunctionOnSet(f, (z + m)..(n + m))
    <3>1. Shifted(g, f, z, n, m)
      BY <2>3, <2>4 DEF Shifted
    <3> QED BY <3>1, SumShift
  <2> QED BY <2>1, <2>2, <2>5
<1>6. 0 + m = m /\ (k - 1) + m = m + k - 1
  OBVIOUS
<1>7. Worth(e, k) = SumFunctionOnSet(g, 0..(k - 1))
  BY <1>2, WorthSum
<1> QED BY <1>1, <1>3, <1>5, <1>6, <1>7

-----------------------------------------------------------------------------
(***************************************************************************)
(* The invariants of the four loops: what the digits written so far are    *)
(* worth, with the carry or borrow at its place.                           *)
(***************************************************************************)
AddSum ==
  phase = "add" =>
    /\ Total(a, i) + Total(b, i) = Prefix(r, i) + carry * Power[i]
    /\ \A k \in 0..(r.len - 1) : k >= i => r.data[k] = IF k = i /\ i = AddTimes(a, b) THEN carry ELSE 0

\* calc_sub has put its arguments in order.
Ordered == Cmp(a, b) >= 0 \/ Cmp(b, a) < 0

\* The borrow says which of the two parts is larger, also if a digit is lost.
SubSum ==
  phase = "sub" \/ (phase = "print" /\ op = "-") =>
    /\ phase = "print" => i = AddTimes(a, b)
    /\ i <= AddTimes(a, b) /\ carry \in 0..1 /\ r.point = Max2(a.point, b.point)
    /\ a.sign = 0 /\ b.sign = 0 /\ Ordered
    /\ Total(a, i) - Total(b, i) + carry * Power[i] \in 0..(Power[i] - 1)
    /\ ~outside => Total(a, i) - Total(b, i) = Prefix(r, i) - carry * Power[i]

\* The digits of a that row i of the multiplication has used.
Upto(k) == IF k < a.len THEN k ELSE a.len

MulSum ==
  phase = "mul" =>
    /\ i + j <= a.len + b.len
    /\ i = b.len => j = 0
    /\ j = 0 => carry = 0
    /\ Prefix(r, r.len) + carry * Power[i + j] =
         Prefix(a, a.len) * Prefix(b, i)
         + (IF i < b.len THEN b.data[i] * Prefix(a, Upto(j)) * Power[i] ELSE 0)

Subtracted(k) == SumFunction([q \in 0..(k - 1) |-> Divisor(q) * Power[q]])

\* The remainder, with the part of the divisor the subtraction under way has
\* taken from it so far.
Left == IF phase = "divsub" THEN Remainder + Subtracted(j) - carry * Power[j] ELSE Remainder

DivSum ==
  /\ phase \in {"read", "call"} => time = 0
  /\ phase \in {"div", "divsub"} =>
       /\ phase = "div" => carry = 0
       /\ phase = "divsub" => Left >= Prefix(b, b.len)
       /\ i < r.len /\ ~wrapped => BroughtDown = (QuotientSoFar * Base + time) * Prefix(b, b.len) + Left

Sums == AddSum /\ SubSum /\ MulSum /\ DivSum

(***************************************************************************)
(* The sums in these invariants as worths of digits.                       *)
(***************************************************************************)
LEMMA PrefixWorth == ASSUME NEW n, NEW k PROVE Prefix(n, k) = Worth(n.data, k)
BY DEF Prefix, Worth

LEMMA DataInt ==
  ASSUME NEW n, Result(n), NEW k \in Nat, k <= n.len
  PROVE  n.len \in Nat /\ \A q \in 0..(k - 1) : n.data[q] \in Digit /\ n.data[q] \in Int
<1>1. n.len \in Nat /\ n.data \in [0..(n.len - 1) -> Digit]
  BY DEF Result, WellFormed
<1>2. \A q \in 0..(k - 1) : q \in 0..(n.len - 1)
  BY <1>1
<1>3. \A q \in 0..(k - 1) : n.data[q] \in Digit
  BY <1>1, <1>2
<1>4. \A z \in Digit : z \in Int
  BY DigitFacts
<1> QED BY <1>1, <1>3, <1>4

LEMMA PrefixBound ==
  ASSUME NEW n, Result(n), NEW k \in Nat, k <= n.len
  PROVE  Prefix(n, k) \in Nat /\ Prefix(n, k) < Power[k]
<1>1. \A q \in 0..(k - 1) : n.data[q] \in Digit
  BY DataInt
<1> QED BY <1>1, PrefixWorth, WorthBound

LEMMA PrefixNext ==
  ASSUME NEW n, Result(n), NEW k \in Nat, k < n.len
  PROVE  Prefix(n, k + 1) = Prefix(n, k) + n.data[k] * Power[k]
<1>1. k + 1 \in Nat /\ k + 1 <= n.len
  BY DEF Result, WellFormed
<1>2. \A q \in 0..((k + 1) - 1) : n.data[q] \in Int
  BY <1>1, DataInt
<1>3. \A q \in 0..k : n.data[q] \in Int
  BY <1>2
<1> QED BY <1>3, PrefixWorth, WorthNext

\* The digits of n at the first k places of the loop.
AlignedDigits(n, k) == [q \in 0..(k - 1) |-> DigitOf(n, q)]

LEMMA TotalWorth ==
  ASSUME NEW n, NEW k \in Nat, NEW l \in Nat, l <= k
  PROVE  Total(n, l) = Worth(AlignedDigits(n, k), l)
<1>1. \A q \in 0..(l - 1) : AlignedDigits(n, k)[q] = DigitOf(n, q)
  BY DEF AlignedDigits
<1>2. [q \in 0..(l - 1) |-> DigitOf(n, q) * Power[q]] = [q \in 0..(l - 1) |-> AlignedDigits(n, k)[q] * Power[q]]
  BY <1>1
<1> QED BY <1>2 DEF Total, Worth

LEMMA TotalBound ==
  ASSUME NEW n, Number(n), NEW k \in Nat
  PROVE  Total(n, k) \in Nat /\ Total(n, k) < Power[k]
<1>1. \A q \in 0..(k - 1) : AlignedDigits(n, k)[q] \in Digit
  BY DigitOfType DEF AlignedDigits
<1> QED BY <1>1, TotalWorth, WorthBound

LEMMA TotalNext ==
  ASSUME NEW n, Number(n), NEW k \in Nat
  PROVE  /\ DigitOf(n, k) \in Nat /\ DigitOf(n, k) < Base
         /\ Total(n, k + 1) = Total(n, k) + DigitOf(n, k) * Power[k]
<1>1. PICK d : d = AlignedDigits(n, k + 1)
  OBVIOUS
<1>2. \A q \in 0..k : d[q] = DigitOf(n, q) /\ d[q] \in Int
  <2> SUFFICES ASSUME NEW q \in 0..k  PROVE d[q] = DigitOf(n, q) /\ d[q] \in Int
    OBVIOUS
  <2>1. q \in 0..((k + 1) - 1)
    OBVIOUS
  <2>2. DigitOf(n, q) \in Int
    <3>1. DigitOf(n, q) \in Digit
      BY DigitOfType
    <3>2. \A z \in Digit : z \in Int
      BY DigitFacts
    <3> QED BY <3>1, <3>2
  <2> QED BY <1>1, <2>1, <2>2 DEF AlignedDigits
<1>3. Total(n, k + 1) = Worth(d, k + 1) /\ Total(n, k) = Worth(d, k)
  BY <1>1, TotalWorth
<1>4. Worth(d, k + 1) = Worth(d, k) + d[k] * Power[k]
  BY <1>2, WorthNext
<1>5. DigitOf(n, k) \in Nat /\ DigitOf(n, k) < Base
  <2>1. DigitOf(n, k) \in Digit
    BY DigitOfType
  <2> QED BY <2>1, BaseAssumption DEF Digit
<1> QED BY <1>2, <1>3, <1>4, <1>5

LEMMA TotalZero == ASSUME NEW n PROVE Total(n, 0) = 0
BY TotalWorth, WorthZero

\* A step of a loop leaves the digits of the arguments where they are.
LEMMA TotalSteps ==
  ASSUME r'.point = r.point, a' = a, b' = b, i' = i + 1
  PROVE  Total(a, i)' = Total(a, i + 1) /\ Total(b, i)' = Total(b, i + 1)
BY DEF Total, DigitOf, Has, At

-----------------------------------------------------------------------------
(***************************************************************************)
(* Addition.                                                               *)
(***************************************************************************)
LEMMA IntoAdd == ASSUME Next, phase' = "add" PROVE (CalcAdd \/ AddDigit) /\ Rest
<1>1. CASE Calculate
  <2>1. Rest
    BY <1>1 DEF Calculate, Rest, division, command, output
  <2>2. ~CalcSub /\ ~CalcMul /\ ~SubDigit /\ ~MulDigit /\ ~MulRow
    BY DEF CalcSub, CalcMul, SubDigit, MulDigit, MulRow, Start, Call, Loop
  <2> QED BY <1>1, <2>1, <2>2 DEF Calculate
<1>2. CASE Divide
  BY <1>2 DEF Divide, CalcDiv, Subtract, RemainderDigit, QuotientDigit, DivReturn
<1>3. ~Read /\ ~Usage /\ ~Return /\ ~PrintBignumber
  BY DEF Read, Usage, Return, PrintBignumber
<1> QED BY <1>1, <1>2, <1>3 DEF Next

LEMMA NoTerms == ASSUME NEW f, DOMAIN f = {} PROVE SumFunction(f) = 0
BY SumOver, SumEmpty

LEMMA PrefixZero == ASSUME NEW n PROVE Prefix(n, 0) = 0
BY PrefixWorth, WorthZero

LEMMA PrefixEqual ==
  ASSUME NEW n, NEW m, NEW k \in Nat, \A q \in 0..(k - 1) : n.data[q] = m.data[q]
  PROVE  Prefix(n, k) = Prefix(m, k)
BY PrefixWorth, WorthEqual

LEMMA TempData == ASSUME NEW len, NEW s, NEW point, NEW sci
  PROVE  \A k \in 0..(len - 1) : Temp(len, s, point, sci).data[k] = 0
BY DEF Temp

LEMMA AddStart == ASSUME IInv, CalcAdd, phase' = "add" PROVE AddSum'
<1>1. /\ i' = 0 /\ carry' = 0
      /\ r' = Temp(AddTimes(a, b) + 1, a.sign, Max2(a.point, b.point), UseSci(a, b))
  BY DEF CalcAdd, Start, Call, IInv, Looping
<1>2. AddTimes(a, b) + 1 \in Nat
  <2>1. phase = "call"
    BY DEF CalcAdd
  <2> QED BY <2>1, CallFacts
<1>3. PICK t : t = Temp(AddTimes(a, b) + 1, a.sign, Max2(a.point, b.point), UseSci(a, b))
  OBVIOUS
<1>4. t.len = AddTimes(a, b) + 1 /\ \A k \in 0..(t.len - 1) : t.data[k] = 0
  BY <1>2, <1>3, TempDigits, TempData
<1>5. r' = t
  BY <1>1, <1>3
<1>6. Total(a, i)' = 0 /\ Total(b, i)' = 0 /\ Prefix(r, i)' = 0
  <2>1. 0..(i' - 1) = {}
    BY <1>1
  <2>2. Total(a, i)' = 0 /\ Total(b, i)' = 0
    BY <2>1, NoTerms DEF Total
  <2> QED BY <1>1, <2>2, PrefixZero
<1>7. carry' * Power[i'] = 0
  BY <1>1, PowerDef
<1> QED BY <1>1, <1>4, <1>5, <1>6, <1>7 DEF AddSum

-----------------------------------------------------------------------------
\* A digit and the carry of the next place are worth the sum they are taken from.
LEMMA CarryWorth ==
  ASSUME NEW n \in Nat, NEW k \in Nat
  PROVE  (n % Base) * Power[k] + (n \div Base) * Power[k + 1] = n * Power[k]
<1>1. Base \in Nat \ {0}
  BY BaseAssumption
<1>2. PICK d \in Nat, m \in Nat : d = n \div Base /\ m = n % Base /\ n = d * Base + m
  BY <1>1, DivMod
<1>3. PICK p \in Nat : p = Power[k] /\ Power[k + 1] = Base * p
  BY PowerDef
<1>4. m * p + d * (Base * p) = (d * Base + m) * p
  BY <1>1
<1> QED BY <1>2, <1>3, <1>4

LEMMA AddDigitSum == ASSUME IInv, AddSum, AddDigit PROVE AddSum'
<1> DEFINE times == AddTimes(a, b)
           total == carry + DigitOf(a, i) + DigitOf(b, i)
           last == i = times - 1 /\ total >= Base
           data == [k \in DOMAIN r.data |->
                      IF k = i THEN total % Base ELSE IF last /\ k = times THEN 1 ELSE r.data[k]]
<1>1. /\ phase = "add" /\ op = "+" /\ i < times /\ carry <= 1
      /\ r.len = times + 1 /\ r.point = Max2(a.point, b.point)
  BY DEF AddDigit, IInv, Looping, Allocated
<1>2. DigitOf(a, i) \in Digit /\ DigitOf(b, i) \in Digit
  BY <1>1, LoopFacts, DigitOfType
<1>3. total \in Nat /\ total <= 2 * Base - 1
  <2>1. carry \in Nat
    BY <1>1, LoopFacts
  <2> QED  BY <1>1, <1>2, <2>1, BaseAssumption DEF Digit
<1>4. i \in Nat /\ times \in Nat /\ Result(r) /\ Number(a) /\ Number(b) /\ carry \in Nat /\ r.len \in Nat
  BY <1>1, LoopFacts
<1>5. Total(a, i + 1) + Total(b, i + 1) = Total(a, i) + Total(b, i) + (DigitOf(a, i) + DigitOf(b, i)) * Power[i]
  <2>1. /\ Total(a, i + 1) = Total(a, i) + DigitOf(a, i) * Power[i]
        /\ Total(b, i + 1) = Total(b, i) + DigitOf(b, i) * Power[i]
        /\ DigitOf(a, i) \in Nat /\ DigitOf(b, i) \in Nat
    BY <1>4, TotalNext
  <2>2. Total(a, i) \in Nat /\ Total(b, i) \in Nat /\ Power[i] \in Nat
    BY <1>4, TotalBound, PowerDef
  <2> HIDE DEF total, last, times
  <2> QED BY <2>1, <2>2
<1>6. Total(a, i) + Total(b, i) = Prefix(r, i) + carry * Power[i]
  BY <1>1 DEF AddSum
<1>7. total \div Base \in 0..1 /\ (total < Base => total \div Base = 0) /\ (total >= Base => total \div Base = 1)
  <2> HIDE DEF total
  <2>1. total \div Base \in 0..1
    BY <1>3, SumCarry
  <2>2. Base \in Nat \ {0}
    BY BaseAssumption
  <2>3. PICK d, m : d = total \div Base /\ m = total % Base
    OBVIOUS
  <2>4. m \in 0..(Base - 1) /\ total = d * Base + m
    BY <1>3, <2>2, <2>3, DivMod
  <2>5. d = 0 \/ d = 1
    BY <2>1, <2>3
  <2> QED BY <1>3, <2>1, <2>2, <2>3, <2>4, <2>5
<1>8. /\ r' = [r EXCEPT !.data = data] /\ carry' = total \div Base /\ i' = i + 1
      /\ UNCHANGED <<phase, op, a, b, sign, j>>
  BY DEF AddDigit, Loop
<1> HIDE DEF total
<1>9. \A q \in 0..(r.len - 1) : data[q] = IF q = i THEN total % Base ELSE IF last /\ q = times THEN 1 ELSE r.data[q]
  BY <1>4 DEF Result, WellFormed
<1>10. r'.data = data /\ r'.len = r.len /\ r'.point = r.point
  BY <1>4, <1>8 DEF Result, WellFormed
<1>11. AddTimes(a, b)' = times
  BY <1>8 DEF AddTimes, Integer, Max2
<1> HIDE DEF data, times
<1>12. Prefix(r', i + 1) = Prefix(r, i) + (total % Base) * Power[i]
  <2>1. Prefix(r', i + 1) = Worth(data, i + 1) /\ Prefix(r, i) = Worth(r.data, i)
    BY <1>10, PrefixWorth
  <2>2. \A q \in 0..(i - 1) : data[q] = r.data[q] /\ r.data[q] \in Int
    <3>1. \A q \in 0..(i - 1) : q \in 0..(r.len - 1) /\ q # i /\ q # times
      BY <1>1, <1>4
    <3>2. \A q \in 0..(r.len - 1) : r.data[q] \in Int
      BY <1>4, DataInt
    <3> QED BY <1>9, <3>1, <3>2
  <2>3. data[i] = total % Base /\ total % Base \in Int
    <3>1. i \in 0..(r.len - 1)
      BY <1>1, <1>4
    <3>2. total % Base \in Digit
      BY <1>3, BaseDivMod
    <3>3. \A z \in Digit : z \in Int
      BY DigitFacts
    <3> QED BY <1>9, <3>1, <3>2, <3>3
  <2>4. \A q \in 0..i : data[q] \in Int
    <3> SUFFICES ASSUME NEW q \in 0..i  PROVE data[q] \in Int
      OBVIOUS
    <3>1. q = i \/ q \in 0..(i - 1)
      BY <1>4
    <3> QED BY <2>2, <2>3, <3>1
  <2>5. Worth(data, i + 1) = Worth(data, i) + data[i] * Power[i]
    BY <1>4, <2>4, WorthNext
  <2>6. Worth(data, i) = Worth(r.data, i)
    BY <1>4, <2>2, WorthEqual
  <2> QED BY <2>1, <2>3, <2>5, <2>6
<1>13. Total(a, i + 1) + Total(b, i + 1) = Prefix(r', i + 1) + carry' * Power[i + 1]
  <2>1. (total % Base) * Power[i] + (total \div Base) * Power[i + 1] = total * Power[i]
    BY <1>3, <1>4, CarryWorth
  <2>2. carry * Power[i] + (DigitOf(a, i) + DigitOf(b, i)) * Power[i] = total * Power[i]
    <3>1. \A u, v, w, p \in Int : u * p + (v + w) * p = (u + v + w) * p
      OBVIOUS
    <3>2. DigitOf(a, i) \in Int /\ DigitOf(b, i) \in Int /\ carry \in Int /\ Power[i] \in Int
      BY <1>4, TotalNext, PowerDef
    <3> QED BY <3>1, <3>2 DEF total
  <2>3. Prefix(r, i) \in Int
    BY <1>1, <1>4, PrefixBound
  <2>4. PICK u : u = (total % Base) * Power[i]
    OBVIOUS
  <2>5. PICK v : v = (total \div Base) * Power[i + 1]
    OBVIOUS
  <2>6. PICK w : w = carry * Power[i]
    OBVIOUS
  <2>7. PICK z : z = (DigitOf(a, i) + DigitOf(b, i)) * Power[i]
    OBVIOUS
  <2>8. u \in Int /\ v \in Int /\ w \in Int /\ z \in Int
    <3>1. total % Base \in Int /\ total \div Base \in Int
      <4>1. total % Base \in Digit /\ total \div Base \in Nat
        BY <1>3, BaseDivMod
      <4>2. \A q \in Digit : q \in Int
        BY DigitFacts
      <4> QED BY <4>1, <4>2
    <3>2. Power[i] \in Int /\ Power[i + 1] \in Int
      BY <1>4, PowerDef
    <3>3. DigitOf(a, i) \in Int /\ DigitOf(b, i) \in Int /\ carry \in Int
      BY <1>4, TotalNext
    <3> QED BY <2>4, <2>5, <2>6, <2>7, <3>1, <3>2, <3>3
  <2> QED BY <1>5, <1>6, <1>8, <1>12, <2>1, <2>2, <2>3, <2>4, <2>5, <2>6, <2>7, <2>8
<1>14. Total(a, i)' = Total(a, i + 1) /\ Total(b, i)' = Total(b, i + 1)
  BY <1>8, <1>10, TotalSteps
<1>15. \A k \in 0..(r.len - 1) : k >= i + 1 => data[k] = IF k = i + 1 /\ i + 1 = times THEN carry' ELSE 0
  <2> SUFFICES ASSUME NEW k \in 0..(r.len - 1), k >= i + 1
               PROVE  data[k] = IF k = i + 1 /\ i + 1 = times THEN carry' ELSE 0
    OBVIOUS
  <2>1. data[k] = IF last /\ k = times THEN 1 ELSE r.data[k]
    BY <1>4, <1>9
  <2>2. r.data[k] = 0
    <3>1. k >= i /\ k # i
      BY <1>4
    <3> QED BY <1>1, <3>1 DEF AddSum
  <2>3. CASE k = i + 1 /\ i + 1 = times
    <3>1. i = times - 1 /\ k = times
      BY <1>4, <2>3
    <3> QED BY <1>3, <1>7, <1>8, <2>1, <2>2, <2>3, <3>1, BaseAssumption
  <2>4. CASE ~(k = i + 1 /\ i + 1 = times)
    <3>1. ~(last /\ k = times)
      BY <1>4, <2>4
    <3> QED BY <2>1, <2>2, <2>4, <3>1
  <2> QED BY <2>3, <2>4
<1> QED BY <1>8, <1>10, <1>11, <1>13, <1>14, <1>15 DEF AddSum

LEMMA AddKeeps == ASSUME IInv, AddSum, [Next]_vars PROVE AddSum'
<1>1. CASE UNCHANGED vars
  BY <1>1 DEF AddSum, vars, loop, Total, DigitOf, Has, At, Prefix, AddTimes, Integer, Max2
<1>2. CASE Next /\ phase' = "add"
  BY <1>2, IntoAdd, AddStart, AddDigitSum
<1>3. CASE phase' # "add"
  BY <1>3 DEF AddSum
<1> QED BY <1>1, <1>2, <1>3

-----------------------------------------------------------------------------
(***************************************************************************)
(* Subtraction.                                                            *)
(***************************************************************************)
LEMMA IntoSub == ASSUME IInv, Next, phase' = "sub" PROVE (CalcSub \/ SubDigit) /\ Rest
<1>1. CASE Calculate
  <2>1. Rest
    BY <1>1 DEF Calculate, Rest, division, command, output
  <2>2. ~CalcAdd /\ ~CalcMul /\ ~AddDigit /\ ~MulDigit /\ ~MulRow
    BY DEF CalcAdd, CalcMul, AddDigit, MulDigit, MulRow, Start, Call, Loop
  <2> QED BY <1>1, <2>1, <2>2 DEF Calculate
<1>2. CASE Divide
  BY <1>2 DEF Divide, CalcDiv, Subtract, RemainderDigit, QuotientDigit, DivReturn
<1>3. ~Read /\ ~Usage /\ ~Return /\ ~PrintBignumber
  BY DEF Read, Usage, Return, PrintBignumber
<1> QED BY <1>1, <1>2, <1>3 DEF Next

LEMMA IntoPrint == ASSUME IInv, Next, phase' = "print", op' = "-" PROVE Return /\ phase = "sub"
<1>1. ~Calculate
  BY DEF Calculate, CalcAdd, CalcSub, CalcMul, AddDigit, SubDigit, MulDigit, MulRow, Start, Call, Loop
<1>2. ~Divide
  <2>1. ~CalcDiv
    BY DEF CalcDiv
  <2>2. ~Subtract /\ ~QuotientDigit
    BY DEF Subtract, QuotientDigit
  <2>3. ~RemainderDigit
    BY DEF RemainderDigit, IInv, Looping
  <2>4. ~DivReturn
    BY DEF DivReturn, IInv, Looping
  <2> QED BY <2>1, <2>2, <2>3, <2>4 DEF Divide
<1>3. ~Read /\ ~Usage /\ ~PrintBignumber
  BY DEF Read, Usage, PrintBignumber
<1>4. Return
  BY <1>1, <1>2, <1>3 DEF Next
<1>5. phase = "sub"
  BY <1>4 DEF Return, loop, IInv, Looping
<1> QED BY <1>4, <1>5

LEMMA SubStart == ASSUME IInv, CalcSub, phase' = "sub" PROVE SubSum'
<1>1. /\ i' = 0 /\ carry' = 0 /\ r'.point = Max2(a.point, b.point)
      /\ \/ a' = a /\ b' = b /\ Cmp(a, b) >= 0
         \/ a' = b /\ b' = a /\ Cmp(a, b) < 0
      /\ a.sign = 0 /\ b.sign = 0
  BY DEF CalcSub, Start, Call, IInv, Looping, Temp
<1>2. phase = "call"
  BY DEF CalcSub
<1>3. /\ AddTimes(a', b') \in Nat /\ Max2(a.point, b.point) = Max2(a'.point, b'.point)
  <2>1. Number(a) /\ Number(b) /\ a.point \in Nat /\ b.point \in Nat
    BY <1>2, CallFacts
  <2>2. AddTimes(a, b) \in Nat /\ AddTimes(b, a) \in Nat
    BY <2>1, NumberFacts
  <2> QED BY <1>1, <2>1, <2>2 DEF Max2
<1>4. Ordered'
  BY <1>1 DEF Ordered
<1>5. 0..(i' - 1) = {}
  BY <1>1
<1>6. Total(a, i)' = 0 /\ Total(b, i)' = 0
  BY <1>5, NoTerms DEF Total
<1>7. Prefix(r, i)' = 0 /\ carry' * Power[i'] = 0 /\ Power[i'] = 1
  BY <1>1, PrefixZero, PowerDef
<1> QED BY <1>1, <1>3, <1>4, <1>6, <1>7 DEF SubSum

LEMMA SubEnd == ASSUME IInv, SubSum, Return, phase = "sub" PROVE SubSum'
<1>1. UNCHANGED <<op, a, b, i, carry, outside>> /\ phase' = "print" /\ i = AddTimes(a, b)
  BY DEF Return, loop
<1>2. r'.point = r.point /\ r'.data = r.data
  <2>1. Result(r)
    BY LoopFacts DEF IInv, Looping
  <2> QED BY <2>1 DEF Return, Result, WellFormed
<1>3. Total(a, i)' = Total(a, i) /\ Total(b, i)' = Total(b, i) /\ Prefix(r, i)' = Prefix(r, i)
  BY <1>1, <1>2 DEF Total, DigitOf, Has, At, Prefix
<1>4. AddTimes(a, b)' = AddTimes(a, b) /\ Ordered' = Ordered
  BY <1>1 DEF AddTimes, Integer, Max2, Ordered
<1> QED BY <1>1, <1>2, <1>3, <1>4 DEF SubSum

\* The first k + 1 digits of a result after digit k has been written.
LEMMA WrittenPrefix ==
  ASSUME NEW n, NEW m, Result(n), Result(m), m.len = n.len, NEW k \in 0..(n.len - 1),
         \A q \in 0..(k - 1) : m.data[q] = n.data[q]
  PROVE  Prefix(m, k + 1) = Prefix(n, k) + m.data[k] * Power[k]
<1>1. n.len \in Nat /\ k \in Nat /\ k < n.len
  BY DEF Result, WellFormed
<1>2. Prefix(m, k + 1) = Prefix(m, k) + m.data[k] * Power[k]
  BY <1>1, PrefixNext
<1>3. Prefix(m, k) = Prefix(n, k)
  BY <1>1, PrefixEqual
<1> QED BY <1>2, <1>3

LEMMA WriteData ==
  ASSUME Result(r), NEW k \in Nat, k < r.len, NEW d \in Digit, Write(k, d)
  PROVE  r'.data = [r.data EXCEPT ![k] = d] /\ r'.data[k] = d
<1>1. r'.data = [r.data EXCEPT ![k] = d]
  BY DEF Write, Result, WellFormed
<1>2. k \in DOMAIN r.data
  BY DEF Result, WellFormed
<1> QED BY <1>1, <1>2

-----------------------------------------------------------------------------
\* One place of a subtraction: the digits u and v, the borrows c and e before
\* and after it, and the number n that is divided by the base.
Borrowed(u, v, c, n, e) ==
  n = u + Base - c - v /\ n <= 2 * Base - 1 /\ e = IF n \div Base # 0 THEN 0 ELSE 1

LEMMA BorrowWorth ==
  ASSUME NEW u \in Nat, NEW v \in Nat, NEW c \in Nat, NEW n \in Nat, NEW e, Borrowed(u, v, c, n, e),
         NEW k \in Nat
  PROVE  /\ e \in 0..1 /\ n % Base \in Digit
         /\ (u - v) * Power[k] - c * Power[k] = (n % Base) * Power[k] - e * Power[k + 1]
<1>1. Base \in Nat \ {0}
  BY BaseAssumption
<1>2. PICK d \in Nat, m \in Nat : d = n \div Base /\ m = n % Base /\ n = d * Base + m
  <2>1. PICK d, m : d = n \div Base /\ m = n % Base
    OBVIOUS
  <2>2. d \in Nat /\ m \in 0..(Base - 1) /\ n = d * Base + m
    BY <1>1, <2>1, DivMod
  <2>3. m \in Nat
    BY <1>1, <2>2
  <2> QED BY <2>1, <2>2, <2>3
<1>3. PICK p \in Nat : p = Power[k] /\ Power[k + 1] = Base * p
  BY PowerDef
<1>4. d \in 0..1 /\ e = 1 - d
  BY <1>2, SumCarry DEF Borrowed
<1>5. n % Base \in Digit
  BY BaseDivMod
<1>6. u - v - c = m - e * Base
  <2>1. d = 0 \/ d = 1
    BY <1>4
  <2>2. d = 0 => d * Base = 0 /\ e * Base = Base
    BY <1>1, <1>4
  <2>3. d = 1 => d * Base = Base /\ e * Base = 0
    BY <1>1, <1>4
  <2> QED BY <1>1, <1>2, <1>4, <2>1, <2>2, <2>3 DEF Borrowed
<1>7. (u - v) * p - c * p = (u - v - c) * p
  BY <1>3
<1>8. (m - e * Base) * p = m * p - e * (Base * p)
  BY <1>1, <1>4
<1>9. (u - v) * p - c * p = m * p - e * (Base * p)
  BY <1>6, <1>7, <1>8
<1>10. e \in 0..1
  BY <1>4
<1> QED BY <1>2, <1>3, <1>5, <1>9, <1>10

LEMMA SubDigitSum == ASSUME IInv, SubSum, SubDigit PROVE SubSum'
<1> DEFINE times == AddTimes(a, b)
           total == DigitOf(a, i) + Base - carry - DigitOf(b, i)
<1>1. /\ phase = "sub" /\ op = "-" /\ i < times /\ carry <= 1
      /\ r.point = Max2(a.point, b.point)
  BY DEF SubDigit, IInv, Looping, Allocated
<1>2. DigitOf(a, i) \in Digit /\ DigitOf(b, i) \in Digit
  BY <1>1, LoopFacts, DigitOfType
<1>3. i \in Nat /\ times \in Nat /\ Result(r) /\ Number(a) /\ Number(b) /\ carry \in Nat /\ r.len \in Nat
      /\ outside \in BOOLEAN
  BY <1>1, LoopFacts
<1>4. total \in Nat /\ total <= 2 * Base - 1
  BY <1>1, <1>2, <1>3, BaseAssumption DEF Digit
<1>5. /\ Write(i, total % Base) /\ carry' = IF total \div Base # 0 THEN 0 ELSE 1
      /\ i' = i + 1
      /\ UNCHANGED <<phase, op, a, b, sign, j>>
  BY DEF SubDigit, Loop
<1> DEFINE m == total % Base
<1>6. /\ carry' \in 0..1 /\ m \in Digit /\ m \in Nat /\ m <= Base - 1
      /\ (DigitOf(a, i) - DigitOf(b, i)) * Power[i] - carry * Power[i] = m * Power[i] - carry' * Power[i + 1]
  <2>1. DigitOf(a, i) \in Nat /\ DigitOf(b, i) \in Nat
    BY <1>3, TotalNext
  <2>2. PICK n \in Nat : n = total
    BY <1>4
  <2>3. PICK e : e = carry'
    OBVIOUS
  <2>4. n = DigitOf(a, i) + Base - carry - DigitOf(b, i) /\ n <= 2 * Base - 1
        /\ e = IF n \div Base # 0 THEN 0 ELSE 1
    BY <1>4, <1>5, <2>2, <2>3
  <2> HIDE DEF total
  <2>5. PICK u \in Nat, v \in Nat, c \in Nat, k \in Nat :
           u = DigitOf(a, i) /\ v = DigitOf(b, i) /\ c = carry /\ k = i
    BY <1>3, <2>1
  <2>6. Borrowed(u, v, c, n, e)
    BY <2>4, <2>5 DEF Borrowed
  <2>7. /\ e \in 0..1 /\ n % Base \in Digit
        /\ (u - v) * Power[k] - c * Power[k] = (n % Base) * Power[k] - e * Power[k + 1]
    BY <2>6, BorrowWorth
  <2>8. /\ e \in 0..1 /\ n % Base \in Digit
        /\ (DigitOf(a, i) - DigitOf(b, i)) * Power[i] - carry * Power[i] = (n % Base) * Power[i] - e * Power[i + 1]
    BY <2>5, <2>7
  <2>9. n % Base \in Nat /\ n % Base <= Base - 1
    BY <2>8, BaseAssumption DEF Digit
  <2> QED BY <2>2, <2>3, <2>8, <2>9
<1> HIDE DEF total, times, m
<1> DEFINE D == Total(a, i) - Total(b, i)
           E == Total(a, i + 1) - Total(b, i + 1)
<1>7. /\ E = D + (DigitOf(a, i) - DigitOf(b, i)) * Power[i]
      /\ D \in Int /\ E \in Int
  <2>1. /\ Total(a, i + 1) = Total(a, i) + DigitOf(a, i) * Power[i]
        /\ Total(b, i + 1) = Total(b, i) + DigitOf(b, i) * Power[i]
        /\ DigitOf(a, i) \in Nat /\ DigitOf(b, i) \in Nat
    BY <1>3, TotalNext
  <2>2. Total(a, i) \in Nat /\ Total(b, i) \in Nat /\ Power[i] \in Nat
    BY <1>3, TotalBound, PowerDef
  <2>3. \A u, v, p \in Nat : (u - v) * p = u * p - v * p /\ u * p \in Nat /\ v * p \in Nat
    OBVIOUS
  <2>4. (DigitOf(a, i) - DigitOf(b, i)) * Power[i] = DigitOf(a, i) * Power[i] - DigitOf(b, i) * Power[i]
        /\ DigitOf(a, i) * Power[i] \in Nat /\ DigitOf(b, i) * Power[i] \in Nat
    BY <2>1, <2>2, <2>3
  <2> QED BY <2>1, <2>2, <2>4
<1> HIDE DEF D, E
<1>8. D + carry * Power[i] \in 0..(Power[i] - 1)
  BY <1>1 DEF SubSum, D
<1>9. PICK p \in Nat : p = Power[i] /\ Power[i + 1] = Base * p /\ p # 0
  BY <1>3, PowerDef
<1>10. PICK u \in Int, v \in Int, w \in Int, z \in Int :
          /\ u = (DigitOf(a, i) - DigitOf(b, i)) * Power[i] /\ v = carry * Power[i]
          /\ w = m * Power[i] /\ z = carry' * Power[i + 1]
  <2>1. DigitOf(a, i) \in Nat /\ DigitOf(b, i) \in Nat /\ carry' \in Int
    BY <1>3, <1>6, TotalNext
  <2> QED BY <1>3, <1>6, <1>9, <2>1, BaseAssumption
<1>11. u - v = w - z
  BY <1>6, <1>10
<1>12. E + z = D + v + w
  BY <1>7, <1>10, <1>11
<1>13. E + carry' * Power[i + 1] \in 0..(Power[i + 1] - 1)
  <2>1. \A q, l \in Nat : q <= l => q * p <= l * p /\ q * p \in Nat
    OBVIOUS
  <2>2. Base - 1 \in Nat /\ (Base - 1) * p + p = Base * p /\ Base * p \in Nat
    BY <1>9, BaseAssumption
  <2>3. w \in Nat /\ w <= (Base - 1) * p /\ (Base - 1) * p + p = Base * p /\ Base * p \in Nat
    BY <1>6, <1>9, <1>10, <2>1, <2>2
  <2>4. (Base - 1) * p \in Nat
    BY <1>9, BaseAssumption
  <2>5. D + v \in 0..(p - 1)
    BY <1>8, <1>9, <1>10
  <2> QED BY <1>7, <1>9, <1>10, <1>12, <2>3, <2>4, <2>5
<1>14. r'.len = r.len /\ r'.point = r.point /\ Result(r') /\ outside' = (outside \/ i >= r.len)
  <2>1. /\ r'.len = r.len /\ r'.point = r.point /\ Result(r)'
        /\ outside' = (outside \/ i >= r.len)
    BY <1>3, <1>5, <1>6, WriteKeeps DEF m
  <2> QED BY <2>1
<1>15. Total(a, i)' = Total(a, i + 1) /\ Total(b, i)' = Total(b, i + 1)
  BY <1>5, <1>14, TotalSteps
<1>16. ~outside' => E = Prefix(r', i + 1) - z
  <2> SUFFICES ASSUME ~outside'  PROVE E = Prefix(r', i + 1) - z
    OBVIOUS
  <2>1. ~outside /\ ~(i >= r.len)
    BY <1>14, Zenon
  <2>2. i < r.len /\ i \in 0..(r.len - 1) /\ ~outside
    BY <1>3, <2>1
  <2>3. r'.data = [r.data EXCEPT ![i] = m] /\ r'.data[i] = m
    BY <1>3, <1>5, <1>6, <2>2, WriteData DEF m
  <2>4. \A q \in 0..(i - 1) : r'.data[q] = r.data[q]
    BY <1>3, <2>2, <2>3 DEF Result, WellFormed
  <2>5. Prefix(r', i + 1) = Prefix(r, i) + m * Power[i]
    <3>1. PICK n : n = r'
      OBVIOUS
    <3>2. Result(n) /\ n.len = r.len /\ \A q \in 0..(i - 1) : n.data[q] = r.data[q]
      BY <1>14, <2>4, <3>1
    <3>3. Prefix(n, i + 1) = Prefix(r, i) + n.data[i] * Power[i]
      BY <1>3, <2>2, <3>2, WrittenPrefix
    <3> QED BY <2>3, <3>1, <3>3
  <2>6. D = Prefix(r, i) - v
    BY <1>1, <1>10, <2>2 DEF SubSum, D
  <2>7. Prefix(r, i) \in Int
    BY <1>3, <2>2, PrefixBound
  <2> QED BY <1>7, <1>10, <1>12, <2>5, <2>6, <2>7
<1>17. AddTimes(a, b)' = times
  BY <1>5 DEF AddTimes, Integer, Max2, times
<1>18. a.sign = 0 /\ b.sign = 0 /\ Ordered
  BY <1>1 DEF SubSum
<1>19. Ordered' /\ Max2(a.point, b.point)' = Max2(a.point, b.point) /\ i' <= times
  BY <1>1, <1>3, <1>5, <1>18 DEF Ordered
<1> QED BY <1>1, <1>5, <1>6, <1>10, <1>13, <1>14, <1>15, <1>16, <1>17, <1>18, <1>19 DEF SubSum, E

-----------------------------------------------------------------------------
LEMMA SubKeeps == ASSUME IInv, SubSum, [Next]_vars PROVE SubSum'
<1>1. CASE UNCHANGED vars
  BY <1>1 DEF SubSum, Ordered, vars, loop, Total, DigitOf, Has, At, Prefix, AddTimes, Integer, Max2
<1>2. CASE Next /\ phase' = "sub"
  BY <1>2, IntoSub, SubStart, SubDigitSum
<1>3. CASE Next /\ phase' = "print" /\ op' = "-"
  BY <1>3, IntoPrint, SubEnd
<1>4. CASE ~(phase' = "sub" \/ (phase' = "print" /\ op' = "-"))
  BY <1>4 DEF SubSum
<1> QED BY <1>1, <1>2, <1>3, <1>4

(***************************************************************************)
(* Multiplication.                                                         *)
(***************************************************************************)
LEMMA IntoMul == ASSUME Next, phase' = "mul" PROVE (CalcMul \/ MulDigit \/ MulRow) /\ Rest
<1>1. CASE Calculate
  <2>1. Rest
    BY <1>1 DEF Calculate, Rest, division, command, output
  <2>2. ~CalcAdd /\ ~CalcSub /\ ~AddDigit /\ ~SubDigit
    BY DEF CalcAdd, CalcSub, AddDigit, SubDigit, Start, Call, Loop
  <2> QED BY <1>1, <2>1, <2>2 DEF Calculate
<1>2. CASE Divide
  BY <1>2 DEF Divide, CalcDiv, Subtract, RemainderDigit, QuotientDigit, DivReturn
<1>3. ~Read /\ ~Usage /\ ~Return /\ ~PrintBignumber
  BY DEF Read, Usage, Return, PrintBignumber
<1> QED BY <1>1, <1>2, <1>3 DEF Next

LEMMA ZeroPrefix ==
  ASSUME NEW n, NEW k \in Nat, \A q \in 0..(k - 1) : n.data[q] = 0
  PROVE  Prefix(n, k) = 0
<1>1. \A q \in 0..(0 - 1) : n.data[q] \in Int
  OBVIOUS
<1>2. Worth(n.data, k) = Worth(n.data, 0)
  BY <1>1, WorthZeros
<1> QED BY <1>2, PrefixWorth, WorthZero

LEMMA MulStart == ASSUME IInv, CalcMul PROVE MulSum'
<1> DEFINE len == a.len + b.len
<1>1. phase = "call" /\ i' = 0 /\ j' = 0 /\ carry' = 0 /\ a' = a /\ b' = b
      /\ r' = Temp(len, IF a.sign = b.sign THEN 0 ELSE 1, a.point + b.point, UseSci(a, b))
  BY DEF CalcMul, Start, IInv, Looping
<1>2. len \in Nat /\ a.len \in Nat /\ b.len \in Nat
  BY <1>1, CallFacts
<1> HIDE DEF len
<1>3. r'.len = len /\ \A k \in 0..(len - 1) : r'.data[k] = 0
  BY <1>1 DEF Temp
<1>4. Prefix(r', r'.len) = 0
  BY <1>2, <1>3, ZeroPrefix
<1>5. Upto(0)' = 0
  BY <1>1, <1>2 DEF Upto
<1>6. Prefix(b', 0) = 0 /\ Prefix(a', 0) = 0
  BY PrefixZero
<1>7. Power[i' + j'] = 1 /\ Power[i'] = 1
  BY <1>1, PowerDef
<1>8. Prefix(a', a'.len) \in Nat /\ (0 < b.len => b'.data[0] \in Nat)
  <2>1. Number(a) /\ Number(b)
    BY <1>1, CallFacts
  <2>2. Result(a) /\ Result(b)
    BY <2>1 DEF Number
  <2>3. Prefix(a, a.len) \in Nat
    BY <1>2, <2>2, PrefixBound
  <2>4. 0 < b.len => b.data[0] \in Digit
    <3>1. 0 < b.len => 0 \in 0..(b.len - 1)
      BY <1>2
    <3> QED BY <3>1, <2>2 DEF Result
  <2> QED BY <1>1, <2>3, <2>4, DigitFacts
<1>9. i' = b'.len => j' = 0
  BY <1>1
<1>10. Prefix(r', r'.len) + carry' * Power[i' + j'] =
          Prefix(a', a'.len) * Prefix(b', i')
          + (IF i' < b'.len THEN b'.data[i'] * Prefix(a', Upto(j)') * Power[i'] ELSE 0)
  <2>1. Prefix(r', r'.len) + carry' * Power[i' + j'] = 0
    BY <1>1, <1>4, <1>7
  <2>2. Prefix(a', a'.len) * Prefix(b', i') = 0
    BY <1>1, <1>6, <1>8
  <2>3. i' < b'.len => b'.data[i'] * Prefix(a', Upto(j)') * Power[i'] = 0
    <3>1. Upto(j)' = 0
      BY <1>1, <1>5 DEF Upto
    <3> QED BY <1>1, <1>6, <1>7, <1>8, <3>1
  <2> QED BY <2>1, <2>2, <2>3
<1>11. i' + j' <= a'.len + b'.len
  BY <1>1, <1>2
<1> QED BY <1>1, <1>9, <1>10, <1>11 DEF MulSum

LEMMA MulFacts ==
  ASSUME IInv, MulSum, phase = "mul"
  PROVE  /\ op = "x" /\ Result(a) /\ Result(b) /\ Result(r) /\ carry \in Digit /\ carry \in Nat
         /\ i \in Nat /\ j \in Nat /\ i <= b.len /\ i + j <= a.len + b.len
         /\ a.len \in Nat /\ b.len \in Nat /\ r.len = a.len + b.len /\ r.len \in Nat
         /\ Prefix(a, a.len) \in Nat /\ Prefix(a, a.len) < Power[a.len]
         /\ Prefix(b, i) \in Nat /\ Prefix(r, r.len) \in Nat
         /\ Upto(j) \in Nat /\ Upto(j) <= a.len /\ Prefix(a, Upto(j)) \in Nat
<1>1. op = "x" /\ r.len = a.len + b.len /\ i <= b.len
  BY DEF IInv, Looping, Allocated
<1>2. /\ Number(a) /\ Number(b) /\ Result(r) /\ carry \in Digit /\ carry \in Nat
      /\ i \in Nat /\ j \in Nat /\ a.len \in Nat /\ b.len \in Nat /\ r.len \in Nat
  BY <1>1, LoopFacts
<1>3. Result(a) /\ Result(b)
  BY <1>2 DEF Number
<1>4. Upto(j) \in Nat /\ Upto(j) <= a.len
  BY <1>2 DEF Upto
<1>5. /\ Prefix(a, a.len) \in Nat /\ Prefix(a, a.len) < Power[a.len]
      /\ Prefix(b, i) \in Nat /\ Prefix(r, r.len) \in Nat /\ Prefix(a, Upto(j)) \in Nat
  BY <1>1, <1>2, <1>3, <1>4, PrefixBound
<1> QED BY <1>1, <1>2, <1>3, <1>4, <1>5 DEF MulSum

LEMMA PowerMonotone ==
  ASSUME NEW k \in Nat, NEW l \in Nat, k <= l
  PROVE  Power[k] <= Power[l]
<1>1. l - k \in Nat /\ k + (l - k) = l
  OBVIOUS
<1>2. Power[l] = Power[k] * Power[l - k]
  BY <1>1, PowerSum
<1>3. \A p, q \in Nat \ {0} : p <= p * q
  OBVIOUS
<1>4. Power[k] \in Nat \ {0} /\ Power[l - k] \in Nat \ {0}
  BY <1>1, PowerDef
<1> QED BY <1>2, <1>3, <1>4

LEMMA MulRowSum == ASSUME IInv, MulSum, MulRow PROVE MulSum'
<1>1. /\ phase = "mul" /\ i < b.len /\ i + j = a.len + b.len /\ i' = i + 1 /\ j' = 0
      /\ UNCHANGED <<phase, a, b, r, carry>>
  BY DEF MulRow
<1>2. /\ Result(a) /\ Result(b) /\ Result(r) /\ carry \in Nat /\ i \in Nat /\ j \in Nat
      /\ a.len \in Nat /\ b.len \in Nat /\ r.len \in Nat
      /\ Prefix(a, a.len) \in Nat /\ Prefix(a, a.len) < Power[a.len]
      /\ Prefix(b, i) \in Nat /\ Prefix(r, r.len) \in Nat
  BY <1>1, MulFacts
<1>3. Upto(j) = a.len
  BY <1>1, <1>2 DEF Upto
<1>4. PICK A \in Nat : A = Prefix(a, a.len) /\ A < Power[a.len]
  BY <1>2
<1>5. Prefix(r, r.len) + carry * Power[a.len + b.len] = A * Prefix(b, i) + b.data[i] * A * Power[i]
  BY <1>1, <1>3, <1>4 DEF MulSum
<1>6. Prefix(b, i + 1) = Prefix(b, i) + b.data[i] * Power[i] /\ b.data[i] \in Int /\ Power[i] \in Nat
  <2>1. i \in 0..(b.len - 1)
    BY <1>1, <1>2
  <2>2. b.data[i] \in Int
    BY <1>2, <2>1, DataInt
  <2> QED BY <1>1, <1>2, <2>2, PrefixNext, PowerDef
<1>7. A * Prefix(b, i) + b.data[i] * A * Power[i] = A * Prefix(b, i + 1)
  <2>1. \A u, v, w, p \in Int : u * v + w * u * p = u * (v + w * p)
    OBVIOUS
  <2> QED BY <1>2, <1>4, <1>6, <2>1
<1>8. PICK B \in Nat : B = Prefix(b, i + 1) /\ B < Power[b.len]
  <2>1. i + 1 \in Nat /\ i + 1 <= b.len
    BY <1>1, <1>2
  <2>2. Prefix(b, i + 1) \in Nat /\ Prefix(b, i + 1) < Power[i + 1]
    BY <1>2, <2>1, PrefixBound
  <2>3. Power[i + 1] <= Power[b.len] /\ Power[i + 1] \in Nat /\ Power[b.len] \in Nat
    BY <1>2, <2>1, PowerMonotone, PowerDef
  <2> QED BY <2>2, <2>3
<1>9. PICK p \in Nat, q \in Nat : p = Power[a.len] /\ q = Power[b.len] /\ Power[a.len + b.len] = p * q
  <2>1. Power[a.len] \in Nat /\ Power[b.len] \in Nat
    BY <1>2, PowerType
  <2>2. Power[a.len + b.len] = Power[a.len] * Power[b.len]
    BY <1>2, PowerSum
  <2> QED BY <2>1, <2>2
<1>10. A * B < p * q
  <2>1. A < p /\ B < q
    BY <1>4, <1>8, <1>9
  <2>2. A * B <= A * q
    BY <2>1
  <2>3. A * q < p * q
    BY <2>1
  <2>4. A * B \in Nat /\ A * q \in Nat /\ p * q \in Nat
    OBVIOUS
  <2> QED BY <2>2, <2>3, <2>4
<1>11. Prefix(r, r.len) + carry * (p * q) = A * B
  BY <1>5, <1>7, <1>8, <1>9
<1>12. carry = 0
  <2>1. PICK M \in Nat, N \in Nat : M = p * q /\ N = A * B
    OBVIOUS
  <2>2. carry >= 1 => carry * M >= M
    BY <1>2
  <2>3. carry * M \in Nat
    BY <1>2
  <2> QED BY <1>2, <1>10, <1>11, <2>1, <2>2, <2>3
<1>13. Prefix(r, r.len) = A * B
  BY <1>2, <1>11, <1>12
<1>14. Upto(j)' = 0 /\ Prefix(a, 0) = 0
  BY <1>1, <1>2, PrefixZero DEF Upto
<1>15. i + 1 < b.len => b.data[i + 1] * 0 * Power[i + 1] = 0
  <2> SUFFICES ASSUME i + 1 < b.len  PROVE b.data[i + 1] * 0 * Power[i + 1] = 0
    OBVIOUS
  <2>1. i + 1 \in 0..(b.len - 1) /\ i + 1 \in Nat
    BY <1>2
  <2>2. b.data[i + 1] \in Int /\ Power[i + 1] \in Int
    <3>1. \A q2 \in 0..(b.len - 1) : b.data[q2] \in Int
      BY <1>2, DataInt
    <3>2. Power[i + 1] \in Nat
      BY <2>1, PowerType
    <3> QED BY <2>1, <3>1, <3>2
  <2> QED BY <2>2
<1>16. carry' * Power[i' + j'] = 0
  BY <1>1, <1>2, <1>12, PowerDef
<1>17. Prefix(r', r'.len) + carry' * Power[i' + j'] =
          Prefix(a', a'.len) * Prefix(b', i')
          + (IF i' < b'.len THEN b'.data[i'] * Prefix(a', Upto(j)') * Power[i'] ELSE 0)
  <2>1. Prefix(r', r'.len) + carry' * Power[i' + j'] = A * B
    BY <1>1, <1>2, <1>13, <1>16
  <2>2. Prefix(a', a'.len) * Prefix(b', i') = A * B
    BY <1>1, <1>4, <1>8
  <2>3. i' < b'.len => b'.data[i'] * Prefix(a', Upto(j)') * Power[i'] = 0
    BY <1>1, <1>14, <1>15
  <2> QED BY <2>1, <2>2, <2>3
<1>18. i' + j' <= a'.len + b'.len
  BY <1>1, <1>2
<1> QED BY <1>1, <1>12, <1>17, <1>18 DEF MulSum

-----------------------------------------------------------------------------
\* A digit written into a result changes its worth at that place.
LEMMA WrittenResult ==
  ASSUME NEW n, NEW m, Result(n), Result(m), m.len = n.len, NEW w \in 0..(n.len - 1),
         NEW d, m.data = [n.data EXCEPT ![w] = d]
  PROVE  Prefix(m, m.len) = Prefix(n, n.len) + (d - n.data[w]) * Power[w]
<1>1. n.len \in Nat /\ n.data \in [0..(n.len - 1) -> Digit]
  BY DEF Result, WellFormed
<1>2. m.data[w] = d /\ \A q \in 0..(n.len - 1) : q # w => m.data[q] = n.data[q]
  BY <1>1
<1>3. \A q \in 0..(n.len - 1) : n.data[q] \in Int /\ m.data[q] \in Int
  BY <1>1, DataInt
<1>4. Worth(m.data, n.len) = Worth(n.data, n.len) + (m.data[w] - n.data[w]) * Power[w]
  <2>1. PICK D, E, k : D = n.data /\ E = m.data /\ k = n.len
    OBVIOUS
  <2>2. k \in Nat /\ w \in 0..(k - 1)
    BY <1>1, <2>1
  <2>3. \A q \in 0..(k - 1) : D[q] \in Int /\ E[q] \in Int /\ (q # w => E[q] = D[q])
    BY <1>2, <1>3, <2>1
  <2>4. Worth(E, k) = Worth(D, k) + (E[w] - D[w]) * Power[w]
    BY <2>2, <2>3, WorthWritten
  <2> QED BY <2>1, <2>4
<1> QED BY <1>2, <1>4, PrefixWorth

\* One more digit of a is multiplied by digit d of b and added.
LEMMA RowNext ==
  ASSUME IInv, MulSum, phase = "mul", i < b.len
  PROVE  /\ b.data[i] \in Nat
         /\ b.data[i] * Prefix(a, Upto(j + 1)) * Power[i] =
              b.data[i] * Prefix(a, Upto(j)) * Power[i]
              + (IF j < a.len THEN b.data[i] * a.data[j] ELSE 0) * Power[i + j]
<1>1. /\ Result(a) /\ Result(b) /\ i \in Nat /\ j \in Nat /\ a.len \in Nat /\ b.len \in Nat
      /\ Upto(j) \in Nat /\ Prefix(a, Upto(j)) \in Nat
  BY MulFacts
<1>2. \A q \in 0..(b.len - 1) : b.data[q] \in Digit
  BY <1>1, DataInt
<1>3. b.data[i] \in Nat
  <2>1. i \in 0..(b.len - 1)
    BY <1>1
  <2>2. \A z \in Digit : z \in Nat
    BY DigitFacts
  <2> QED BY <1>2, <2>1, <2>2
<1>4. CASE j < a.len
  <2>1. Upto(j) = j /\ Upto(j + 1) = j + 1
    BY <1>1, <1>4 DEF Upto
  <2>2. Prefix(a, j + 1) = Prefix(a, j) + a.data[j] * Power[j]
    BY <1>1, <1>4, PrefixNext
  <2>3. \A q \in 0..(a.len - 1) : a.data[q] \in Int
    BY <1>1, DataInt
  <2>4. a.data[j] \in Int
    BY <1>1, <1>4, <2>3
  <2>5. Power[i] \in Nat /\ Power[j] \in Nat
    BY <1>1, PowerType
  <2>6. Power[i + j] = Power[i] * Power[j]
    BY <1>1, PowerSum
  <2>7. PICK d \in Int, e \in Int, p \in Int, s \in Int, u \in Int :
           d = b.data[i] /\ e = a.data[j] /\ p = Power[i] /\ s = Power[j] /\ u = Prefix(a, j)
    <3>1. b.data[i] \in Int /\ Power[i] \in Int /\ Power[j] \in Int
      BY <1>3, <2>5
    <3>2. Prefix(a, j) \in Int
      BY <1>1, <2>1
    <3> QED BY <2>4, <3>1, <3>2
  <2>8. d * (u + e * s) * p = d * u * p + (d * e) * (p * s)
    <3>1. d * (u + e * s) = d * u + d * (e * s)
      OBVIOUS
    <3>2. (d * u + d * (e * s)) * p = d * u * p + (d * e) * (p * s)
      OBVIOUS
    <3> QED BY <3>1, <3>2
  <2> QED BY <1>3, <1>4, <2>1, <2>2, <2>6, <2>7, <2>8
<1>5. CASE ~(j < a.len)
  <2>1. Upto(j) = a.len /\ Upto(j + 1) = a.len
    BY <1>1, <1>5 DEF Upto
  <2>2. b.data[i] * Prefix(a, a.len) * Power[i] \in Int /\ 0 * Power[i + j] = 0
    <3>1. Power[i] \in Nat /\ Power[i + j] \in Nat
      BY <1>1, PowerType
    <3> QED BY <1>1, <1>3, <2>1, <3>1
  <2> QED BY <1>3, <1>5, <2>1, <2>2
<1> QED BY <1>4, <1>5

LEMMA MulDigitSum == ASSUME IInv, MulSum, MulDigit PROVE MulSum'
<1> DEFINE step == IF j < a.len THEN b.data[i] * a.data[j] ELSE 0
           total == carry + step + r.data[i + j]
           m == total % Base
           e == total \div Base
           w == i + j
<1>1. /\ phase = "mul" /\ i < b.len /\ w < a.len + b.len
      /\ Write(w, m) /\ carry' = e /\ j' = j + 1
      /\ UNCHANGED <<phase, op, a, b, sign, i>>
  BY DEF MulDigit
<1>2. /\ Result(a) /\ Result(b) /\ Result(r) /\ carry \in Nat /\ i \in Nat /\ j \in Nat
      /\ a.len \in Nat /\ b.len \in Nat /\ r.len = a.len + b.len /\ r.len \in Nat
      /\ Prefix(a, a.len) \in Nat /\ Prefix(b, i) \in Nat /\ Prefix(r, r.len) \in Nat
      /\ Prefix(a, Upto(j)) \in Nat
  BY <1>1, MulFacts
<1>3. w \in 0..(r.len - 1) /\ w \in Nat /\ w < r.len
  BY <1>1, <1>2
<1>4. step \in Nat
  <2>1. CASE j < a.len
    <3>1. i \in 0..(b.len - 1) /\ j \in 0..(a.len - 1)
      BY <1>1, <1>2, <2>1
    <3>2. b.data[i] \in Digit /\ a.data[j] \in Digit
      BY <1>2, <3>1 DEF Result
    <3>3. b.data[i] \in Nat /\ a.data[j] \in Nat
      BY <3>2, DigitFacts
    <3> QED BY <2>1, <3>3
  <2> QED BY <2>1
<1>5. r.data[w] \in Nat
  <2>1. r.data[w] \in Digit
    BY <1>2, <1>3 DEF Result
  <2> QED BY <2>1, DigitFacts
<1> HIDE DEF step, w
<1>6. total \in Nat
  <2>1. w = i + j
    BY DEF w
  <2> QED BY <1>2, <1>4, <1>5, <2>1
<1>7. total = carry + step + r.data[w]
  BY DEF w
<1> HIDE DEF total
<1>8. m \in Digit /\ m \in Nat /\ e \in Nat
  BY <1>6, BaseDivMod, DigitFacts
<1>9. m * Power[w] + e * Power[w + 1] = total * Power[w]
  BY <1>3, <1>6, CarryWorth
<1> HIDE DEF m, e
<1>10. Result(r') /\ r'.len = r.len /\ r'.data = [r.data EXCEPT ![w] = m]
  <2>1. Result(r)' /\ r'.len = r.len
    BY <1>1, <1>2, <1>3, <1>8, WriteKeeps
  <2>2. r'.data = [r.data EXCEPT ![w] = m]
    BY <1>1, <1>2, <1>3, <1>8, WriteData
  <2> QED BY <2>1, <2>2
<1>11. Prefix(r', r'.len) = Prefix(r, r.len) + (m - r.data[w]) * Power[w]
  <2>1. PICK n : n = r'
    OBVIOUS
  <2>2. Result(n) /\ n.len = r.len /\ n.data = [r.data EXCEPT ![w] = m]
    BY <1>10, <2>1
  <2>3. Prefix(n, n.len) = Prefix(r, r.len) + (m - r.data[w]) * Power[w]
    BY <1>2, <1>3, <2>2, WrittenResult
  <2> QED BY <2>1, <2>3
<1>12. PICK p \in Nat, q \in Nat : p = Power[w] /\ q = Power[w + 1]
  BY <1>3, PowerType
<1>13. (m - r.data[w]) * p + e * q = (carry + step) * p
  <2>1. PICK z \in Nat : z = r.data[w]
    BY <1>5
  <2>2. m * p + e * q = (carry + step + z) * p
    BY <1>7, <1>9, <1>12, <2>1
  <2>3. (carry + step + z) * p = (carry + step) * p + z * p
    BY <1>2, <1>4
  <2>4. (m - z) * p = m * p - z * p
    BY <1>8
  <2>5. PICK X \in Int, Y \in Int, V \in Int, C \in Int :
           X = m * p /\ Y = z * p /\ V = e * q /\ C = (carry + step) * p
    BY <1>2, <1>4, <1>8
  <2>6. X + V = C + Y
    BY <2>2, <2>3, <2>5
  <2>7. (m - r.data[w]) * p = X - Y
    BY <2>1, <2>4, <2>5
  <2> QED BY <2>5, <2>6, <2>7
<1>14. Prefix(r, r.len) + carry * p =
          Prefix(a, a.len) * Prefix(b, i) + b.data[i] * Prefix(a, Upto(j)) * Power[i]
  BY <1>1, <1>12 DEF MulSum, w
<1>15. /\ b.data[i] \in Nat
       /\ b.data[i] * Prefix(a, Upto(j + 1)) * Power[i] =
             b.data[i] * Prefix(a, Upto(j)) * Power[i] + step * p
  BY <1>1, <1>12, RowNext DEF step, w
<1>16. Prefix(r', r'.len) + e * q =
          Prefix(a, a.len) * Prefix(b, i) + b.data[i] * Prefix(a, Upto(j + 1)) * Power[i]
  <2>1. PICK s : s = b.data[i] * Prefix(a, Upto(j)) * Power[i]
    OBVIOUS
  <2>2. s \in Int
    BY <1>2, <1>15, <2>1, PowerType
  <2>3. PICK t \in Int : t = Prefix(a, a.len) * Prefix(b, i)
    BY <1>2
  <2>4. PICK u \in Int : u = (m - r.data[w]) * p
    BY <1>5, <1>8
  <2>5. PICK v \in Int : v = e * q
    BY <1>8
  <2>6. (carry + step) * p = carry * p + step * p /\ carry * p \in Int /\ step * p \in Int
    BY <1>2, <1>4
  <2>7. PICK X \in Int, Y \in Int : X = carry * p /\ Y = step * p
    BY <2>6
  <2>8. u + v = X + Y
    BY <1>13, <2>4, <2>5, <2>6, <2>7
  <2>9. Prefix(r', r'.len) = Prefix(r, r.len) + u
    BY <1>11, <1>12, <2>4
  <2>10. Prefix(r, r.len) + X = t + s
    BY <1>14, <2>1, <2>3, <2>7
  <2>11. b.data[i] * Prefix(a, Upto(j + 1)) * Power[i] = s + Y
    BY <1>15, <2>1, <2>7
  <2>12. Prefix(r, r.len) + u + v = t + (s + Y)
    BY <1>2, <2>2, <2>8, <2>10
  <2> QED BY <1>2, <2>3, <2>5, <2>9, <2>11, <2>12
<1>17. Upto(j)' = Upto(j + 1) /\ i' + j' = w + 1 /\ i' + j' <= a'.len + b'.len /\ j' # 0
  BY <1>1, <1>2 DEF Upto, w
<1>18. i' # b'.len
  BY <1>1, <1>2
<1> QED BY <1>1, <1>12, <1>16, <1>17, <1>18 DEF MulSum

LEMMA MulKeeps == ASSUME IInv, MulSum, [Next]_vars PROVE MulSum'
<1>1. CASE UNCHANGED vars
  BY <1>1 DEF MulSum, vars, loop, Upto, Prefix
<1>2. CASE Next /\ phase' = "mul"
  BY <1>2, IntoMul, MulStart, MulDigitSum, MulRowSum
<1>3. CASE phase' # "mul"
  BY <1>3 DEF MulSum
<1> QED BY <1>1, <1>2, <1>3

-----------------------------------------------------------------------------
(***************************************************************************)
(* The first digit from above that differs decides which number is larger. *)
(***************************************************************************)
AboveEqual(d, e, k, n) == \A q \in (k + 1)..(n - 1) : d[q] = e[q]

LEMMA WorthLess ==
  ASSUME NEW d, NEW e, NEW n \in Nat, \A q \in 0..(n - 1) : d[q] \in Digit /\ e[q] \in Digit,
         NEW k \in 0..(n - 1), d[k] > e[k], AboveEqual(d, e, k, n)
  PROVE  Worth(d, n) > Worth(e, n)
<1>1. PICK T : T = {q \in Nat : Worth(d, q) > Worth(e, q)}
  OBVIOUS
<1>2. \A q \in 0..(n - 1) : d[q] \in Int /\ e[q] \in Int
  <2>1. \A z \in Digit : z \in Int
    BY DigitFacts
  <2> QED BY <2>1
<1>3. k + 1 \in T
  <2>1. \A q \in 0..k : d[q] \in Int /\ e[q] \in Int
    BY <1>2
  <2>2. \A q \in 0..(k - 1) : d[q] \in Digit /\ e[q] \in Digit
    OBVIOUS
  <2>3. /\ Worth(d, k + 1) = Worth(d, k) + d[k] * Power[k]
        /\ Worth(e, k + 1) = Worth(e, k) + e[k] * Power[k]
    BY <2>1, WorthNext
  <2>4. Worth(d, k) \in Nat /\ Worth(e, k) \in Nat /\ Worth(e, k) < Power[k]
    BY <2>2, WorthBound
  <2>5. PICK p \in Nat, u \in Int, v \in Int : p = Power[k] /\ u = d[k] /\ v = e[k]
    <3>1. k \in 0..k /\ Power[k] \in Nat
      BY PowerDef
    <3> QED BY <2>1, <3>1
  <2>6. u >= v + 1
    BY <2>5
  <2>7. u * p >= (v + 1) * p /\ (v + 1) * p = v * p + p /\ u * p \in Int /\ v * p \in Int
    BY <2>6
  <2>8. Worth(d, k + 1) > Worth(e, k + 1)
    BY <2>3, <2>4, <2>5, <2>7
  <2> QED BY <1>1, <2>8
<1>4. \A q \in (k + 1)..(n - 1) : q \in T => q + 1 \in T
  <2> SUFFICES ASSUME NEW q \in (k + 1)..(n - 1), q \in T  PROVE q + 1 \in T
    OBVIOUS
  <2>1. q \in Nat /\ \A z \in 0..q : z \in 0..(n - 1)
    OBVIOUS
  <2>2. \A z \in 0..q : d[z] \in Int /\ e[z] \in Int
    BY <1>2, <2>1
  <2>3. /\ Worth(d, q + 1) = Worth(d, q) + d[q] * Power[q]
        /\ Worth(e, q + 1) = Worth(e, q) + e[q] * Power[q]
    BY <2>1, <2>2, WorthNext
  <2>4. d[q] = e[q] /\ d[q] \in Int /\ Power[q] \in Nat
    BY <2>1, <2>2, PowerDef DEF AboveEqual
  <2>5. Worth(d, q) \in Int /\ Worth(e, q) \in Int
    BY <2>1, <2>2, WorthInt
  <2>6. Worth(d, q) > Worth(e, q)
    BY <1>1
  <2>7. PICK z \in Int : z = d[q] * Power[q]
    BY <2>4
  <2>8. Worth(d, q + 1) > Worth(e, q + 1)
    BY <2>3, <2>4, <2>5, <2>6, <2>7
  <2> QED BY <1>1, <2>1, <2>8
<1>5. \A q \in (k + 1)..n : q \in T
  BY <1>3, <1>4, Upward
<1>6. n \in (k + 1)..n
  OBVIOUS
<1> QED BY <1>1, <1>5, <1>6

(***************************************************************************)
(* Division.                                                               *)
(***************************************************************************)
LEMMA IntoDiv ==
  ASSUME Next, phase' \in {"div", "divsub"}
  PROVE  CalcDiv \/ Subtract \/ RemainderDigit \/ QuotientDigit
<1>1. ~Calculate
  BY DEF Calculate, CalcAdd, CalcSub, CalcMul, AddDigit, SubDigit, MulDigit, MulRow, Start, Call, Loop
<1>2. ~Read /\ ~Usage /\ ~Return /\ ~PrintBignumber /\ ~DivReturn
  BY DEF Read, Usage, Return, PrintBignumber, DivReturn
<1> QED BY <1>1, <1>2 DEF Next, Divide

LEMMA IntoCall ==
  ASSUME Next, phase' \in {"read", "call"}
  PROVE  time' = time /\ phase \in {"read", "call"}
<1>1. CASE Calculate
  BY <1>1 DEF Calculate, CalcAdd, CalcSub, CalcMul, AddDigit, SubDigit, MulDigit, MulRow, Start, Call, Loop,
              division
<1>2. ~Divide
  BY DEF Divide, CalcDiv, Subtract, RemainderDigit, QuotientDigit, DivReturn
<1>3. CASE Read \/ Usage
  BY <1>3 DEF Read, Usage, division
<1>4. ~Return /\ ~PrintBignumber
  BY DEF Return, PrintBignumber
<1> QED BY <1>1, <1>2, <1>3, <1>4 DEF Next

\* The digits of the divisor, with zeros in front.
DivisorDigits == [q \in Nat |-> Divisor(q)]

LEMMA DivisorWorth ==
  ASSUME IInv, phase \in {"div", "divsub"}, NEW k \in Nat
  PROVE  /\ Subtracted(k) = Worth(DivisorDigits, k)
         /\ Subtracted(k) \in Nat
         /\ Subtracted(k + 1) = Subtracted(k) + Divisor(k) * Power[k]
         /\ k >= b.len => Subtracted(k) = Prefix(b, b.len)
<1>1. \A l \in Nat : Subtracted(l) = Worth(DivisorDigits, l)
  <2> SUFFICES ASSUME NEW l \in Nat  PROVE Subtracted(l) = Worth(DivisorDigits, l)
    OBVIOUS
  <2>1. \A q \in 0..(l - 1) : DivisorDigits[q] = Divisor(q)
    BY DEF DivisorDigits
  <2>2. [q \in 0..(l - 1) |-> Divisor(q) * Power[q]] = [q \in 0..(l - 1) |-> DivisorDigits[q] * Power[q]]
    BY <2>1
  <2> QED BY <2>2 DEF Subtracted, Worth
<1>2. b.len \in Nat /\ Result(b) /\ \A q \in Nat : Divisor(q) \in Digit
  BY DivFacts DEF Number
<1>3. \A q \in Nat : DivisorDigits[q] = Divisor(q) /\ DivisorDigits[q] \in Digit
  BY <1>2 DEF DivisorDigits
<1>4. \A q \in Nat : DivisorDigits[q] \in Int
  <2>1. \A z \in Digit : z \in Int
    BY DigitFacts
  <2> QED BY <1>3, <2>1
<1>5. Subtracted(k) \in Nat
  <2>1. \A q \in 0..(k - 1) : DivisorDigits[q] \in Digit
    BY <1>3
  <2> QED BY <1>1, <2>1, WorthBound
<1>6. Subtracted(k + 1) = Subtracted(k) + Divisor(k) * Power[k]
  <2>1. \A q \in 0..k : DivisorDigits[q] \in Int
    BY <1>4
  <2>2. Worth(DivisorDigits, k + 1) = Worth(DivisorDigits, k) + DivisorDigits[k] * Power[k]
    BY <2>1, WorthNext
  <2>3. Subtracted(k + 1) = Worth(DivisorDigits, k + 1) /\ Subtracted(k) = Worth(DivisorDigits, k)
    BY <1>1
  <2> QED BY <1>3, <2>2, <2>3
<1>7. k >= b.len => Subtracted(k) = Prefix(b, b.len)
  <2> SUFFICES ASSUME k >= b.len  PROVE Subtracted(k) = Prefix(b, b.len)
    OBVIOUS
  <2>1. \A q \in b.len..(k - 1) : DivisorDigits[q] = 0
    BY <1>2, <1>3 DEF Divisor
  <2>2. \A q \in 0..(b.len - 1) : DivisorDigits[q] = b.data[q] /\ DivisorDigits[q] \in Int
    BY <1>2, <1>3, <1>4 DEF Divisor
  <2>3. Worth(DivisorDigits, k) = Worth(DivisorDigits, b.len)
    BY <1>2, <2>1, <2>2, WorthZeros
  <2>4. Worth(DivisorDigits, b.len) = Worth(b.data, b.len)
    BY <1>2, <2>2, WorthEqual
  <2> QED BY <1>1, <2>3, <2>4, PrefixWorth
<1> QED BY <1>1, <1>5, <1>6, <1>7

LEMMA RemainderWorth ==
  ASSUME IInv, phase \in {"div", "divsub"}, i < r.len
  PROVE  /\ Remainder = Worth(rem, Digits) /\ Remainder \in Nat /\ Remainder < Power[Digits]
         /\ \A q \in 0..(Digits - 1) : rem[q] \in Digit
<1>1. Digits \in Nat /\ \A q \in 0..(Digits - 1) : rem[q] \in Digit
  BY DivFacts
<1>2. Remainder = Worth(rem, Digits)
  BY DEF Remainder, Worth
<1> QED BY <1>1, <1>2, WorthBound

-----------------------------------------------------------------------------
\* The digits of the quotient so far.
QuotientDigits == [q \in 0..(i - 1) |-> r.data[q + (r.len - i)]]

LEMMA QuotientWorth ==
  ASSUME IInv, phase \in {"div", "divsub"}
  PROVE  QuotientSoFar = Worth(QuotientDigits, i) /\ QuotientSoFar \in Int
<1>1. WellFormed(r) /\ r.len \in Nat /\ i \in Nat /\ i <= r.len
  BY DivFacts
<1>2. PICK m \in Int : m = r.len - i
  BY <1>1
<1>3. PICK d, e : d = r.data /\ e = QuotientDigits
  OBVIOUS
<1>4. \A q \in 0..(i - 1) : d[q + m] \in Int /\ e[q] = d[q + m]
  <2> SUFFICES ASSUME NEW q \in 0..(i - 1)  PROVE d[q + m] \in Int /\ e[q] = d[q + m]
    OBVIOUS
  <2>1. q + m \in 0..(r.len - 1)
    BY <1>1, <1>2
  <2> QED BY <1>1, <1>2, <1>3, <2>1 DEF WellFormed, QuotientDigits
<1>5. PartOf(d, e, m, i)
  BY <1>4 DEF PartOf
<1>6. SumFunction(PartTerms(d, m, i)) = Worth(e, i)
  BY <1>1, <1>2, <1>5, WorthPart
<1>7. m + i - 1 = r.len - 1
  BY <1>1, <1>2
<1>8. Worth(e, i) \in Int
  BY <1>1, <1>4, WorthInt
<1> QED BY <1>2, <1>3, <1>6, <1>7, <1>8 DEF QuotientSoFar, PartTerms

\* bigger says that the divisor goes into the remainder.
LEMMA BiggerWorth ==
  ASSUME IInv, phase = "div", i < r.len
  PROVE  /\ Bigger => Remainder >= Prefix(b, b.len)
         /\ ~Bigger /\ Digits = b.len + 1 => rem[b.len] = 0
<1>1. PICK n \in Nat : n = Digits /\ n > 0 /\ n >= b.len
  BY DivFacts DEF Digits
<1>2. PICK d, e : d = rem /\ e = DivisorDigits
  OBVIOUS
<1>3. \A q \in 0..(n - 1) : d[q] \in Digit /\ e[q] \in Digit /\ e[q] = Divisor(q)
  BY <1>1, <1>2, RemainderWorth, DivFacts DEF DivisorDigits
<1>4. Remainder = Worth(d, n) /\ Prefix(b, b.len) = Worth(e, n)
  <2>1. Subtracted(n) = Prefix(b, b.len) /\ Subtracted(n) = Worth(DivisorDigits, n)
    BY <1>1, DivisorWorth, DivFacts
  <2> QED BY <1>1, <1>2, <2>1, RemainderWorth
<1>5. PICK differ : differ = {k \in 0..(n - 1) : d[k] # e[k]}
  OBVIOUS
<1>6. /\ Bigger => differ = {} \/ \E k \in differ : (\A q \in differ : q <= k) /\ d[k] > e[k]
      /\ (differ = {} \/ \E k \in differ : (\A q \in differ : q <= k) /\ d[k] > e[k]) => Bigger
  <2>1. differ = {k \in 0..(Digits - 1) : rem[k] # Divisor(k)}
    BY <1>1, <1>2, <1>3, <1>5
  <2>2. \A k \in differ : e[k] = Divisor(k)
    BY <1>3, <1>5
  <2> QED BY <1>2, <2>1, <2>2 DEF Bigger
<1>7. Worth(e, n) \in Nat /\ Worth(d, n) \in Nat
  BY <1>3, WorthBound
<1>8. ASSUME differ = {}  PROVE Worth(d, n) = Worth(e, n)
  <2>1. \A q \in 0..(n - 1) : d[q] = e[q]
    BY <1>5, <1>8
  <2> QED BY <2>1, WorthEqual
<1>9. ASSUME NEW k \in differ, \A q \in differ : q <= k, d[k] > e[k]
      PROVE  Worth(d, n) > Worth(e, n)
  <2>1. k \in 0..(n - 1)
    BY <1>5
  <2>2. AboveEqual(d, e, k, n)
    <3> SUFFICES ASSUME NEW q \in (k + 1)..(n - 1)  PROVE d[q] = e[q]
      BY DEF AboveEqual
    <3>1. q \in 0..(n - 1) /\ ~(q <= k)
      BY <2>1
    <3> QED BY <1>5, <1>9, <3>1
  <2> QED BY <1>3, <1>9, <2>1, <2>2, WorthLess
<1>10. Bigger => Remainder >= Prefix(b, b.len)
  <2> SUFFICES ASSUME Bigger  PROVE Remainder >= Prefix(b, b.len)
    OBVIOUS
  <2>1. Worth(d, n) = Worth(e, n) \/ Worth(d, n) > Worth(e, n)
    BY <1>6, <1>8, <1>9
  <2> QED BY <1>4, <1>7, <2>1
<1>11. ASSUME ~Bigger, Digits = b.len + 1  PROVE rem[b.len] = 0
  <2>1. b.len \in 0..(n - 1) /\ n = b.len + 1
    BY <1>1, <1>11, DivFacts
  <2>2. e[b.len] = 0 /\ d[b.len] \in Digit
    BY <1>3, <2>1 DEF Divisor
  <2>3. \A z \in Digit : z # 0 => z > 0
    BY BaseAssumption DEF Digit
  <2>4. ~(\E k \in differ : (\A q \in differ : q <= k) /\ d[k] > e[k])
    BY <1>6, <1>11
  <2>5. \A q \in differ : q <= b.len
    BY <1>1, <1>5, <2>1
  <2>6. d[b.len] # 0 => b.len \in differ
    BY <1>5, <2>1, <2>2
  <2> QED BY <1>2, <2>2, <2>3, <2>4, <2>5, <2>6
<1> QED BY <1>10, <1>11

LEMMA SubtractSum == ASSUME IInv, DivSum, Subtract PROVE DivSum'
<1>1. /\ phase = "div" /\ i < r.len /\ Bigger /\ phase' = "divsub" /\ j' = 0 /\ carry' = 0
      /\ UNCHANGED <<op, a, b, sign, r, i, outside, rem, time, wrapped>>
  BY DEF Subtract
<1>2. Remainder \in Nat /\ Remainder >= Prefix(b, b.len) /\ Left = Remainder
  BY <1>1, BiggerWorth, RemainderWorth DEF Left
<1>3. Remainder' = Remainder /\ BroughtDown' = BroughtDown /\ QuotientSoFar' = QuotientSoFar
      /\ Prefix(b, b.len)' = Prefix(b, b.len)
  BY <1>1 DEF Remainder, Digits, BroughtDown, QuotientSoFar, Prefix
<1>4. Subtracted(j)' = 0 /\ (carry * Power[j])' = 0
  <2>1. 0..(j' - 1) = {}
    BY <1>1
  <2>2. Subtracted(j)' = 0
    BY <2>1, NoTerms DEF Subtracted
  <2>3. carry' * Power[j'] = 0
    BY <1>1, PowerDef
  <2> QED BY <2>2, <2>3
<1>5. Left' = Left
  BY <1>1, <1>2, <1>3, <1>4 DEF Left
<1> QED BY <1>1, <1>2, <1>3, <1>5 DEF DivSum

LEMMA RemainderDigitSum == ASSUME IInv, DivSum, RemainderDigit PROVE DivSum'
<1> DEFINE total == rem[j] + Base - carry - Divisor(j)
           m == total % Base
           e == IF total \div Base # 0 THEN 0 ELSE 1
<1>1. /\ phase = "divsub" /\ i < r.len /\ j < Digits /\ carry <= 1
      /\ rem' = [rem EXCEPT ![j] = m] /\ carry' = e
      /\ \/ j < Digits - 1 /\ j' = j + 1 /\ phase' = "divsub" /\ time' = time
         \/ j = Digits - 1 /\ phase' = "div" /\ time' = time + 1
      /\ UNCHANGED <<op, a, b, sign, r, i, outside, wrapped>>
  BY DEF RemainderDigit, IInv, Looping
<1>2. /\ rem \in [0..(Digits - 1) -> Digit] /\ Digits \in Nat /\ j \in Nat /\ j \in 0..(Digits - 1)
      /\ Divisor(j) \in Digit /\ carry \in Nat /\ b.len \in Nat /\ Digits >= b.len /\ time \in Nat
      /\ rem[j] \in Digit
  <2>1. carry \in Nat
    <3>1. carry \in Digit
      BY <1>1, DivFacts
    <3> QED BY <3>1, DigitFacts
  <2> QED BY <1>1, <2>1, DivFacts DEF Digits
<1>3. total \in Nat /\ total <= 2 * Base - 1 /\ rem[j] \in Nat /\ Divisor(j) \in Nat
  <2>1. \A z \in Digit : z \in Nat /\ z <= Base - 1
    BY BaseAssumption DEF Digit
  <2>2. PICK u \in Nat, v \in Nat : u = rem[j] /\ v = Divisor(j) /\ u <= Base - 1 /\ v <= Base - 1
    BY <1>2, <2>1
  <2>3. total = u + Base - carry - v
    BY <2>2
  <2>4. u + Base - carry - v \in Nat /\ u + Base - carry - v <= 2 * Base - 1
    <3>1. PICK c \in Nat : c = carry /\ c <= 1
      BY <1>1, <1>2
    <3>2. Base \in Nat /\ Base >= 2
      BY BaseAssumption
    <3>3. u + Base - c - v \in Nat /\ u + Base - c - v <= 2 * Base - 1
      BY <2>2, <3>1, <3>2
    <3> QED BY <3>1, <3>3
  <2> HIDE DEF total
  <2> QED BY <2>2, <2>3, <2>4
<1>4. /\ e \in 0..1 /\ m \in Digit
      /\ (rem[j] - Divisor(j)) * Power[j] - carry * Power[j] = m * Power[j] - e * Power[j + 1]
  <2>1. PICK f : f = e
    OBVIOUS
  <2>2. PICK u \in Nat, v \in Nat, c \in Nat, n \in Nat, k \in Nat :
           u = rem[j] /\ v = Divisor(j) /\ c = carry /\ n = total /\ k = j /\ f = e
    BY <1>2, <1>3, <2>1
  <2>3. n = u + Base - c - v /\ n <= 2 * Base - 1
    BY <1>3, <2>2
  <2>4. f = IF n \div Base # 0 THEN 0 ELSE 1
    BY <2>2
  <2>5. Borrowed(u, v, c, n, f)
    BY <2>3, <2>4 DEF Borrowed
  <2>6. /\ f \in 0..1 /\ n % Base \in Digit
        /\ (u - v) * Power[k] - c * Power[k] = (n % Base) * Power[k] - f * Power[k + 1]
    BY <2>5, BorrowWorth
  <2>7. m = n % Base
    BY <2>2
  <2> HIDE DEF total, m, e
  <2> QED BY <2>2, <2>6, <2>7
<1> HIDE DEF total, m, e
<1>5. PICK p \in Nat, q \in Nat, u \in Nat, v \in Nat, w \in Nat :
         p = Power[j] /\ q = Power[j + 1] /\ u = rem[j] /\ v = Divisor(j) /\ w = m
  <2>1. m \in Nat
    BY <1>4, DigitFacts
  <2> QED BY <1>2, <1>3, <2>1, PowerType
<1>6. PICK R \in Nat : R = Remainder /\ R = Worth(rem, Digits)
  BY <1>1, RemainderWorth
<1>7. Digits' = Digits /\ Prefix(b, b.len)' = Prefix(b, b.len)
      /\ BroughtDown' = BroughtDown /\ QuotientSoFar' = QuotientSoFar
  BY <1>1 DEF Digits, Prefix, BroughtDown, QuotientSoFar
<1>8. Remainder' = R + (w - u) * p /\ Remainder' \in Nat /\ Remainder' < Power[Digits]
  <2>1. PICK n \in Nat : n = Digits
    BY <1>2
  <2>2. PICK l \in 0..(n - 1) : l = j
    BY <1>2, <2>1
  <2>3. PICK d, f : d = rem /\ f = rem' /\ l = j
    BY <2>2
  <2>4. \A z \in 0..(n - 1) : d[z] \in Digit /\ f[z] \in Digit /\ (z # l => f[z] = d[z])
    BY <1>1, <1>2, <1>4, <2>1, <2>3
  <2>5. \A z \in Digit : z \in Int
    BY DigitFacts
  <2>6. \A z \in 0..(n - 1) : d[z] \in Int /\ f[z] \in Int /\ (z # l => f[z] = d[z])
    BY <2>4, <2>5
  <2>7. Worth(f, n) = Worth(d, n) + (f[l] - d[l]) * Power[l]
    BY <2>6, WorthWritten
  <2>8. Worth(f, n) \in Nat /\ Worth(f, n) < Power[n]
    BY <2>4, WorthBound
  <2>9. Remainder' = Worth(f, n)
    BY <1>7, <2>1, <2>3 DEF Remainder, Worth
  <2>10. f[l] = w /\ d[l] = u
    BY <1>1, <1>2, <1>5, <2>3
  <2> QED BY <1>5, <1>6, <2>1, <2>3, <2>7, <2>8, <2>9, <2>10
<1>9. PICK S \in Nat : S = Subtracted(j) /\ Subtracted(j + 1) = S + v * p
  BY <1>1, <1>2, <1>5, DivisorWorth
<1>10. Left = R + S - carry * p
  BY <1>1, <1>5, <1>6, <1>9 DEF Left
<1>11. Remainder' + Subtracted(j + 1) - e * q = Left
  <2>1. (u - v) * p - carry * p = w * p - e * q
    BY <1>4, <1>5
  <2>2. PICK U \in Int, V \in Int, W \in Int, C \in Int, Q \in Int :
           U = u * p /\ V = v * p /\ W = w * p /\ C = carry * p /\ Q = e * q
    BY <1>2, <1>4
  <2>3. (u - v) * p = U - V /\ (w - u) * p = W - U
    BY <2>2
  <2>4. U - V - C = W - Q
    BY <2>1, <2>2, <2>3
  <2>5. Remainder' = R + (W - U)
    BY <1>8, <2>3
  <2>6. Left = R + S - C /\ Subtracted(j + 1) = S + V
    BY <1>9, <1>10, <2>2
  <2>7. R + (W - U) + (S + V) - Q = R + S - C
    BY <2>2, <2>4
  <2> QED BY <2>2, <2>5, <2>6, <2>7
<1>12. CASE j < Digits - 1 /\ j' = j + 1 /\ phase' = "divsub" /\ time' = time
  <2>1. Subtracted(j)' = Subtracted(j + 1)
    BY <1>1, <1>12 DEF Subtracted, Divisor
  <2>2. Left' = Left
    BY <1>1, <1>5, <1>11, <1>12, <2>1 DEF Left
  <2> QED BY <1>1, <1>7, <1>12, <2>2 DEF DivSum
<1>13. CASE j = Digits - 1 /\ phase' = "div" /\ time' = time + 1
  <2>1. j + 1 = Digits
    BY <1>2, <1>13
  <2>2. PICK B \in Nat : B = Prefix(b, b.len) /\ Subtracted(j + 1) = B
    BY <1>1, <1>2, <2>1, DivisorWorth
  <2>3. Left >= B
    BY <1>1, <2>2 DEF DivSum
  <2>4. PICK T \in Nat : T = Remainder' /\ T < q
    BY <1>5, <1>8, <2>1
  <2>5. T - e * q >= 0
    <3>1. T + B - e * q = Left
      BY <1>11, <2>2, <2>4
    <3>2. e * q \in Int
      BY <1>4
    <3> QED BY <2>3, <3>1, <3>2
  <2>6. e = 0
    <3>1. e = 0 \/ e = 1
      BY <1>4
    <3>2. e = 1 => e * q = q
      OBVIOUS
    <3>3. e # 1
      <4> SUFFICES ASSUME e = 1  PROVE FALSE
        OBVIOUS
      <4>1. T - q >= 0
        BY <2>5, <3>2
      <4> QED BY <1>5, <2>4, <4>1
    <3> QED BY <3>1, <3>3
  <2>7. Left = T + B
    BY <1>11, <2>2, <2>4, <2>6
  <2>8. Left' = T
    BY <1>13, <2>4 DEF Left
  <2>9. ASSUME ~wrapped
        PROVE  BroughtDown = (QuotientSoFar * Base + (time + 1)) * B + T
    <3>1. BroughtDown = (QuotientSoFar * Base + time) * B + (T + B)
      BY <1>1, <2>2, <2>7, <2>9 DEF DivSum
    <3>2. PICK Q \in Int : Q = QuotientSoFar * Base
      BY <1>1, QuotientWorth, BaseAssumption
    <3>3. (Q + (time + 1)) * B + T = (Q + time) * B + (T + B)
      BY <1>2
    <3> QED BY <3>1, <3>2, <3>3
  <2> QED BY <1>1, <1>7, <1>13, <2>2, <2>6, <2>8, <2>9 DEF DivSum
<1> QED BY <1>1, <1>12, <1>13

-----------------------------------------------------------------------------
LEMMA DivStart == ASSUME IInv, DivSum, CalcDiv, IInv', phase' = "div" PROVE DivSum'
<1>1. /\ phase = "call" /\ i' = 0 /\ carry' = 0 /\ time' = 0 /\ b' = b
      /\ a' = AddZero(a, Extension) /\ r' = Temp(QuotientLen, 0, Decimals, 0)
      /\ rem' = IF QuotientLen > 0 THEN Front(a', b.len) ELSE <<>>
  BY DEF CalcDiv, IInv, Looping, DivSum
<1>2. r'.len = QuotientLen
  BY <1>1 DEF Temp
<1>3. Left' = Remainder'
  BY DEF Left
<1>4. /\ Result(a') /\ r'.len \in Nat /\ b'.len \in Nat /\ b'.len > 0 /\ a'.len \in Nat
      /\ r'.len = a'.len - b'.len + 1
  <2>1. Result(a') /\ Number(b') /\ WellFormed(r') /\ b'.len > 0 /\ r'.len = a'.len - b'.len + 1
    BY DEF IInv, TypeOK, Looping, Allocated
  <2> QED BY <2>1 DEF Number, Result, WellFormed
<1>5. QuotientSoFar' = 0
  <2>1. (r'.len - i')..(r'.len - 1) = {}
    BY <1>1, <1>4
  <2> QED BY <2>1, NoTerms DEF QuotientSoFar
<1>6. Digits' = b'.len
  BY <1>1 DEF Digits
<1>7. ASSUME 0 < r'.len  PROVE BroughtDown' = Remainder'
  <2>1. PICK m \in Int, k \in Nat : m = r'.len - 1 /\ k = b'.len
    BY <1>4
  <2>2. PICK d, e : d = a'.data /\ e = rem'
    OBVIOUS
  <2>3. \A q \in 0..(k - 1) : d[q + m] \in Int /\ e[q] = d[q + m]
    <3> SUFFICES ASSUME NEW q \in 0..(k - 1)  PROVE d[q + m] \in Int /\ e[q] = d[q + m]
      OBVIOUS
    <3>1. q + m \in 0..(a'.len - 1)
      BY <1>4, <1>7, <2>1
    <3>2. d[q + m] \in Int
      <4>1. \A z \in 0..(a'.len - 1) : a'.data[z] \in Int
        BY <1>4, DataInt
      <4> QED BY <2>2, <3>1, <4>1
    <3>3. rem' = Front(a', b.len)
      BY <1>1, <1>2, <1>7
    <3>4. q \in 0..(b.len - 1) /\ a'.len - b.len + q = q + m
      BY <1>1, <1>4, <2>1
    <3>5. e[q] = a'.data[a'.len - b.len + q]
      BY <2>2, <3>3, <3>4 DEF Front
    <3> QED BY <2>2, <3>2, <3>4, <3>5
  <2>4. SumFunction(PartTerms(d, m, k)) = Worth(e, k)
    <3>1. PartOf(d, e, m, k)
      BY <2>3 DEF PartOf
    <3> QED BY <2>1, <3>1, WorthPart
  <2>5. m + k - 1 = a'.len - 1 /\ r'.len - 1 - i' = m
    BY <1>1, <1>4, <2>1
  <2>6. BroughtDown' = Worth(e, k)
    BY <2>2, <2>4, <2>5 DEF BroughtDown, PartTerms
  <2>7. Remainder' = Worth(e, k)
    BY <1>6, <2>1, <2>2 DEF Remainder, Worth
  <2> QED BY <2>6, <2>7
<1>8. Prefix(b', b'.len) \in Int /\ (0 < r'.len => Remainder' \in Int)
  <2>1. Result(b')
    BY DEF IInv, TypeOK, Number
  <2>2. Prefix(b', b'.len) \in Nat
    BY <1>4, <2>1, PrefixBound
  <2>3. 0 < r'.len => Remainder' \in Int
    <3> SUFFICES ASSUME 0 < r'.len  PROVE Remainder' \in Int
      OBVIOUS
    <3>1. rem' \in [0..(b'.len - 1) -> Digit]
      BY <1>1, <1>6 DEF IInv, TypeOK
    <3>2. \A q \in 0..(b'.len - 1) : rem'[q] \in Digit
      BY <3>1
    <3>3. Worth(rem', b'.len) \in Nat
      BY <1>4, <3>2, WorthBound
    <3> QED BY <1>6, <3>3 DEF Remainder, Worth
  <2> QED BY <2>2, <2>3
<1>9. 0 < r'.len => BroughtDown' = (QuotientSoFar' * Base + time') * Prefix(b', b'.len) + Left'
  <2> SUFFICES ASSUME 0 < r'.len
               PROVE  BroughtDown' = (QuotientSoFar' * Base + time') * Prefix(b', b'.len) + Left'
    OBVIOUS
  <2>1. (0 * Base + 0) * Prefix(b', b'.len) = 0
    BY <1>8, BaseAssumption
  <2>2. BroughtDown' = 0 + Remainder'
    BY <1>7, <1>8
  <2> QED BY <1>1, <1>3, <1>5, <2>1, <2>2
<1> QED BY <1>1, <1>9 DEF DivSum

-----------------------------------------------------------------------------
\* The part of a number that begins one place lower.
IntegersFrom(d, m, k) == \A q \in 0..k : d[q + m] \in Int

LEMMA PartDown ==
  ASSUME NEW d, NEW m \in Int, NEW k \in Nat, IntegersFrom(d, m, k)
  PROVE  /\ SumFunction(PartTerms(d, m, k + 1)) = d[m] + Base * SumFunction(PartTerms(d, m + 1, k))
         /\ SumFunction(PartTerms(d, m + 1, k)) \in Int
<1>1. PICK e : e = [q \in 0..k |-> d[q + m]]
  OBVIOUS
<1>2. PICK f : f = [q \in 0..(k - 1) |-> d[q + (m + 1)]]
  OBVIOUS
<1>3. \A q \in 0..k : e[q] = d[q + m] /\ e[q] \in Int
  BY <1>1 DEF IntegersFrom
<1>4. \A q \in 0..(k - 1) : f[q] = d[q + (m + 1)] /\ f[q] \in Int /\ e[q + 1] = f[q]
  <2> SUFFICES ASSUME NEW q \in 0..(k - 1)
               PROVE  f[q] = d[q + (m + 1)] /\ f[q] \in Int /\ e[q + 1] = f[q]
    OBVIOUS
  <2>1. q + 1 \in 0..k /\ (q + 1) + m = q + (m + 1)
    OBVIOUS
  <2>2. f[q] = d[q + (m + 1)]
    BY <1>2
  <2>3. e[q + 1] = d[(q + 1) + m] /\ e[q + 1] \in Int
    BY <1>3, <2>1
  <2> QED BY <2>1, <2>2, <2>3
<1>5. SumFunction(PartTerms(d, m, k + 1)) = Worth(e, k + 1)
  <2>1. PICK l \in Nat : l = k + 1
    OBVIOUS
  <2>2. \A q \in 0..(l - 1) : d[q + m] \in Int /\ e[q] = d[q + m]
    <3>1. \A q \in 0..(l - 1) : q \in 0..k
      BY <2>1
    <3> QED BY <1>3, <3>1
  <2>3. PartOf(d, e, m, l)
    BY <2>2 DEF PartOf
  <2>4. SumFunction(PartTerms(d, m, l)) = Worth(e, l)
    BY <2>1, <2>3, WorthPart
  <2> QED BY <2>1, <2>4
<1>6. SumFunction(PartTerms(d, m + 1, k)) = Worth(f, k)
  <2>1. PICK l \in Int : l = m + 1
    OBVIOUS
  <2>2. \A q \in 0..(k - 1) : d[q + l] \in Int /\ f[q] = d[q + l]
    BY <1>4, <2>1
  <2>3. PartOf(d, f, l, k)
    BY <2>2 DEF PartOf
  <2>4. SumFunction(PartTerms(d, l, k)) = Worth(f, k)
    BY <2>1, <2>3, WorthPart
  <2> QED BY <2>1, <2>4
<1>7. Worth(e, k + 1) = Worth(e, 1) + Power[1] * Worth(f, k)
  <2>1. PICK s \in Nat : s = 1
    OBVIOUS
  <2>2. \A q \in 0..(k - 1) : f[q] \in Int /\ e[q + s] = f[q]
    BY <1>4, <2>1
  <2>3. \A q \in 0..(s - 1) : e[q] \in Int
    BY <1>3, <2>1
  <2>4. Worth(e, k + s) = Worth(e, s) + Power[s] * Worth(f, k)
    BY <2>1, <2>2, <2>3, WorthMoved
  <2> QED BY <2>1, <2>4
<1>8. Worth(e, 1) = d[m] /\ Power[1] = Base
  <2>1. Power[0] = 1 /\ Power[0 + 1] = Base * Power[0]
    BY PowerDef
  <2>2. e[0] = d[m] /\ e[0] \in Int
    <3>1. 0 \in 0..k /\ 0 + m = m
      OBVIOUS
    <3> QED BY <1>3, <3>1
  <2>3. Worth(e, 0 + 1) = Worth(e, 0) + e[0] * Power[0]
    <3>1. \A q \in 0..0 : e[q] \in Int
      BY <2>2
    <3> QED BY <3>1, WorthNext
  <2>4. Worth(e, 0) = 0
    BY WorthZero
  <2> QED BY <2>1, <2>2, <2>3, <2>4, BaseAssumption
<1>9. Worth(f, k) \in Int
  BY <1>4, WorthInt
<1> QED BY <1>5, <1>6, <1>7, <1>8, <1>9

LEMMA BroughtParts ==
  ASSUME IInv, phase = "div", i < r.len
  PROVE  BroughtDown = SumFunction(PartTerms(a.data, r.len - 1 - i, b.len + i))
<1>1. (r.len - 1 - i) + (b.len + i) - 1 = a.len - 1
  <2>1. r.len \in Nat /\ i \in Nat /\ b.len \in Nat /\ a.len \in Nat /\ r.len = a.len - b.len + 1
    BY DivFacts
  <2> QED BY <2>1
<1> QED BY <1>1 DEF BroughtDown, PartTerms

LEMMA QuotientParts ==
  ASSUME IInv, phase = "div"
  PROVE  QuotientSoFar = SumFunction(PartTerms(r.data, r.len - i, i))
<1>1. (r.len - i) + i - 1 = r.len - 1
  BY DivFacts
<1> QED BY <1>1 DEF QuotientSoFar, PartTerms

\* The remainder is smaller than the divisor and its highest digit is dropped.
LEMMA RemainderFits ==
  ASSUME IInv, phase = "div", i < r.len, ~Bigger
  PROVE  Remainder = Worth(rem, b.len) /\ \A q \in 0..(b.len - 1) : rem[q] \in Int
<1>1. b.len \in Nat /\ (Digits = b.len \/ Digits = b.len + 1)
  BY DivFacts DEF Digits
<1>2. Remainder = Worth(rem, Digits) /\ \A q \in 0..(Digits - 1) : rem[q] \in Digit
  BY RemainderWorth
<1>3. \A q \in 0..(Digits - 1) : rem[q] \in Int
  <2>1. \A z \in Digit : z \in Int
    BY DigitFacts
  <2> QED BY <1>2, <2>1
<1>4. CASE Digits = b.len
  BY <1>2, <1>3, <1>4
<1>5. CASE Digits = b.len + 1
  <2>1. \A q \in 0..b.len : rem[q] \in Int
    BY <1>1, <1>3, <1>5
  <2>2. Worth(rem, b.len + 1) = Worth(rem, b.len) + rem[b.len] * Power[b.len]
    BY <1>1, <2>1, WorthNext
  <2>3. rem[b.len] = 0
    BY <1>5, BiggerWorth
  <2>4. 0 * Power[b.len] = 0
    BY <1>1, PowerDef
  <2>5. \A q \in 0..(b.len - 1) : rem[q] \in Int
    BY <1>1, <2>1
  <2>6. Worth(rem, b.len) \in Int
    BY <1>1, <2>5, WorthInt
  <2> QED BY <1>2, <1>5, <2>2, <2>3, <2>4, <2>5, <2>6
<1> QED BY <1>1, <1>4, <1>5

-----------------------------------------------------------------------------
LEMMA QuotientDigitSum == ASSUME IInv, DivSum, QuotientDigit PROVE DivSum'
<1>1. /\ phase = "div" /\ phase' = "div" /\ i < r.len /\ ~Bigger /\ i' = i + 1 /\ time' = 0
      /\ r' = [r EXCEPT !.data[r.len - 1 - i] = Char(time)]
      /\ wrapped' = (wrapped \/ Char(time) # time)
      /\ rem' = IF i + 1 = r.len THEN rem
                ELSE [k \in 0..b.len |-> IF k = 0 THEN a.data[r.len - 2 - i] ELSE rem[k - 1]]
      /\ UNCHANGED <<a, b, carry>>
  BY DEF QuotientDigit
<1>2. /\ Result(a) /\ WellFormed(r) /\ i \in Nat /\ r.len \in Nat /\ a.len \in Nat /\ b.len \in Nat
      /\ time \in Nat /\ b.len > 0 /\ r.len = a.len - b.len + 1
  BY <1>1, DivFacts
<1>3. carry' = 0 /\ Left' = Remainder' /\ Left = Remainder
  BY <1>1 DEF DivSum, Left
<1>4. r'.len = r.len /\ r'.data = [r.data EXCEPT ![r.len - 1 - i] = Char(time)]
  BY <1>1, <1>2 DEF WellFormed
<1>5. PICK L \in Nat, h \in Nat, A \in Nat, l \in Nat :
         /\ L = r.len /\ L = r'.len /\ h = i /\ i' = h + 1 /\ A = a.len /\ l = b.len
         /\ h < L /\ L = A - l + 1 /\ l > 0
  BY <1>1, <1>2, <1>4
<1>6. h < L /\ L = A - l + 1 /\ l > 0
  BY <1>5
<1>7. ASSUME i + 1 < r.len, ~wrapped'
      PROVE  BroughtDown' = (QuotientSoFar' * Base + time') * Prefix(b, b.len)' + Left'
  <2>1. ~wrapped /\ Char(time) = time
    BY <1>1, <1>7, Zenon
  <2>2. PICK z : z = a.data[r.len - 2 - i]
    OBVIOUS
  <2>3. BroughtDown' = z + Base * BroughtDown /\ BroughtDown \in Int /\ z \in Int
    <3>1. PICK d : d = a.data
      OBVIOUS
    <3>2. PICK m \in Int, k \in Nat : m = r.len - 2 - i /\ k = b.len + i
      BY <1>2
    <3>3. IntegersFrom(d, m, k)
      <4> SUFFICES ASSUME NEW q \in 0..k  PROVE d[q + m] \in Int
        BY DEF IntegersFrom
      <4>1. q + m \in 0..(a.len - 1)
        BY <1>2, <1>7, <3>2
      <4>2. \A u \in 0..(a.len - 1) : a.data[u] \in Int
        BY <1>2, DataInt
      <4> QED BY <3>1, <4>1, <4>2
    <3>4. /\ SumFunction(PartTerms(d, m, k + 1)) = d[m] + Base * SumFunction(PartTerms(d, m + 1, k))
          /\ SumFunction(PartTerms(d, m + 1, k)) \in Int
      BY <3>2, <3>3, PartDown
    <3>5. m + 1 = r.len - 1 - i
      BY <1>2, <3>2
    <3>6. BroughtDown = SumFunction(PartTerms(d, m + 1, k))
      BY <1>1, <3>1, <3>2, <3>5, BroughtParts
    <3>7. BroughtDown' = SumFunction(PartTerms(d, m, k + 1))
      <4>1. m = L - 2 - h /\ k = l + h
        BY <1>5, <3>2
      <4>2. r'.len - 1 - i' = m /\ m + (k + 1) - 1 = a.len - 1
        <5>1. L - 1 - (h + 1) = m /\ m + (k + 1) - 1 = A - 1
          BY <1>6, <4>1
        <5> QED BY <1>5, <5>1
      <4>3. a' = a
        BY <1>1
      <4> QED BY <3>1, <4>2, <4>3 DEF BroughtDown, PartTerms
    <3>8. d[m] \in Int
      <4>1. 0 \in 0..k /\ 0 + m = m
        BY <3>2
      <4> QED BY <3>3, <4>1 DEF IntegersFrom
    <3> QED BY <2>2, <3>1, <3>2, <3>4, <3>6, <3>7, <3>8
  <2>4. QuotientSoFar' = time + Base * QuotientSoFar
    <3>1. PICK d, e : d = r'.data /\ e = r.data
      OBVIOUS
    <3>2. PICK m \in Int, k \in Nat : m = r.len - 1 - i /\ k = i
      BY <1>2
    <3>3. d[m] = time /\ \A q \in 0..(r.len - 1) : q # m => d[q] = e[q]
      BY <1>1, <1>2, <1>4, <2>1, <3>1, <3>2 DEF WellFormed
    <3>4. \A q \in 0..(r.len - 1) : d[q] \in Int
      <4> SUFFICES ASSUME NEW q \in 0..(r.len - 1)  PROVE d[q] \in Int
        OBVIOUS
      <4>1. e[q] \in Int
        BY <1>2, <3>1 DEF WellFormed
      <4> QED BY <1>2, <3>3, <4>1
    <3>5. IntegersFrom(d, m, k)
      <4> SUFFICES ASSUME NEW q \in 0..k  PROVE d[q + m] \in Int
        BY DEF IntegersFrom
      <4>1. q + m \in 0..(r.len - 1)
        BY <1>1, <1>2, <3>2
      <4> QED BY <3>4, <4>1
    <3>6. SumFunction(PartTerms(d, m, k + 1)) = d[m] + Base * SumFunction(PartTerms(d, m + 1, k))
      BY <3>2, <3>5, PartDown
    <3>7. PartTerms(d, m + 1, k) = PartTerms(e, m + 1, k)
      <4>1. \A q \in (m + 1)..((m + 1) + k - 1) : q \in 0..(r.len - 1) /\ q # m
        <5>1. m = L - 1 - h /\ k = h
          BY <1>5, <3>2
        <5>2. \A q \in (m + 1)..((m + 1) + k - 1) : q \in 0..(L - 1) /\ q # m
          BY <1>6, <5>1
        <5> QED BY <1>5, <5>2
      <4>2. \A q \in (m + 1)..((m + 1) + k - 1) : d[q] = e[q]
        BY <3>3, <4>1
      <4> QED BY <4>2 DEF PartTerms
    <3>8. QuotientSoFar = SumFunction(PartTerms(e, m + 1, k))
      <4>1. m + 1 = r.len - i
        BY <1>2, <3>2
      <4> QED BY <1>1, <3>1, <3>2, <4>1, QuotientParts
    <3>9. QuotientSoFar' = SumFunction(PartTerms(d, m, k + 1))
      <4>1. r'.len - i' = m /\ m + (k + 1) - 1 = r'.len - 1
        <5>1. m = L - 1 - h /\ k = h
          BY <1>5, <3>2
        <5>2. L - (h + 1) = m /\ m + (k + 1) - 1 = L - 1
          BY <5>1
        <5> QED BY <1>5, <5>2
      <4> QED BY <3>1, <4>1 DEF QuotientSoFar, PartTerms
    <3> QED BY <3>3, <3>6, <3>7, <3>8, <3>9
  <2>5. Remainder' = z + Base * Remainder /\ Remainder \in Int
    <3>1. PICK k \in Nat : k = b.len
      BY <1>2
    <3>2. PICK d, e : d = rem /\ e = rem'
      OBVIOUS
    <3>3. Remainder = Worth(d, k) /\ \A q \in 0..(k - 1) : d[q] \in Int
      BY <1>1, <3>1, <3>2, RemainderFits
    <3>4. e = [q \in 0..k |-> IF q = 0 THEN z ELSE d[q - 1]]
      <4>1. i + 1 # r.len
        BY <1>2, <1>7
      <4>2. rem' = [q \in 0..b.len |-> IF q = 0 THEN a.data[r.len - 2 - i] ELSE rem[q - 1]]
        BY <1>1, <4>1
      <4> QED BY <2>2, <3>1, <3>2, <4>2
    <3>5. e[0] = z /\ \A q \in 0..(k - 1) : e[q + 1] = d[q]
      <4>1. 0 \in 0..k
        BY <3>1
      <4>2. \A q \in 0..(k - 1) : q + 1 \in 0..k /\ q + 1 # 0 /\ (q + 1) - 1 = q
        BY <3>1
      <4> QED BY <3>4, <4>1, <4>2
    <3>6. Worth(e, k + 1) = Worth(e, 1) + Power[1] * Worth(d, k)
      <4>1. PICK s \in Nat : s = 1
        OBVIOUS
      <4>2. \A q \in 0..(k - 1) : d[q] \in Int /\ e[q + s] = d[q]
        BY <3>3, <3>5, <4>1
      <4>3. \A q \in 0..(s - 1) : e[q] \in Int
        BY <2>3, <3>5, <4>1
      <4>4. Worth(e, k + s) = Worth(e, s) + Power[s] * Worth(d, k)
        BY <3>1, <4>1, <4>2, <4>3, WorthMoved
      <4> QED BY <4>1, <4>4
    <3>7. Worth(e, 1) = z /\ Power[1] = Base
      <4>1. Power[0] = 1 /\ Power[0 + 1] = Base * Power[0]
        BY PowerDef
      <4>2. Worth(e, 0 + 1) = Worth(e, 0) + e[0] * Power[0]
        <5>1. \A q \in 0..0 : e[q] \in Int
          BY <2>3, <3>5
        <5> QED BY <5>1, WorthNext
      <4>3. Worth(e, 0) = 0
        BY WorthZero
      <4> QED BY <2>3, <3>5, <4>1, <4>2, <4>3, BaseAssumption
    <3>8. Remainder' = Worth(e, k + 1)
      <4>1. Digits' = k + 1 /\ Digits' - 1 = (k + 1) - 1
        BY <1>1, <1>2, <3>1 DEF Digits
      <4> QED BY <3>2, <4>1 DEF Remainder, Worth
    <3>9. Worth(d, k) \in Int
      BY <3>1, <3>3, WorthInt
    <3> QED BY <3>3, <3>6, <3>7, <3>8, <3>9
  <2>6. PICK Q \in Int, B \in Int, R \in Int, T \in Int :
           Q = QuotientSoFar /\ B = Prefix(b, b.len) /\ R = Remainder /\ T = time
    <3>1. QuotientSoFar \in Int
      BY <1>1, QuotientWorth
    <3>2. Prefix(b, b.len) \in Int
      <4>1. Result(b)
        BY <1>1, DivFacts DEF Number
      <4> QED BY <1>2, <4>1, PrefixBound
    <3> QED BY <1>2, <2>5, <3>1, <3>2
  <2>7. BroughtDown = (Q * Base + T) * B + R
    BY <1>1, <1>3, <2>1, <2>6 DEF DivSum
  <2>8. z + Base * ((Q * Base + T) * B + R) = ((T + Base * Q) * Base + 0) * B + (z + Base * R)
    BY <2>3, BaseAssumption
  <2>9. Prefix(b, b.len)' = B
    BY <1>1, <2>6 DEF Prefix
  <2> QED BY <1>1, <1>3, <2>3, <2>4, <2>5, <2>6, <2>7, <2>8, <2>9
<1>8. i' < r'.len => i + 1 < r.len
  BY <1>1, <1>4
<1> QED BY <1>1, <1>3, <1>7, <1>8 DEF DivSum

LEMMA DivKeeps == ASSUME IInv, DivSum, [Next]_vars, IInv' PROVE DivSum'
<1>1. CASE UNCHANGED vars
  BY <1>1 DEF DivSum, vars, loop, division, Left, Remainder, Subtracted, Divisor, Digits, BroughtDown,
              QuotientSoFar, Prefix
<1>2. CASE Next /\ phase' \in {"div", "divsub"}
  <2>1. CASE CalcDiv
    <3>1. phase' = "div"
      BY <1>2, <2>1 DEF CalcDiv
    <3> QED BY <2>1, <3>1, DivStart
  <2> QED BY <1>2, <2>1, IntoDiv, SubtractSum, RemainderDigitSum, QuotientDigitSum
<1>3. CASE Next /\ phase' \in {"read", "call"}
  BY <1>3, IntoCall DEF DivSum
<1>4. CASE phase' \notin {"div", "divsub", "read", "call"}
  BY <1>4 DEF DivSum
<1> QED BY <1>1, <1>2, <1>3, <1>4

LEMMA SumsInvariance == Spec => []Sums
<1>1. Init => Sums
  BY DEF Init, Sums, AddSum, SubSum, MulSum, DivSum
<1>2. IInv /\ Sums /\ [Next]_vars /\ IInv' => Sums'
  BY AddKeeps, SubKeeps, MulKeeps, DivKeeps DEF Sums
<1> QED BY <1>1, <1>2, Invariance, PTL DEF Spec

(***************************************************************************)
(* For every base, all numbers and at every step of the four loops: the    *)
(* digits written so far and the carry, or the borrow, are the sum, the    *)
(* difference, or the product of what has been read, and a division has    *)
(* brought down quotient times divisor plus remainder.                     *)
(***************************************************************************)
THEOREM PartialSums == Spec => []PartialResults
<1>1. ASSUME IInv, Sums  PROVE PartialResults
  <2>1. phase = "div" /\ i < r.len /\ ~wrapped =>
          BroughtDown = (QuotientSoFar * Base + time) * Prefix(b, b.len) + Remainder
    BY <1>1 DEF Sums, DivSum, Left
  <2>2. phase = "sub" /\ ~outside => Total(a, i) - Total(b, i) = Prefix(r, i) - carry * Power[i]
    BY <1>1 DEF Sums, SubSum
  <2>3. phase = "mul" /\ i < b.len =>
          Prefix(r, r.len) + carry * Power[i + j] =
            Prefix(a, a.len) * Prefix(b, i) + b.data[i] * Prefix(a, IF j < a.len THEN j ELSE a.len) * Power[i]
    BY <1>1 DEF Sums, MulSum, Upto
  <2>4. ASSUME phase = "add"
        PROVE  Total(a, i) + Total(b, i) =
                 Prefix(r, i) + (IF i < AddTimes(a, b) \/ i = 0 THEN carry ELSE r.data[i]) * Power[i]
    <3>1. i \in Nat /\ AddTimes(a, b) \in Nat /\ i <= AddTimes(a, b) /\ r.len = AddTimes(a, b) + 1
      BY <1>1, <2>4, LoopFacts DEF IInv, Looping, Allocated
    <3>2. CASE i < AddTimes(a, b) \/ i = 0
      BY <1>1, <2>4, <3>2 DEF Sums, AddSum
    <3>3. CASE ~(i < AddTimes(a, b) \/ i = 0)
      <4>1. i = AddTimes(a, b) /\ i \in 0..(r.len - 1)
        BY <3>1, <3>3
      <4>2. r.data[i] = carry
        BY <1>1, <2>4, <3>1, <4>1 DEF Sums, AddSum
      <4> QED BY <1>1, <2>4, <3>3, <4>2 DEF Sums, AddSum
    <3> QED BY <3>2, <3>3
  <2> QED BY <2>1, <2>2, <2>3, <2>4 DEF PartialResults
<1>2. IInv /\ Sums => PartialResults
  BY <1>1
<1> QED BY <1>2, Invariance, SumsInvariance, PTL

-----------------------------------------------------------------------------
(***************************************************************************)
(* cmp: if it puts a in front of b, and a has no zero as its first digit   *)
(* before the point, then a is not smaller.                                *)
(***************************************************************************)
LEMMA WorthMonotone ==
  ASSUME NEW d, NEW e, NEW n \in Nat,
         \A q \in 0..(n - 1) : d[q] \in Int /\ e[q] \in Int /\ d[q] >= e[q]
  PROVE  Worth(d, n) >= Worth(e, n)
<1>1. PICK T : T = {q \in Nat : Worth(d, q) >= Worth(e, q)}
  OBVIOUS
<1>2. 0 \in T
  BY <1>1, WorthZero
<1>3. \A q \in 0..(n - 1) : q \in T => q + 1 \in T
  <2> SUFFICES ASSUME NEW q \in 0..(n - 1), q \in T  PROVE q + 1 \in T
    OBVIOUS
  <2>1. \A z \in 0..q : d[z] \in Int /\ e[z] \in Int
    OBVIOUS
  <2>2. q \in Nat /\ Power[q] \in Nat
    BY PowerDef
  <2>3. /\ Worth(d, q + 1) = Worth(d, q) + d[q] * Power[q]
        /\ Worth(e, q + 1) = Worth(e, q) + e[q] * Power[q]
    BY <2>1, <2>2, WorthNext
  <2>4. Worth(d, q) \in Int /\ Worth(e, q) \in Int
    BY <2>1, <2>2, WorthInt
  <2>5. Worth(d, q) >= Worth(e, q)
    BY <1>1
  <2>6. PICK p \in Nat, u \in Int, v \in Int : p = Power[q] /\ u = d[q] /\ v = e[q] /\ u >= v
    BY <2>2
  <2>7. u * p >= v * p /\ u * p \in Int /\ v * p \in Int
    BY <2>6
  <2>8. Worth(d, q + 1) >= Worth(e, q + 1)
    BY <2>3, <2>4, <2>5, <2>6, <2>7
  <2> QED BY <1>1, <2>2, <2>8
<1>4. \A q \in 0..n : q \in T
  BY <1>2, <1>3, Upward
<1> QED BY <1>1, <1>4

\* What cmp says of two numbers with as many digits before the point.
FirstDiffer(m, n, k) ==
  /\ k \in Differ(m, n) /\ \A q \in Differ(m, n) : k <= q
  /\ CmpMagnitude(m, n) = IF k > m.len THEN -1
                          ELSE IF k > n.len THEN 1
                          ELSE IF m.data[m.len - k] > n.data[n.len - k] THEN 1 ELSE -1

LEMMA CmpFirst ==
  ASSUME NEW m, NEW n, Integer(m) = Integer(n)
  PROVE  \/ Differ(m, n) = {} /\ CmpMagnitude(m, n) = 0
         \/ \E k \in Nat : FirstDiffer(m, n, k)
<1>1. CASE Differ(m, n) = {}
  BY <1>1 DEF CmpMagnitude
<1>2. CASE Differ(m, n) # {}
  <2>1. Differ(m, n) \subseteq Nat
    BY DEF Differ
  <2>2. \E k \in Differ(m, n) : \A q \in Differ(m, n) : k <= q
    BY <1>2, <2>1, LeastNatural
  <2>3. PICK k : k = First(Differ(m, n))
    OBVIOUS
  <2>4. k \in Differ(m, n) /\ \A q \in Differ(m, n) : k <= q
    BY <2>2, <2>3 DEF First
  <2>5. CmpMagnitude(m, n) = IF k > m.len THEN -1
                             ELSE IF k > n.len THEN 1
                             ELSE IF m.data[m.len - k] > n.data[n.len - k] THEN 1 ELSE -1
    BY <1>2, <2>3 DEF CmpMagnitude
  <2>6. FirstDiffer(m, n, k)
    BY <2>4, <2>5 DEF FirstDiffer
  <2>7. k \in Nat
    BY <2>1, <2>4
  <2> QED BY <2>6, <2>7
<1> QED BY <1>1, <1>2

\* The digits of a and b agree above digit k from the highest one, and there a
\* has the larger one, or b has none.
Agree(k) == \A q \in 1..(k - 1) : q <= a.len /\ q <= b.len /\ a.data[a.len - q] = b.data[b.len - q]
LeadsAt(k) == \/ k > b.len
              \/ k <= a.len /\ k <= b.len /\ a.data[a.len - k] > b.data[b.len - k]

LEMMA TimesSymmetric == ASSUME Number(a), Number(b) PROVE AddTimes(b, a) = AddTimes(a, b)
<1>1. PICK p \in Nat : p = a.point
  BY NumberFacts
<1>2. PICK q \in Nat : q = b.point
  BY NumberFacts
<1>3. PICK m \in Nat : m = Integer(a)
  BY NumberFacts
<1>4. PICK n \in Nat : n = Integer(b)
  BY NumberFacts
<1>5. Max2(p, q) = Max2(q, p) /\ Max2(m, n) = Max2(n, m)
  BY DEF Max2
<1> QED BY <1>1, <1>2, <1>3, <1>4, <1>5 DEF AddTimes

LEMMA SameAbove ==
  ASSUME Number(a), Number(b), NEW k \in Nat, k <= AddTimes(a, b) + 1,
         NEW D, D = Differ(a, b) \/ D = Differ(b, a), \A q \in D : k <= q
  PROVE  Agree(k)
<1> SUFFICES ASSUME NEW q \in 1..(k - 1)
             PROVE  q <= a.len /\ q <= b.len /\ a.data[a.len - q] = b.data[b.len - q]
  BY DEF Agree
<1>1. AddTimes(a, b) \in Nat /\ AddTimes(b, a) = AddTimes(a, b) /\ a.len \in Nat /\ b.len \in Nat
  BY TimesSymmetric, NumberFacts
<1>2. q \in 1..AddTimes(a, b) /\ ~(k <= q)
  BY <1>1
<1>3. q \notin D
  BY <1>2
<1> QED BY <1>1, <1>2, <1>3 DEF Differ

LEMMA CmpLeads ==
  ASSUME Number(a), Number(b), Integer(a) = Integer(b), a.sign = 0, b.sign = 0, Ordered
  PROVE  \E k \in Nat : k >= 1 /\ k <= AddTimes(a, b) + 1 /\ Agree(k) /\ (k = AddTimes(a, b) + 1 \/ LeadsAt(k))
<1>1. PICK t \in Nat : t = AddTimes(a, b) /\ t = AddTimes(b, a)
  BY TimesSymmetric, NumberFacts
<1>2. a.len \in Nat /\ b.len \in Nat /\ a.data \in [0..(a.len - 1) -> Digit] /\ b.data \in [0..(b.len - 1) -> Digit]
  BY DEF Number, Result, WellFormed
<1>3. CmpMagnitude(a, b) >= 0 \/ CmpMagnitude(b, a) < 0
  BY DEF Ordered, Cmp
<1>4. CASE Differ(a, b) = {} \/ Differ(b, a) = {}
  <2>1. Agree(t + 1)
    BY <1>1, <1>4, SameAbove
  <2> QED BY <1>1, <2>1
<1>5. ASSUME NEW k \in Nat, FirstDiffer(a, b, k), CmpMagnitude(a, b) >= 0
      PROVE  k >= 1 /\ k <= t /\ Agree(k) /\ LeadsAt(k)
  <2>1. k \in 1..t /\ \A q \in Differ(a, b) : k <= q
    BY <1>1, <1>5 DEF FirstDiffer, Differ
  <2>2. Agree(k)
    BY <1>1, <2>1, SameAbove
  <2>3. LeadsAt(k)
    BY <1>2, <1>5 DEF FirstDiffer, LeadsAt
  <2> QED BY <2>1, <2>2, <2>3
<1>6. ASSUME NEW k \in Nat, FirstDiffer(b, a, k), CmpMagnitude(b, a) < 0
      PROVE  k >= 1 /\ k <= t /\ Agree(k) /\ LeadsAt(k)
  <2>1. k \in 1..t /\ \A q \in Differ(b, a) : k <= q
    BY <1>1, <1>6 DEF FirstDiffer, Differ
  <2>2. Agree(k)
    BY <1>1, <2>1, SameAbove
  <2>3. LeadsAt(k)
    <3>1. CASE k > b.len
      BY <3>1 DEF LeadsAt
    <3>2. CASE ~(k > b.len)
      <4>1. ~(k > a.len)
        BY <1>2, <1>6, <3>2 DEF FirstDiffer
      <4>2. ~(b.data[b.len - k] > a.data[a.len - k])
        BY <1>6, <3>2, <4>1 DEF FirstDiffer
      <4>3. b.data[b.len - k] # a.data[a.len - k]
        BY <1>2, <1>6, <3>2, <4>1 DEF FirstDiffer, Differ
      <4>4. b.len - k \in 0..(b.len - 1) /\ a.len - k \in 0..(a.len - 1)
        BY <1>2, <2>1, <3>2, <4>1
      <4>5. \A z \in Digit : z \in Int
        BY DigitFacts
      <4>6. b.data[b.len - k] \in Int /\ a.data[a.len - k] \in Int
        BY <1>2, <4>4, <4>5
      <4> QED BY <1>2, <3>2, <4>1, <4>2, <4>3, <4>6 DEF LeadsAt
    <3> QED BY <3>1, <3>2
  <2> QED BY <2>1, <2>2, <2>3
<1>7. \/ CmpMagnitude(a, b) >= 0 /\ ~(CmpMagnitude(a, b) < 0)
      \/ CmpMagnitude(b, a) < 0
  <2>1. CmpMagnitude(a, b) \in {-1, 0, 1}
    BY DEF CmpMagnitude
  <2> QED BY <1>3, <2>1
<1>8. CASE CmpMagnitude(a, b) >= 0 /\ Differ(a, b) # {}
  BY <1>1, <1>5, <1>8, CmpFirst
<1>9. CASE CmpMagnitude(b, a) < 0 /\ Differ(b, a) # {}
  BY <1>1, <1>6, <1>9, CmpFirst
<1> QED BY <1>4, <1>7, <1>8, <1>9

\* The loops find the k-th highest digit of the number n at this place.
LEMMA DigitAbove ==
  ASSUME Number(a), Number(b), r.point = Max2(a.point, b.point),
         NEW n, n \in {a, b}, Integer(n) = Max2(Integer(a), Integer(b)), NEW k \in 1..AddTimes(a, b)
  PROVE  DigitOf(n, AddTimes(a, b) - k) = IF k <= n.len THEN n.data[n.len - k] ELSE 0
<1>1. n.len \in Nat /\ n.point \in Nat /\ Number(n)
  BY NumberFacts
<1>2. PICK p \in Nat : p = Max2(a.point, b.point)
  BY NumberFacts
<1>3. AddTimes(a, b) = p + (n.len - n.point) /\ r.point = p
  BY <1>2 DEF AddTimes, Integer
<1>4. At(n, AddTimes(a, b) - k) = n.len - k
  BY <1>1, <1>3 DEF At
<1>5. Has(n, AddTimes(a, b) - k) <=> k <= n.len
  BY <1>1, <1>4 DEF Has
<1> QED BY <1>4, <1>5 DEF DigitOf

\* The number with more digits before the point is larger if the first of them is not zero.
LEMMA LongerIsLarger ==
  ASSUME Number(a), Number(b), r.point = Max2(a.point, b.point), Integer(a) > Integer(b), Normal(a)
  PROVE  Total(a, AddTimes(a, b)) >= Total(b, AddTimes(a, b))
<1>1. PICK t \in Nat : t = AddTimes(a, b)
  BY NumberFacts
<1>2. /\ a.len \in Nat /\ b.len \in Nat /\ a.point \in Nat /\ b.point \in Nat
      /\ Integer(a) \in Nat /\ Integer(b) \in Nat /\ a.data \in [0..(a.len - 1) -> Digit]
  BY NumberFacts DEF Number, Result, WellFormed
<1>3. PICK p \in Nat : p = Max2(a.point, b.point)
  BY NumberFacts
<1>4. t = p + Integer(a) /\ r.point = p /\ p >= a.point
  BY <1>1, <1>2, <1>3 DEF AddTimes, Max2
<1>5. Integer(a) = a.len - a.point /\ Integer(b) = b.len - b.point
  BY DEF Integer
<1>6. PICK m \in Nat : m = Integer(a) /\ m = a.len - a.point /\ m > 0 /\ m > b.len - b.point /\ t = p + m
  BY <1>2, <1>4, <1>5
<1>7. PICK la \in Nat, pa \in Nat : la = a.len /\ pa = a.point
  BY <1>2
<1>8. PICK lb \in Nat, pb \in Nat : lb = b.len /\ pb = b.point
  BY <1>2
<1>9. m = la - pa /\ m > 0 /\ m > lb - pb /\ t = p + m
  BY <1>6, <1>7, <1>8
<1>10. t - 1 \in 0..(t - 1) /\ a.len - 1 \in 0..(a.len - 1)
  <2>1. t >= 1 /\ la >= 1
    BY <1>6, <1>7, <1>9
  <2>2. t - 1 \in 0..(t - 1) /\ la - 1 \in 0..(la - 1)
    BY <2>1
  <2> QED BY <1>7, <2>2
<1>11. At(a, t - 1) = a.len - 1 /\ At(b, t - 1) >= b.len
  <2>1. pa + (t - 1) - p = la - 1 /\ pb + (t - 1) - p >= lb
    BY <1>6, <1>7, <1>8, <1>9
  <2> QED BY <1>4, <1>7, <1>8, <2>1 DEF At
<1>12. DigitOf(a, t - 1) = a.data[a.len - 1] /\ DigitOf(b, t - 1) = 0
  BY <1>2, <1>10, <1>11 DEF DigitOf, Has
<1>13. a.data[a.len - 1] > 0
  <2>1. a.data[a.len - 1] # 0
    BY <1>2 DEF Normal
  <2>2. \A z \in Digit : z # 0 => z > 0
    BY BaseAssumption DEF Digit
  <2> QED BY <1>2, <1>10, <2>1, <2>2
<1>14. PICK d, e : d = AlignedDigits(a, t) /\ e = AlignedDigits(b, t)
  OBVIOUS
<1>15. \A q \in 0..(t - 1) : d[q] = DigitOf(a, q) /\ e[q] = DigitOf(b, q) /\ d[q] \in Digit /\ e[q] \in Digit
  BY <1>14, DigitOfType DEF AlignedDigits
<1>16. AboveEqual(d, e, t - 1, t)
  BY <1>10 DEF AboveEqual
<1>17. d[t - 1] > e[t - 1]
  BY <1>10, <1>12, <1>13, <1>15
<1>18. Worth(d, t) > Worth(e, t)
  BY <1>10, <1>15, <1>16, <1>17, WorthLess
<1>19. Worth(d, t) \in Nat /\ Worth(e, t) \in Nat
  BY <1>15, WorthBound
<1> QED BY <1>1, <1>14, <1>18, <1>19, TotalWorth

LEMMA LeadingIsLarger ==
  ASSUME Number(a), Number(b), r.point = Max2(a.point, b.point), Integer(a) = Integer(b),
         a.sign = 0, b.sign = 0, Ordered
  PROVE  Total(a, AddTimes(a, b)) >= Total(b, AddTimes(a, b))
<1>1. PICK t \in Nat : t = AddTimes(a, b)
  BY NumberFacts
<1>2. PICK d, e : d = AlignedDigits(a, t) /\ e = AlignedDigits(b, t)
  OBVIOUS
<1>3. \A q \in 0..(t - 1) : d[q] = DigitOf(a, q) /\ e[q] = DigitOf(b, q) /\ d[q] \in Digit /\ e[q] \in Digit
  BY <1>2, DigitOfType DEF AlignedDigits
<1>4. Total(a, t) = Worth(d, t) /\ Total(b, t) = Worth(e, t) /\ Worth(d, t) \in Nat /\ Worth(e, t) \in Nat
  BY <1>2, <1>3, TotalWorth, WorthBound
<1>5. \A q \in 0..(t - 1) : /\ d[q] \in Int /\ d[q] >= 0 /\ e[q] \in Int
                            /\ d[q] = IF t - q <= a.len THEN a.data[a.len - (t - q)] ELSE 0
                            /\ e[q] = IF t - q <= b.len THEN b.data[b.len - (t - q)] ELSE 0
  <2> SUFFICES ASSUME NEW q \in 0..(t - 1)
               PROVE  /\ d[q] \in Int /\ d[q] >= 0 /\ e[q] \in Int
                      /\ d[q] = IF t - q <= a.len THEN a.data[a.len - (t - q)] ELSE 0
                      /\ e[q] = IF t - q <= b.len THEN b.data[b.len - (t - q)] ELSE 0
    OBVIOUS
  <2>1. Max2(Integer(a), Integer(b)) = Integer(a) /\ Max2(Integer(a), Integer(b)) = Integer(b)
    BY DEF Max2
  <2>2. PICK k \in 1..t : k = t - q
    BY <1>1
  <2>3. t - k = q
    BY <1>1, <2>2
  <2>4. DigitOf(a, q) = IF k <= a.len THEN a.data[a.len - k] ELSE 0
    BY <1>1, <2>1, <2>2, <2>3, DigitAbove
  <2>5. DigitOf(b, q) = IF k <= b.len THEN b.data[b.len - k] ELSE 0
    BY <1>1, <2>1, <2>2, <2>3, DigitAbove
  <2>6. \A z \in Digit : z \in Int /\ z >= 0
    BY BaseAssumption DEF Digit
  <2> QED BY <1>3, <2>2, <2>4, <2>5, <2>6
<1>6. PICK k \in Nat : k >= 1 /\ k <= t + 1 /\ Agree(k) /\ (k = t + 1 \/ LeadsAt(k))
  BY <1>1, CmpLeads
<1>7. \A q \in 0..(t - 1) : q > t - k => d[q] = e[q]
  <2> SUFFICES ASSUME NEW q \in 0..(t - 1), q > t - k  PROVE d[q] = e[q]
    OBVIOUS
  <2>1. PICK l \in 1..(k - 1) : l = t - q
    BY <1>1, <1>6
  <2>2. l <= a.len /\ l <= b.len /\ a.data[a.len - l] = b.data[b.len - l]
    BY <1>6, <2>1 DEF Agree
  <2> QED BY <1>5, <2>1, <2>2
<1>8. CASE k = t + 1 \/ k > b.len
  <2>1. \A q \in 0..(t - 1) : d[q] >= e[q]
    <3> SUFFICES ASSUME NEW q \in 0..(t - 1)  PROVE d[q] >= e[q]
      OBVIOUS
    <3>1. CASE q > t - k
      BY <1>5, <1>7, <3>1
    <3>2. CASE ~(q > t - k)
      <4>1. b.len \in Nat
        BY NumberFacts
      <4>2. ~(t - q <= b.len)
        BY <1>1, <1>6, <1>8, <3>2, <4>1
      <4> QED BY <1>5, <4>2
    <3> QED BY <3>1, <3>2
  <2>2. Worth(d, t) >= Worth(e, t)
    BY <1>5, <2>1, WorthMonotone
  <2> QED BY <1>1, <1>4, <2>2
<1>9. CASE k # t + 1 /\ ~(k > b.len)
  <2>1. k <= a.len /\ k <= b.len /\ a.data[a.len - k] > b.data[b.len - k]
    BY <1>6, <1>9 DEF LeadsAt
  <2>2. PICK q \in 0..(t - 1) : q = t - k
    BY <1>1, <1>6, <1>9
  <2>3. t - q = k
    BY <1>1, <2>2
  <2>4. d[q] > e[q]
    BY <1>5, <2>1, <2>3
  <2>5. AboveEqual(d, e, q, t)
    BY <1>7, <2>2 DEF AboveEqual
  <2>6. Worth(d, t) > Worth(e, t)
    BY <1>3, <2>4, <2>5, WorthLess
  <2> QED BY <1>1, <1>4, <2>6
<1> QED BY <1>8, <1>9

LEMMA NoBorrow ==
  ASSUME IInv, SubSum, phase = "print", op = "-", Normal(a)
  PROVE  carry = 0
<1>1. Number(a) /\ Number(b) /\ Integer(a) \in Nat /\ Integer(b) \in Nat
  BY LoopFacts
<1>2. PICK t \in Nat : t = AddTimes(a, b)
  BY LoopFacts
<1>3. /\ i = t /\ carry \in 0..1 /\ r.point = Max2(a.point, b.point) /\ a.sign = 0 /\ b.sign = 0 /\ Ordered
      /\ Total(a, t) - Total(b, t) + carry * Power[t] \in 0..(Power[t] - 1)
  BY <1>2 DEF SubSum
<1>4. Integer(a) >= Integer(b)
  BY <1>1, <1>3, CmpInteger DEF Ordered
<1>5. Total(a, t) >= Total(b, t)
  BY <1>1, <1>2, <1>3, <1>4, LongerIsLarger, LeadingIsLarger
<1>6. PICK u \in Nat : u = Total(a, t)
  BY <1>1, TotalBound
<1>7. PICK v \in Nat : v = Total(b, t)
  BY <1>1, TotalBound
<1>8. PICK p \in Nat : p = Power[t]
  BY PowerType
<1>9. CASE carry = 1
  <2>1. carry * Power[t] = p
    BY <1>8, <1>9
  <2> QED BY <1>3, <1>5, <1>6, <1>7, <1>8, <2>1
<1> QED BY <1>3, <1>9

(***************************************************************************)
(* For every base and all numbers whose first digit before the point is    *)
(* not zero: cmp has put them in order, so that sub_impl ends without a    *)
(* borrow, and a subtraction of the divisor in calc_div leaves none.       *)
(***************************************************************************)
THEOREM BorrowsPaid == Spec => []NoBorrowLeft
<1>1. IInv /\ Sums => NoBorrowLeft
  BY NoBorrow DEF Sums, DivSum, NoBorrowLeft
<1> QED BY <1>1, Invariance, SumsInvariance, PTL

-----------------------------------------------------------------------------
(***************************************************************************)
(* make_bignumber_fromstr: the number read is worth what the text says.    *)
(***************************************************************************)
LEMMA LeadingAreZero ==
  ASSUME NEW s \in Seq(Digit)
  PROVE  LeadingZeros(s) \in 0..Len(s) /\ \A q \in 1..LeadingZeros(s) : s[q] = 0
<1>1. PICK n \in Nat : n = Len(s)
  OBVIOUS
<1>2. PICK Z : Z = {k \in 1..n : \A q \in 1..k : s[q] = 0}
  OBVIOUS
<1>3. LeadingZeros(s) = Cardinality(Z)
  BY <1>1, <1>2 DEF LeadingZeros
<1>4. \A m \in Nat : IsFiniteSet(1..m) /\ Cardinality(1..m) = m
  <2> SUFFICES ASSUME NEW m \in Nat  PROVE IsFiniteSet(1..m) /\ Cardinality(1..m) = m
    OBVIOUS
  <2>1. 1 \in Int /\ m \in Int /\ (1 > m => m = 0) /\ m - 1 + 1 = m
    OBVIOUS
  <2>2. IsFiniteSet(1..m) /\ Cardinality(1..m) = IF 1 > m THEN 0 ELSE m - 1 + 1
    BY <2>1, FS_Interval
  <2> QED BY <2>1, <2>2
<1>5. \A m \in Nat : Z \subseteq 1..m => Cardinality(Z) \in 0..m
  <2> SUFFICES ASSUME NEW m \in Nat, Z \subseteq 1..m  PROVE Cardinality(Z) \in 0..m
    OBVIOUS
  <2>1. IsFiniteSet(Z) /\ Cardinality(Z) <= Cardinality(1..m)
    BY <1>4, FS_Subset
  <2>2. Cardinality(Z) \in Nat
    BY <2>1, FS_CardinalityType
  <2> QED BY <1>4, <2>1, <2>2
<1>6. Cardinality(Z) \in 0..n
  <2>1. Z \subseteq 1..n
    BY <1>2
  <2> QED BY <1>5, <2>1
<1>7. ASSUME NEW q \in 1..Cardinality(Z), s[q] # 0  PROVE FALSE
  <2>1. q \in Nat /\ q - 1 \in Nat
    BY <1>6
  <2>2. Z \subseteq 1..(q - 1)
    BY <1>2, <1>7, <2>1
  <2>3. Cardinality(Z) \in 0..(q - 1)
    BY <1>5, <2>1, <2>2
  <2> QED BY <1>6, <2>1, <2>3
<1> QED BY <1>1, <1>3, <1>6, <1>7

\* The digits of a text from its end, and their sum as TextValue writes it.
Backwards(d, n) == [k \in 0..(n - 1) |-> d[n - k]]
TextTerms(d, n) == [q \in 1..n |-> d[q] * Power[n - q]]

LEMMA BackwardsWorth ==
  ASSUME NEW d, NEW n \in Nat, \A q \in 1..n : d[q] \in Int
  PROVE  SumFunction(TextTerms(d, n)) = Worth(Backwards(d, n), n)
<1>1. PICK f, g : f = TextTerms(d, n) /\ g = Terms(Backwards(d, n), n)
  OBVIOUS
<1>2. PICK b0 : b0 = [q \in 1..n |-> n - q]
  OBVIOUS
<1>3. \A q \in 1..n : /\ n - q \in 0..(n - 1) /\ n - (n - q) = q
                      /\ f[q] = d[q] * Power[n - q] /\ f[q] \in Int /\ g[n - q] = f[q]
  <2> SUFFICES ASSUME NEW q \in 1..n
               PROVE  /\ n - q \in 0..(n - 1) /\ n - (n - q) = q
                      /\ f[q] = d[q] * Power[n - q] /\ f[q] \in Int /\ g[n - q] = f[q]
    OBVIOUS
  <2>1. n - q \in 0..(n - 1) /\ n - (n - q) = q /\ n - q \in Nat
    OBVIOUS
  <2>2. f[q] = d[q] * Power[n - q]
    BY <1>1 DEF TextTerms
  <2>3. Power[n - q] \in Nat
    BY <2>1, PowerType
  <2>4. g[n - q] = Backwards(d, n)[n - q] * Power[n - q]
    BY <1>1, <2>1 DEF Terms
  <2>5. Backwards(d, n)[n - q] = d[q]
    BY <2>1 DEF Backwards
  <2> QED BY <2>1, <2>2, <2>3, <2>4, <2>5
<1>4. Corresponds(f, 1..n, g, 0..(n - 1), b0)
  <2>1. b0 \in [1..n -> 0..(n - 1)]
    BY <1>2, <1>3
  <2>2. \A q, z \in 1..n : b0[q] = b0[z] => q = z
    BY <1>2
  <2>3. \A z \in 0..(n - 1) : \E q \in 1..n : b0[q] = z
    <3> SUFFICES ASSUME NEW z \in 0..(n - 1)  PROVE \E q \in 1..n : b0[q] = z
      OBVIOUS
    <3>1. n - z \in 1..n /\ n - (n - z) = z
      OBVIOUS
    <3> QED BY <1>2, <3>1
  <2>4. \A q \in 1..n : f[q] \in Int /\ g[b0[q]] = f[q]
    BY <1>2, <1>3
  <2> QED BY <2>1, <2>2, <2>3, <2>4 DEF Corresponds
<1>5. IsFiniteSet(1..n)
  BY FS_Interval
<1>6. SumFunctionOnSet(f, 1..n) = SumFunctionOnSet(g, 0..(n - 1))
  BY <1>4, <1>5, SumReindex
<1>7. SumFunction(f) = SumFunctionOnSet(f, 1..n)
  BY <1>1, SumOver DEF TextTerms
<1>8. Worth(Backwards(d, n), n) = SumFunctionOnSet(g, 0..(n - 1))
  BY <1>1, WorthSum
<1> QED BY <1>1, <1>6, <1>7, <1>8

LEMMA FromStrData ==
  ASSUME NEW t
  PROVE  FromStr(t).data = [k \in 0..(FromStr(t).len - 1) |->
                              IF k < Appended(t) THEN 0
                              ELSE (t.int \o t.frac)[Len(t.int \o t.frac) - (k - Appended(t))]]
<1> DEFINE digits == t.int \o t.frac
           zeros == Appended(t)
           len == Len(digits) - LeadingZeros(t.int) + zeros
           point == IF Len(t.frac) <= t.exp THEN 0 ELSE Len(t.frac) - t.exp
           data == [k \in 0..(len - 1) |-> IF k < zeros THEN 0 ELSE digits[Len(digits) - (k - zeros)]]
<1>1. FromStr(t) = [sign |-> t.sign, len |-> len, point |-> point, sci |-> zeros, data |-> data]
  BY DEF FromStr
<1>2. PICK F, m : F = data /\ m = len
  OBVIOUS
<1>3. FromStr(t).len = m /\ FromStr(t).data = F
  <2> HIDE DEF data, len
  <2> QED BY <1>1, <1>2
<1> QED BY <1>2, <1>3

LEMMA TextPrefix ==
  ASSUME NEW t \in Texts, NEW d, d = t.int \o t.frac
  PROVE  /\ Len(d) \in Nat /\ SumFunction(TextTerms(d, Len(d))) \in Nat
         /\ Prefix(FromStr(t), FromStr(t).len) = SumFunction(TextTerms(d, Len(d))) * Power[Appended(t)]
         /\ Appended(t) \in Nat
<1>1. t.int \in Seq(Digit) /\ t.frac \in Seq(Digit) /\ t.exp \in Nat
  BY TextsAssumption
<1>2. PICK n \in Nat : n = Len(d) /\ n >= Len(t.int)
  <2>1. Len(t.int) \in Nat /\ Len(t.frac) \in Nat /\ Len(d) = Len(t.int) + Len(t.frac)
    BY <1>1, Joined
  <2>2. \A u, v \in Nat : u + v \in Nat /\ u + v >= u
    OBVIOUS
  <2>3. Len(d) \in Nat /\ Len(d) >= Len(t.int)
    BY <2>1, <2>2
  <2> QED BY <2>3
<1>3. PICK z \in Nat : z = Appended(t)
  BY <1>1, Joined DEF Appended
<1>4. PICK w \in Nat : w = LeadingZeros(t.int) /\ w <= n
  <2>1. LeadingZeros(t.int) \in 0..Len(t.int) /\ Len(t.int) \in Nat
    BY <1>1, LeadingAreZero
  <2>2. \A u, v \in Nat : \A k \in 0..u : v >= u => k \in Nat /\ k <= v
    OBVIOUS
  <2>3. LeadingZeros(t.int) \in Nat /\ LeadingZeros(t.int) <= n
    BY <1>2, <2>1, <2>2
  <2> QED BY <2>3
<1>5. \A q \in 1..n : d[q] \in Digit /\ (q <= w => d[q] = 0)
  <2> SUFFICES ASSUME NEW q \in 1..n  PROVE d[q] \in Digit /\ (q <= w => d[q] = 0)
    OBVIOUS
  <2>1. d[q] \in Digit
    BY <1>1, <1>2, Joined
  <2>2. ASSUME q <= w  PROVE d[q] = 0
    <3>1. q \in 1..LeadingZeros(t.int) /\ LeadingZeros(t.int) \in 0..Len(t.int)
      BY <1>1, <1>4, <2>2, LeadingAreZero
    <3>2. q \in 1..Len(t.int)
      BY <1>1, <3>1
    <3>3. d[q] = t.int[q]
      <4>1. \A u \in Seq(Digit), v \in Seq(Digit) : \A k \in 1..Len(u) : (u \o v)[k] = u[k]
        OBVIOUS
      <4> QED BY <1>1, <3>2, <4>1
    <3> QED BY <1>1, <3>1, <3>3, LeadingAreZero
  <2> QED BY <2>1, <2>2
<1>6. PICK e : e = Backwards(d, n)
  OBVIOUS
<1>7. \A q \in 0..(n - 1) : e[q] = d[n - q] /\ e[q] \in Digit /\ (q >= n - w => e[q] = 0)
  <2> SUFFICES ASSUME NEW q \in 0..(n - 1)
               PROVE  e[q] = d[n - q] /\ e[q] \in Digit /\ (q >= n - w => e[q] = 0)
    OBVIOUS
  <2>1. n - q \in 1..n /\ (q >= n - w => n - q <= w)
    BY <1>4
  <2>2. e[q] = d[n - q]
    BY <1>6 DEF Backwards
  <2> QED BY <1>5, <2>1, <2>2
<1>8. \A c \in Digit : c \in Int
  BY DigitFacts
<1>9. \A q \in 0..(n - 1) : e[q] \in Int
  BY <1>7, <1>8
<1>10. PICK l \in Nat : l = n - w
  BY <1>4
<1>11. Worth(e, n) = Worth(e, l) /\ Worth(e, n) \in Nat
  <2>1. \A q \in 0..(l - 1) : e[q] \in Int
    BY <1>9, <1>10
  <2>2. \A q \in l..(n - 1) : e[q] = 0
    <3>1. \A q \in l..(n - 1) : q \in 0..(n - 1) /\ q >= n - w
      BY <1>10
    <3> QED BY <1>7, <3>1
  <2>3. l <= n
    BY <1>10
  <2>4. Worth(e, n) \in Nat
    BY <1>7, WorthBound
  <2> QED BY <2>1, <2>2, <2>3, <2>4, WorthZeros
<1>12. PICK h : h = FromStr(t).data
  OBVIOUS
<1>13. FromStr(t).len = l + z
  BY <1>2, <1>3, <1>4, <1>10 DEF FromStr
<1>14. \A k \in 0..(l + z - 1) : h[k] = IF k < z THEN 0 ELSE d[n - (k - z)]
  <2>1. FromStr(t).len - 1 = l + z - 1
    BY <1>13
  <2>2. h = [k \in 0..(FromStr(t).len - 1) |-> IF k < Appended(t) THEN 0
                                               ELSE (t.int \o t.frac)[Len(t.int \o t.frac) - (k - Appended(t))]]
    BY <1>12, FromStrData
  <2>3. PICK c : c = t.int \o t.frac
    OBVIOUS
  <2>4. c = d /\ Len(c) = n
    BY <1>2, <2>3
  <2> QED BY <1>3, <2>1, <2>2, <2>3, <2>4
<1>15. \A q \in 0..(z - 1) : h[q] = 0
  <2>1. \A q \in 0..(z - 1) : q \in 0..(l + z - 1) /\ q < z
    OBVIOUS
  <2> QED BY <1>14, <2>1
<1>16. \A q \in 0..(l - 1) : e[q] \in Int /\ h[q + z] = e[q]
  <2> SUFFICES ASSUME NEW q \in 0..(l - 1)  PROVE e[q] \in Int /\ h[q + z] = e[q]
    OBVIOUS
  <2>1. q \in 0..(n - 1) /\ q + z \in 0..(l + z - 1) /\ ~(q + z < z) /\ (q + z) - z = q
    BY <1>10
  <2> QED BY <1>7, <1>9, <1>14, <2>1
<1>17. Worth(h, l + z) = Worth(h, z) + Power[z] * Worth(e, l)
  <2>1. \A q \in 0..(z - 1) : h[q] \in Int
    BY <1>15
  <2> QED BY <1>16, <2>1, WorthMoved
<1>18. Worth(h, z) = 0
  <2>1. \A q \in 0..(z - 1) : h[q] = 0
    BY <1>15
  <2>2. Worth(h, z) = Worth(h, 0)
    <3>1. \A q \in 0..(0 - 1) : h[q] \in Int
      OBVIOUS
    <3> QED BY <2>1, <3>1, WorthZeros
  <2> QED BY <2>2, WorthZero
<1>19. Prefix(FromStr(t), FromStr(t).len) = Worth(e, n) * Power[z]
  <2>1. Power[z] \in Nat
    BY PowerType
  <2>2. Prefix(FromStr(t), FromStr(t).len) = Worth(h, l + z)
    BY <1>12, <1>13, PrefixWorth
  <2>3. \A u, v \in Nat : 0 + u * v = v * u
    OBVIOUS
  <2> QED BY <1>11, <1>17, <1>18, <2>1, <2>2, <2>3
<1>20. SumFunction(TextTerms(d, n)) = Worth(e, n)
  <2>1. \A q \in 1..n : d[q] \in Int
    BY <1>5, <1>8
  <2> QED BY <1>6, <2>1, BackwardsWorth
<1> QED BY <1>2, <1>3, <1>11, <1>19, <1>20

LEMMA TextMeans ==
  ASSUME NEW t \in Texts, NEW p \in Nat, p >= Len(t.frac)
  PROVE  /\ TextValue(t, p) = Value(FromStr(t), p)
         /\ FromStr(t).point \in 0..Len(t.frac) /\ FromStr(t).sign = t.sign
         /\ Len(t.frac) \in Nat
<1>1. t.frac \in Seq(Digit) /\ t.exp \in Nat
  BY TextsAssumption
<1>2. PICK f \in Nat, k \in Nat : f = Len(t.frac) /\ k = t.exp
  BY <1>1
<1>3. PICK d : d = t.int \o t.frac
  OBVIOUS
<1>4. PICK n \in Nat, s \in Nat, z \in Nat :
        /\ n = Len(d) /\ s = SumFunction(TextTerms(d, n)) /\ z = Appended(t)
        /\ Prefix(FromStr(t), FromStr(t).len) = s * Power[z]
  BY <1>3, TextPrefix
<1>5. FromStr(t).point = (IF f <= k THEN 0 ELSE f - k) /\ FromStr(t).sign = t.sign
  BY <1>2 DEF FromStr
<1>6. z = IF f <= k THEN k - f ELSE 0
  BY <1>2, <1>4 DEF Appended
<1>7. PICK g \in Nat : g = FromStr(t).point /\ g <= f
  BY <1>2, <1>5
<1>8. PICK u \in Nat : u = p - g
  BY <1>2, <1>7
<1>9. p + k - f = z + u
  BY <1>2, <1>5, <1>6, <1>7, <1>8
<1>10. Power[p + k - f] = Power[z] * Power[u] /\ Power[z] \in Nat /\ Power[u] \in Nat
  BY <1>9, PowerSum, PowerType
<1>11. s * (Power[z] * Power[u]) = (s * Power[z]) * Power[u]
  BY <1>10
<1>12. TextValue(t, p) = Signed(t.sign, s * Power[p + k - f])
  BY <1>2, <1>3, <1>4 DEF TextValue, TextTerms
<1>13. Value(FromStr(t), p) = Signed(t.sign, (s * Power[z]) * Power[u])
  BY <1>4, <1>5, <1>7, <1>8 DEF Value, Magnitude
<1> QED BY <1>2, <1>5, <1>7, <1>10, <1>11, <1>12, <1>13

-----------------------------------------------------------------------------
(***************************************************************************)
(* What the loops have computed at their end, as values.                   *)
(***************************************************************************)
Outer == IF sign = None THEN r.sign ELSE sign      \* the sign that the result will have

Near == a.point <= Places /\ b.point <= Places

LEMMA AlignedValue ==
  ASSUME Number(a), Number(b), r.point = Max2(a.point, b.point), NEW n, n \in {a, b}
  PROVE  /\ r.point - n.point \in Nat
         /\ Total(n, AddTimes(a, b)) = Prefix(n, n.len) * Power[r.point - n.point]
<1>1. Number(n) /\ Result(n)
  BY DEF Number
<1>2. PICK p \in Nat : p = Max2(a.point, b.point)
  BY NumberFacts
<1>3. PICK m \in Nat : m = Max2(Integer(a), Integer(b))
  <2>1. Integer(a) \in Nat /\ Integer(b) \in Nat
    BY NumberFacts
  <2> QED BY <2>1 DEF Max2
<1>4. PICK t \in Nat : t = AddTimes(a, b) /\ t = p + m
  BY <1>2, <1>3 DEF AddTimes
<1>5. PICK l \in Nat, k \in Nat, v \in Nat : l = n.len /\ k = n.point /\ v = Integer(n) /\ v = l - k
  <2>1. n.len \in Nat /\ n.point \in Nat /\ Integer(n) \in Nat
    BY <1>1, NumberFacts
  <2> QED BY <2>1 DEF Integer
<1>6. p >= k /\ m >= v
  <2>1. a.point \in Nat /\ b.point \in Nat /\ Integer(a) \in Nat /\ Integer(b) \in Nat
    BY NumberFacts
  <2>2. \A u, w \in Nat : Max2(u, w) >= u /\ Max2(u, w) >= w
    BY DEF Max2
  <2> QED BY <1>2, <1>3, <1>5, <2>1, <2>2
<1>7. PICK s \in Nat : s = p - k
  BY <1>6
<1>8. l + s \in Nat /\ l + s <= t
  BY <1>4, <1>5, <1>6, <1>7
<1>9. PICK d, e : d = n.data /\ e = AlignedDigits(n, t)
  OBVIOUS
<1>10. \A q \in 0..(t - 1) : e[q] = IF q - s \in 0..(l - 1) THEN d[q - s] ELSE 0
  <2> SUFFICES ASSUME NEW q \in 0..(t - 1)
               PROVE  e[q] = IF q - s \in 0..(l - 1) THEN d[q - s] ELSE 0
    OBVIOUS
  <2>1. At(n, q) = q - s
    <3>1. At(n, q) = k + q - p
      BY <1>2, <1>5 DEF At
    <3> QED BY <1>7, <3>1
  <2>2. e[q] = DigitOf(n, q)
    BY <1>9 DEF AlignedDigits
  <2> QED BY <1>5, <1>9, <2>1, <2>2 DEF DigitOf, Has
<1>11. \A q \in 0..(l - 1) : d[q] \in Int /\ e[q + s] = d[q]
  <2> SUFFICES ASSUME NEW q \in 0..(l - 1)  PROVE d[q] \in Int /\ e[q + s] = d[q]
    OBVIOUS
  <2>1. q + s \in 0..(t - 1) /\ (q + s) - s = q
    BY <1>8
  <2>2. d[q] \in Int
    BY <1>1, <1>5, <1>9, DataInt
  <2> QED BY <1>10, <2>1, <2>2
<1>12. \A q \in 0..(s - 1) : e[q] = 0
  <2>1. \A q \in 0..(s - 1) : q \in 0..(t - 1) /\ q - s \notin 0..(l - 1)
    BY <1>8
  <2> QED BY <1>10, <2>1
<1>13. \A q \in (l + s)..(t - 1) : e[q] = 0
  <2>1. \A q \in (l + s)..(t - 1) : q \in 0..(t - 1) /\ q - s \notin 0..(l - 1)
    BY <1>8
  <2> QED BY <1>10, <2>1
<1>14. \A q \in 0..(l + s - 1) : e[q] \in Int
  <2> SUFFICES ASSUME NEW q \in 0..(l + s - 1)  PROVE e[q] \in Int
    OBVIOUS
  <2>1. CASE q \in 0..(s - 1)
    BY <1>12, <2>1
  <2>2. CASE q \notin 0..(s - 1)
    <3>1. q - s \in 0..(l - 1) /\ (q - s) + s = q
      BY <2>2
    <3>2. e[(q - s) + s] = d[q - s] /\ d[q - s] \in Int
      BY <1>11, <3>1
    <3> QED BY <3>1, <3>2
  <2> QED BY <2>1, <2>2
<1>15. Worth(e, l + s) = Worth(e, s) + Power[s] * Worth(d, l)
  <2>1. \A q \in 0..(s - 1) : e[q] \in Int
    BY <1>12
  <2> QED BY <1>11, <2>1, WorthMoved
<1>16. Worth(e, s) = 0
  <2>1. Worth(e, s) = Worth(e, 0)
    <3>1. \A q \in 0..(0 - 1) : e[q] \in Int
      OBVIOUS
    <3> QED BY <1>12, <3>1, WorthZeros
  <2> QED BY <2>1, WorthZero
<1>17. Worth(e, t) = Worth(e, l + s)
  BY <1>8, <1>13, <1>14, WorthZeros
<1>18. Worth(d, l) \in Int /\ Power[s] \in Int
  <2>1. \A q \in 0..(l - 1) : d[q] \in Int
    BY <1>11
  <2> QED BY <2>1, WorthInt, PowerType
<1>19. Total(n, t) = Worth(e, t)
  BY <1>9, TotalWorth
<1>20. Prefix(n, n.len) = Worth(d, l)
  BY <1>5, <1>9, PrefixWorth
<1>21. r.point - n.point = s
  BY <1>2, <1>5, <1>7
<1> QED BY <1>4, <1>15, <1>16, <1>17, <1>18, <1>19, <1>20, <1>21

\* In the units of the result.
LEMMA MagnitudeTotal ==
  ASSUME Number(a), Number(b), r.point = Max2(a.point, b.point), Near, Places \in Nat, NEW n, n \in {a, b}
  PROVE  /\ Places - r.point \in Nat
         /\ Magnitude(n, Places) = Total(n, AddTimes(a, b)) * Power[Places - r.point]
         /\ Total(n, AddTimes(a, b)) \in Nat
<1>1. PICK p \in Nat, k \in Nat, h \in Nat : p = r.point /\ k = n.point /\ h = Places /\ h >= p /\ p >= k
  <2>1. a.point \in Nat /\ b.point \in Nat
    BY NumberFacts
  <2>2. Max2(a.point, b.point) \in Nat /\ Places >= Max2(a.point, b.point)
    BY <2>1 DEF Max2, Near
  <2>3. r.point - n.point \in Nat
    BY AlignedValue
  <2>4. \A u, v \in Nat : u - v \in Nat => u >= v
    OBVIOUS
  <2>5. n.point \in Nat
    BY <2>1
  <2> QED BY <2>2, <2>3, <2>4, <2>5
<1>2. PICK s \in Nat, u \in Nat : s = p - k /\ u = h - p /\ h - k = s + u
  BY <1>1
<1>3. Power[s + u] = Power[s] * Power[u] /\ Power[s] \in Nat /\ Power[u] \in Nat
  BY <1>2, PowerSum, PowerType
<1>4. Prefix(n, n.len) \in Nat /\ AddTimes(a, b) \in Nat
  <2>1. Result(n) /\ n.len \in Nat
    BY NumberFacts DEF Number
  <2> QED BY <2>1, PrefixBound, NumberFacts
<1>5. Total(n, AddTimes(a, b)) = Prefix(n, n.len) * Power[s]
  BY <1>1, <1>2, AlignedValue
<1>6. Magnitude(n, Places) = Prefix(n, n.len) * Power[s + u]
  BY <1>1, <1>2 DEF Magnitude
<1>7. \A x1, x2, x3 \in Nat : x1 * (x2 * x3) = (x1 * x2) * x3 /\ x1 * x2 \in Nat
  OBVIOUS
<1> QED BY <1>1, <1>2, <1>3, <1>4, <1>5, <1>6, <1>7

LEMMA PlacesType == ASSUME IInv PROVE Places \in Nat /\ Len(x.frac) \in Nat /\ Len(y.frac) \in Nat
<1>1. x.frac \in Seq(Digit) /\ y.frac \in Seq(Digit)
  BY TextsAssumption DEF IInv
<1>2. Len(x.frac) \in Nat /\ Len(y.frac) \in Nat
  BY <1>1
<1>3. \A u, v, w \in Nat : u + v + w \in Nat
  OBVIOUS
<1> QED BY <1>2, <1>3, DivisionAssumption DEF Places

LEMMA AddEnd ==
  ASSUME IInv, AddSum, phase = "add", i = AddTimes(a, b), Near
  PROVE  Magnitude(r, Places) = Magnitude(a, Places) + Magnitude(b, Places)
<1>1. PICK t \in Nat : t = i /\ t = AddTimes(a, b)
  BY LoopFacts DEF IInv, Looping
<1>2. /\ Number(a) /\ Number(b) /\ Result(r) /\ carry \in Nat /\ r.len = t + 1 /\ r.point = Max2(a.point, b.point)
  BY <1>1, LoopFacts DEF IInv, Looping, Allocated
<1>3. Prefix(r, t + 1) = Prefix(r, t) + r.data[t] * Power[t]
  BY <1>1, <1>2, PrefixNext
<1>4. r.data[t] = carry
  BY <1>1, <1>2 DEF AddSum
<1>5. Total(a, t) + Total(b, t) = Prefix(r, r.len)
  BY <1>1, <1>2, <1>3, <1>4 DEF AddSum
<1>6. Places \in Nat
  BY PlacesType
<1>7. PICK u \in Nat, v \in Nat, c \in Nat : u = Total(a, t) /\ v = Total(b, t) /\ c = Power[Places - r.point]
  BY <1>1, <1>2, <1>6, MagnitudeTotal, PowerType
<1>8. Magnitude(a, Places) = u * c /\ Magnitude(b, Places) = v * c
  BY <1>1, <1>2, <1>6, <1>7, MagnitudeTotal
<1>9. Magnitude(r, Places) = (u + v) * c
  BY <1>5, <1>7 DEF Magnitude
<1>10. (u + v) * c = u * c + v * c
  OBVIOUS
<1> QED BY <1>8, <1>9, <1>10

LEMMA SubEndValue ==
  ASSUME IInv, SubSum, phase = "sub", i = AddTimes(a, b), Near, i <= r.len, ~outside, carry = 0
  PROVE  Magnitude(r, Places) = Magnitude(a, Places) - Magnitude(b, Places)
<1>1. PICK t \in Nat : t = i /\ t = AddTimes(a, b)
  BY LoopFacts DEF IInv, Looping
<1>2. /\ Number(a) /\ Number(b) /\ Result(r) /\ r.len = a.len /\ r.point = Max2(a.point, b.point)
  BY LoopFacts DEF IInv, Looping, Allocated
<1>3. t = r.len
  <2>1. PICK p \in Nat, m \in Nat : p = Max2(a.point, b.point) /\ m = Max2(Integer(a), Integer(b)) /\ p >= a.point /\ m >= Integer(a)
    <3>1. a.point \in Nat /\ b.point \in Nat /\ Integer(a) \in Nat /\ Integer(b) \in Nat
      BY <1>2, NumberFacts
    <3>2. \A u, w \in Nat : Max2(u, w) >= u /\ Max2(u, w) \in Nat
      BY DEF Max2
    <3> QED BY <3>1, <3>2
  <2>2. t = p + m
    BY <1>1, <2>1 DEF AddTimes
  <2>3. PICK u \in Nat, v \in Nat : u = a.len /\ v = a.point
    BY <1>2, NumberFacts
  <2>4. Integer(a) = u - v
    BY <2>3 DEF Integer
  <2>5. t <= u
    BY <1>1, <1>2, <2>3
  <2>6. t >= u
    BY <2>1, <2>2, <2>3, <2>4
  <2> QED BY <1>2, <2>3, <2>5, <2>6
<1>4. Total(a, t) - Total(b, t) = Prefix(r, r.len)
  <2>1. Total(a, t) - Total(b, t) = Prefix(r, t) - 0 * Power[t]
    BY <1>1 DEF SubSum
  <2>2. Prefix(r, t) \in Nat /\ Power[t] \in Nat
    BY <1>2, <1>3, PrefixBound, PowerType
  <2>3. 0 * Power[t] = 0
    BY <2>2
  <2>4. PICK u \in Nat, v \in Nat : u = Total(a, t) /\ v = Total(b, t)
    BY <1>2, TotalBound
  <2> QED BY <1>3, <2>1, <2>2, <2>3, <2>4
<1>5. Places \in Nat
  BY PlacesType
<1>6. PICK u \in Nat, v \in Nat, c \in Nat : u = Total(a, t) /\ v = Total(b, t) /\ c = Power[Places - r.point]
  BY <1>1, <1>2, <1>5, MagnitudeTotal, PowerType
<1>7. Magnitude(a, Places) = u * c /\ Magnitude(b, Places) = v * c
  BY <1>1, <1>2, <1>5, <1>6, MagnitudeTotal
<1>8. Magnitude(r, Places) = (u - v) * c
  BY <1>4, <1>6 DEF Magnitude
<1>9. (u - v) * c = u * c - v * c
  OBVIOUS
<1> QED BY <1>7, <1>8, <1>9

LEMMA MulEnd ==
  ASSUME IInv, MulSum, phase = "mul", i = b.len
  PROVE  Prefix(r, r.len) = Prefix(a, a.len) * Prefix(b, b.len) /\ r.point = a.point + b.point
<1>1. r.point = a.point + b.point /\ i \in Nat /\ Number(a) /\ Number(b) /\ Result(r)
  BY LoopFacts DEF IInv, Looping, Allocated
<1>2. j = 0 /\ carry = 0
  BY DEF MulSum
<1>3. Prefix(r, r.len) + 0 * Power[i + 0] = Prefix(a, a.len) * Prefix(b, b.len) + 0
  <2>1. ~(i < b.len)
    BY <1>1
  <2>2. PICK c : c = i + j
    OBVIOUS
  <2>3. Prefix(r, r.len) + carry * Power[c] = Prefix(a, a.len) * Prefix(b, i) + 0
    BY <2>1, <2>2 DEF MulSum
  <2> QED BY <1>2, <2>2, <2>3
<1>4. PICK u \in Nat, v \in Nat, w \in Nat : u = Prefix(r, r.len) /\ v = Prefix(a, a.len) /\ w = Prefix(b, b.len)
  <2>1. Result(a) /\ Result(b) /\ a.len \in Nat /\ b.len \in Nat /\ r.len \in Nat
    BY <1>1 DEF Number, Result, WellFormed
  <2> QED BY <1>1, <2>1, PrefixBound
<1>5. 0 * Power[i + 0] = 0
  <2>1. i + 0 \in Nat
    BY <1>1
  <2> QED BY <2>1, PowerType
<1>6. v * w \in Nat
  OBVIOUS
<1> QED BY <1>1, <1>3, <1>4, <1>5, <1>6

-----------------------------------------------------------------------------
(***************************************************************************)
(* The end of a division.                                                  *)
(***************************************************************************)
LEMMA ZeroWorth ==
  ASSUME NEW n, Result(n)
  PROVE  Prefix(n, n.len) \in Nat /\ (JudgeZero(n) <=> Prefix(n, n.len) > 0)
<1>1. PICK l \in Nat : l = n.len
  BY DEF Result, WellFormed
<1>2. PICK d : d = n.data
  OBVIOUS
<1>3. \A q \in 0..(l - 1) : d[q] \in Digit /\ d[q] \in Int
  BY <1>1, <1>2, DataInt
<1>4. Prefix(n, n.len) = Worth(d, l) /\ Worth(d, l) \in Nat
  BY <1>1, <1>2, <1>3, PrefixWorth, WorthBound
<1>5. ASSUME ~JudgeZero(n)  PROVE Worth(d, l) = 0
  <2>1. \A q \in 0..(l - 1) : d[q] = 0
    BY <1>1, <1>2, <1>5 DEF JudgeZero
  <2>2. Worth(d, l) = Worth(d, 0)
    <3>1. \A q \in 0..(0 - 1) : d[q] \in Int
      OBVIOUS
    <3> QED BY <2>1, <3>1, WorthZeros
  <2> QED BY <2>2, WorthZero
<1>6. ASSUME NEW k \in 0..(l - 1), d[k] # 0  PROVE Worth(d, l) > 0
  <2>1. PICK f, S : f = Terms(d, l) /\ S = 0..(l - 1)
    OBVIOUS
  <2>2. Worth(d, l) = SumFunctionOnSet(f, S) /\ IsFiniteSet(S)
    BY <2>1, WorthSum
  <2>3. \A q \in S : f[q] \in Nat /\ f[q] = d[q] * Power[q]
    <3> SUFFICES ASSUME NEW q \in 0..(l - 1)  PROVE f[q] \in Nat /\ f[q] = d[q] * Power[q]
      BY <2>1
    <3>1. f[q] = d[q] * Power[q]
      BY <2>1 DEF Terms
    <3>2. \A z \in Digit : z \in Nat
      BY DigitFacts
    <3>3. d[q] \in Nat /\ Power[q] \in Nat
      BY <1>3, <3>2, PowerType
    <3> QED BY <3>1, <3>3
  <2>4. SumFunctionOnSet(f, S) = f[k] + SumFunctionOnSet(f, S \ {k})
    <3>1. \A q \in S : f[q] \in Int
      BY <2>3
    <3>2. PICK g : g = k
      OBVIOUS
    <3>3. g \in S
      BY <2>1, <3>2
    <3>4. SumFunctionOnSet(f, S) = f[g] + SumFunctionOnSet(f, S \ {g})
      BY <2>2, <3>1, <3>3, SumRemove
    <3> QED BY <3>2, <3>4
  <2>5. SumFunctionOnSet(f, S \ {k}) \in Nat
    <3>1. IsFiniteSet(S \ {k})
      BY <2>2, FS_Difference
    <3> QED BY <2>3, <3>1, SumNat
  <2>6. f[k] > 0
    <3>1. PICK u \in Nat, v \in Nat \ {0} : u = d[k] /\ v = Power[k] /\ u > 0
      <4>1. \A z \in Digit : z \in Nat /\ (z # 0 => z > 0)
        BY BaseAssumption DEF Digit
      <4>2. d[k] \in Digit /\ k \in Nat
        BY <1>3
      <4> QED BY <1>6, <4>1, <4>2, PowerType
    <3>2. u * v > 0
      BY <3>1
    <3>3. k \in S
      BY <2>1
    <3> QED BY <2>3, <3>1, <3>2, <3>3
  <2>7. f[k] \in Nat
    BY <2>1, <2>3
  <2> QED BY <2>2, <2>4, <2>5, <2>6, <2>7
<1>7. JudgeZero(n) => \E k \in 0..(l - 1) : d[k] # 0
  BY <1>1, <1>2 DEF JudgeZero
<1> QED BY <1>4, <1>5, <1>6, <1>7

\* add_zero multiplies by a power of the base, or cuts digits off.
LEMMA MovedWorth ==
  ASSUME NEW n, Result(n), NEW v \in Int, n.len + v \in Nat, NEW m, m = AddZero(n, v)
  PROVE  /\ m.len = n.len + v /\ m.point = n.point /\ m.sign = n.sign
         /\ v >= 0 => Prefix(m, m.len) = Prefix(n, n.len) * Power[v]
         /\ v < 0 => \E low \in Nat : /\ low < Power[-v]
                                      /\ Prefix(n, n.len) = low + Prefix(m, m.len) * Power[-v]
<1>1. WellFormed(n)
  BY DEF Result
<1>2. PICK l \in Nat, k \in Nat : l = n.len /\ k = l + v
  BY <1>1 DEF WellFormed
<1>3. m = [sign |-> n.sign, len |-> k, point |-> n.point, sci |-> n.sci, data |-> Moved(n, v)]
  BY <1>1, <1>2, AddZeroFields
<1>4. m.len = k /\ m.point = n.point /\ m.sign = n.sign /\ m.data = Moved(n, v)
  BY <1>3
<1>5. PICK d, e : d = n.data /\ e = m.data
  OBVIOUS
<1>6. \A q \in 0..(l - 1) : d[q] \in Digit /\ d[q] \in Int
  BY <1>2, <1>5, DataInt
<1>7. \A q \in 0..(k - 1) : e[q] = IF q < v THEN 0 ELSE d[q - v]
  BY <1>2, <1>4, <1>5 DEF Moved
<1>8. Prefix(n, n.len) = Worth(d, l) /\ Prefix(m, m.len) = Worth(e, k) /\ Worth(d, l) \in Nat
  BY <1>2, <1>4, <1>5, <1>6, PrefixWorth, WorthBound
<1>9. ASSUME v >= 0  PROVE Worth(e, k) = Worth(d, l) * Power[v]
  <2>1. v \in Nat /\ k = l + v
    BY <1>2, <1>9
  <2>2. \A q \in 0..(l - 1) : d[q] \in Int /\ e[q + v] = d[q]
    <3> SUFFICES ASSUME NEW q \in 0..(l - 1)  PROVE d[q] \in Int /\ e[q + v] = d[q]
      OBVIOUS
    <3>1. q + v \in 0..(k - 1) /\ ~(q + v < v) /\ (q + v) - v = q
      BY <2>1
    <3> QED BY <1>6, <1>7, <3>1
  <2>3. \A q \in 0..(v - 1) : e[q] = 0
    <3>1. \A q \in 0..(v - 1) : q \in 0..(k - 1) /\ q < v
      BY <2>1
    <3> QED BY <1>7, <3>1
  <2>4. Worth(e, l + v) = Worth(e, v) + Power[v] * Worth(d, l)
    <3>1. \A q \in 0..(v - 1) : e[q] \in Int
      BY <2>3
    <3> QED BY <2>1, <2>2, <3>1, WorthMoved
  <2>5. Worth(e, v) = 0
    <3>1. Worth(e, v) = Worth(e, 0)
      <4>1. \A q \in 0..(0 - 1) : e[q] \in Int
        OBVIOUS
      <4> QED BY <2>1, <2>3, <4>1, WorthZeros
    <3> QED BY <3>1, WorthZero
  <2>6. \A u, w \in Nat : 0 + u * w = w * u
    OBVIOUS
  <2>7. Power[v] \in Nat
    BY <2>1, PowerType
  <2> QED BY <1>8, <2>1, <2>4, <2>5, <2>6, <2>7
<1>10. ASSUME v < 0
       PROVE  \E low \in Nat : low < Power[-v] /\ Worth(d, l) = low + Worth(e, k) * Power[-v]
  <2>1. PICK s \in Nat : s = -v /\ l = k + s
    BY <1>2, <1>10
  <2>2. \A q \in 0..(k - 1) : e[q] \in Int /\ d[q + s] = e[q]
    <3> SUFFICES ASSUME NEW q \in 0..(k - 1)  PROVE e[q] \in Int /\ d[q + s] = e[q]
      OBVIOUS
    <3>1. q + s \in 0..(l - 1) /\ ~(q < v) /\ q - v = q + s
      BY <1>10, <2>1
    <3> QED BY <1>6, <1>7, <3>1
  <2>3. \A q \in 0..(s - 1) : d[q] \in Digit /\ d[q] \in Int
    BY <1>6, <2>1
  <2>4. Worth(d, k + s) = Worth(d, s) + Power[s] * Worth(e, k)
    BY <2>2, <2>3, WorthMoved
  <2>5. Worth(d, s) \in Nat /\ Worth(d, s) < Power[s]
    BY <2>3, WorthBound
  <2>6. Worth(e, k) \in Int /\ Power[s] \in Int
    BY <2>2, WorthInt, PowerType
  <2>7. \A u, w \in Int : u * w = w * u
    OBVIOUS
  <2> QED BY <2>1, <2>4, <2>5, <2>6, <2>7
<1> QED BY <1>2, <1>4, <1>8, <1>9, <1>10

\* bigger says no only if the divisor does not go into the remainder.
LEMMA SmallerWorth ==
  ASSUME IInv, phase = "div", i < r.len, ~Bigger
  PROVE  Remainder < Prefix(b, b.len)
<1>1. PICK n \in Nat : n = Digits /\ n > 0 /\ n >= b.len
  BY DivFacts DEF Digits
<1>2. PICK d, e : d = rem /\ e = DivisorDigits
  OBVIOUS
<1>3. \A q \in 0..(n - 1) : d[q] \in Digit /\ e[q] \in Digit /\ e[q] = Divisor(q)
  BY <1>1, <1>2, RemainderWorth, DivFacts DEF DivisorDigits
<1>4. Remainder = Worth(d, n) /\ Prefix(b, b.len) = Worth(e, n)
  <2>1. Subtracted(n) = Prefix(b, b.len) /\ Subtracted(n) = Worth(DivisorDigits, n)
    BY <1>1, DivisorWorth, DivFacts
  <2> QED BY <1>1, <1>2, <2>1, RemainderWorth
<1>5. PICK differ : differ = {k \in 0..(n - 1) : d[k] # e[k]}
  OBVIOUS
<1>6. ~(differ = {} \/ \E k \in differ : (\A q \in differ : q <= k) /\ d[k] > e[k])
  <2>1. differ = {k \in 0..(Digits - 1) : rem[k] # Divisor(k)}
    BY <1>1, <1>2, <1>3, <1>5
  <2>2. \A k \in differ : e[k] = Divisor(k)
    BY <1>3, <1>5
  <2> QED BY <1>2, <2>1, <2>2 DEF Bigger
<1>7. \E k \in differ : \A q \in differ : q <= k
  <2>1. PICK T : T = {n - 1 - q : q \in differ}
    OBVIOUS
  <2>2. T \subseteq Nat /\ T # {}
    <3>1. \A q \in differ : n - 1 - q \in Nat
      BY <1>5
    <3> QED BY <1>6, <2>1, <3>1
  <2>3. PICK h \in T : \A q \in T : h <= q
    BY <2>2, LeastNatural
  <2>4. PICK k \in differ : h = n - 1 - k
    BY <2>1, <2>3
  <2>5. \A q \in differ : q <= k
    <3> SUFFICES ASSUME NEW q \in differ  PROVE q <= k
      OBVIOUS
    <3>1. n - 1 - q \in T
      BY <2>1
    <3>2. n - 1 - k <= n - 1 - q
      BY <2>3, <2>4, <3>1
    <3>3. q \in Int /\ k \in Int
      BY <1>5
    <3> QED BY <3>2, <3>3
  <2> QED BY <2>5
<1>8. PICK k \in differ : \A q \in differ : q <= k
  BY <1>7
<1>9. k \in 0..(n - 1) /\ e[k] > d[k]
  <2>1. k \in 0..(n - 1) /\ d[k] # e[k] /\ ~(d[k] > e[k])
    BY <1>5, <1>6, <1>8
  <2>2. \A z \in Digit : z \in Int
    BY DigitFacts
  <2>3. d[k] \in Int /\ e[k] \in Int
    BY <1>3, <2>1, <2>2
  <2> QED BY <2>1, <2>3
<1>10. AboveEqual(e, d, k, n)
  <2> SUFFICES ASSUME NEW q \in (k + 1)..(n - 1)  PROVE e[q] = d[q]
    BY DEF AboveEqual
  <2>1. q \in 0..(n - 1) /\ ~(q <= k)
    BY <1>9
  <2> QED BY <1>5, <1>8, <2>1
<1>11. Worth(e, n) > Worth(d, n)
  BY <1>3, <1>9, <1>10, WorthLess
<1>12. Worth(e, n) \in Nat /\ Worth(d, n) \in Nat
  BY <1>3, WorthBound
<1> QED BY <1>4, <1>11, <1>12

\* A whole division: the last digit of the quotient leaves the remainder.
Divided == Prefix(a, a.len) - Prefix(r, r.len) * Prefix(b, b.len) \in 0..(Prefix(b, b.len) - 1)

LEMMA QuotientNext ==
  ASSUME IInv, QuotientDigit, Char(time) = time
  PROVE  QuotientSoFar' = time + Base * QuotientSoFar
<1>1. /\ phase = "div" /\ i < r.len /\ i' = i + 1
      /\ r' = [r EXCEPT !.data[r.len - 1 - i] = Char(time)]
  BY DEF QuotientDigit
<1>2. /\ WellFormed(r) /\ i \in Nat /\ r.len \in Nat /\ time \in Nat
  BY <1>1, DivFacts
<1>3. r'.len = r.len /\ r'.data = [r.data EXCEPT ![r.len - 1 - i] = time]
  BY <1>1, <1>2 DEF WellFormed
<1>4. PICK L \in Nat, h \in Nat : L = r.len /\ L = r'.len /\ h = i /\ i' = h + 1 /\ h < L
  BY <1>1, <1>2, <1>3
<1>5. PICK d, e : d = r'.data /\ e = r.data
  OBVIOUS
<1>6. PICK m \in Int, k \in Nat : m = L - 1 - h /\ k = h
  BY <1>4
<1>7. d[m] = time /\ \A q \in 0..(L - 1) : q # m => d[q] = e[q]
  <2>1. m \in 0..(L - 1) /\ m = r.len - 1 - i
    BY <1>4, <1>6
  <2>2. e \in [0..(L - 1) -> Int] /\ d = [e EXCEPT ![m] = time]
    BY <1>2, <1>3, <1>4, <1>5, <2>1 DEF WellFormed
  <2> QED BY <2>1, <2>2
<1>8. \A q \in 0..(L - 1) : d[q] \in Int
  <2> SUFFICES ASSUME NEW q \in 0..(L - 1)  PROVE d[q] \in Int
    OBVIOUS
  <2>1. e[q] \in Int
    BY <1>2, <1>4, <1>5 DEF WellFormed
  <2> QED BY <1>2, <1>7, <2>1
<1>9. IntegersFrom(d, m, k)
  <2> SUFFICES ASSUME NEW q \in 0..k  PROVE d[q + m] \in Int
    BY DEF IntegersFrom
  <2>1. q + m \in 0..(L - 1)
    BY <1>4, <1>6
  <2> QED BY <1>8, <2>1
<1>10. SumFunction(PartTerms(d, m, k + 1)) = d[m] + Base * SumFunction(PartTerms(d, m + 1, k))
  BY <1>6, <1>9, PartDown
<1>11. PartTerms(d, m + 1, k) = PartTerms(e, m + 1, k)
  <2>1. \A q \in (m + 1)..((m + 1) + k - 1) : q \in 0..(L - 1) /\ q # m
    BY <1>4, <1>6
  <2>2. \A q \in (m + 1)..((m + 1) + k - 1) : d[q] = e[q]
    BY <1>7, <2>1
  <2> QED BY <2>2 DEF PartTerms
<1>12. QuotientSoFar = SumFunction(PartTerms(e, m + 1, k))
  <2>1. m + 1 = r.len - i
    BY <1>4, <1>6
  <2> QED BY <1>1, <1>4, <1>5, <1>6, <2>1, QuotientParts
<1>13. QuotientSoFar' = SumFunction(PartTerms(d, m, k + 1))
  <2>1. L - (h + 1) = m /\ m + (k + 1) - 1 = L - 1
    BY <1>4, <1>6
  <2>2. r'.len - i' = m /\ m + (k + 1) - 1 = r'.len - 1
    BY <1>4, <2>1
  <2> QED BY <1>5, <2>2 DEF QuotientSoFar, PartTerms
<1> QED BY <1>7, <1>10, <1>11, <1>12, <1>13

LEMMA LastDigit ==
  ASSUME IInv, DivSum, QuotientDigit, i' = r'.len, ~wrapped', IInv'
  PROVE  Divided'
<1>1. /\ phase = "div" /\ i < r.len /\ ~Bigger /\ i' = i + 1
      /\ r' = [r EXCEPT !.data[r.len - 1 - i] = Char(time)]
      /\ wrapped' = (wrapped \/ Char(time) # time)
      /\ UNCHANGED <<a, b>> /\ phase' = "div"
  BY DEF QuotientDigit
<1>2. Char(time) = time /\ ~wrapped
  BY <1>1, Zenon
<1>3. /\ Result(a) /\ WellFormed(r) /\ i \in Nat /\ r.len \in Nat /\ a.len \in Nat /\ b.len \in Nat
      /\ time \in Nat /\ b.len > 0 /\ r.len = a.len - b.len + 1 /\ Number(b)
  BY <1>1, DivFacts
<1>4. r'.len = r.len /\ i + 1 = r.len
  BY <1>1, <1>3 DEF WellFormed
<1>5. BroughtDown = (QuotientSoFar * Base + time) * Prefix(b, b.len) + Remainder
  BY <1>1, <1>2 DEF DivSum, Left
<1>6. BroughtDown = Prefix(a, a.len)
  <2>1. r.len - 1 - i = 0
    BY <1>3, <1>4
  <2>2. \A k \in 0..(a.len - 1) : k - 0 = k
    OBVIOUS
  <2>3. [k \in 0..(a.len - 1) |-> a.data[k] * Power[k - 0]] = [k \in 0..(a.len - 1) |-> a.data[k] * Power[k]]
    BY <2>2
  <2> QED BY <2>1, <2>3 DEF BroughtDown, Prefix
<1>7. QuotientSoFar' = Prefix(r, r.len)'
  <2>1. r'.len - i' = 0
    BY <1>1, <1>3, <1>4
  <2>2. \A k \in 0..(r'.len - 1) : k - 0 = k
    OBVIOUS
  <2>3. [k \in 0..(r'.len - 1) |-> r'.data[k] * Power[k - 0]] = [k \in 0..(r'.len - 1) |-> r'.data[k] * Power[k]]
    BY <2>2
  <2> QED BY <2>1, <2>3 DEF QuotientSoFar, Prefix
<1>8. PICK Q \in Int, B \in Nat, R \in Nat, T \in Nat :
        /\ Q = QuotientSoFar /\ B = Prefix(b, b.len) /\ R = Remainder /\ T = time /\ R < B
  <2>1. QuotientSoFar \in Int
    BY <1>1, QuotientWorth
  <2>2. Prefix(b, b.len) \in Nat
    BY <1>3, PrefixBound DEF Number
  <2>3. Remainder \in Nat /\ Remainder < Prefix(b, b.len)
    BY <1>1, RemainderWorth, SmallerWorth
  <2> QED BY <1>3, <2>1, <2>2, <2>3
<1>9. Prefix(r, r.len)' = T + Base * Q
  BY <1>2, <1>7, <1>8, QuotientNext
<1>10. Prefix(a, a.len)' = (Q * Base + T) * B + R /\ Prefix(b, b.len)' = B
  BY <1>1, <1>5, <1>6, <1>8 DEF Prefix
<1>11. ((Q * Base + T) * B + R) - (T + Base * Q) * B = R
  <2>1. PICK c \in Int : c = Q * Base + T /\ c = T + Base * Q
    BY BaseAssumption
  <2>2. c * B \in Int /\ (c * B + R) - c * B = R
    OBVIOUS
  <2> QED BY <2>1, <2>2
<1>12. R \in 0..(B - 1)
  BY <1>8
<1> QED BY <1>9, <1>10, <1>11, <1>12 DEF Divided

-----------------------------------------------------------------------------
(***************************************************************************)
(* What the numbers of each phase mean for the result: an invariant.       *)
(***************************************************************************)
CallMeans ==
  phase = "call" =>
    /\ op \in {"+", "-"} => Near
    /\ op = "+" => /\ sign # None => a.sign = 0 /\ b.sign = 0
                   /\ Signed(IF sign = None THEN 0 ELSE sign, Value(a, Places) + Value(b, Places)) = Wanted
    /\ op = "-" => sign = None /\ Value(a, Places) - Value(b, Places) = Wanted
    /\ op \in {"x", "/"} => sign = None /\ op = op0 /\ a = FromStr(x) /\ b = FromStr(y)

AddMeans ==
  phase = "add" => Near /\ Signed(Outer, Magnitude(a, Places) + Magnitude(b, Places)) = Wanted

SubMeans ==
  phase = "sub" => /\ Near /\ sign = None
                   /\ Signed(r.sign, Magnitude(a, Places) - Magnitude(b, Places)) = Wanted
                   /\ i <= r.len \/ outside

MulMeans ==
  phase = "mul" => /\ sign = None /\ op0 = "x" /\ a = FromStr(x) /\ b = FromStr(y)
                   /\ r.sign = IF a.sign = b.sign THEN 0 ELSE 1

DivMeans ==
  phase \in {"div", "divsub"} =>
    /\ op0 = "/" /\ b = FromStr(y) /\ a = AddZero(FromStr(x), Extension)
    /\ JudgeZero(b) /\ JudgeZero(FromStr(x))
    /\ i = r.len /\ r.len > 0 /\ ~wrapped => Divided

Meaning == /\ phase = "read" => sign = None /\ op = op0
           /\ CallMeans /\ AddMeans /\ SubMeans /\ MulMeans /\ DivMeans
           /\ ExactUnlessLost

LEMMA WantedKept == ASSUME UNCHANGED <<x, y, op0>> PROVE Wanted' = Wanted /\ Places' = Places
BY DEF Wanted, Places

\* Phases in which only one part of Meaning says something.
LEMMA CallOnly == ASSUME phase' = "call", CallMeans' PROVE Meaning'
BY DEF Meaning, AddMeans, SubMeans, MulMeans, DivMeans, ExactUnlessLost, Exact

LEMMA AddOnly == ASSUME phase' = "add", AddMeans' PROVE Meaning'
BY DEF Meaning, CallMeans, SubMeans, MulMeans, DivMeans, ExactUnlessLost, Exact

LEMMA SubOnly == ASSUME phase' = "sub", SubMeans' PROVE Meaning'
BY DEF Meaning, CallMeans, AddMeans, MulMeans, DivMeans, ExactUnlessLost, Exact

LEMMA MulOnly == ASSUME phase' = "mul", MulMeans' PROVE Meaning'
BY DEF Meaning, CallMeans, AddMeans, SubMeans, DivMeans, ExactUnlessLost, Exact

LEMMA DivOnly == ASSUME phase' \in {"div", "divsub"}, DivMeans' PROVE Meaning'
BY DEF Meaning, CallMeans, AddMeans, SubMeans, MulMeans, ExactUnlessLost, Exact

LEMMA PrintOnly == ASSUME phase' = "print", ExactUnlessLost' PROVE Meaning'
BY DEF Meaning, CallMeans, AddMeans, SubMeans, MulMeans, DivMeans

LEMMA NoneOnly == ASSUME phase' \in {"end", "exit", "undefined"} PROVE Meaning'
BY DEF Meaning, CallMeans, AddMeans, SubMeans, MulMeans, DivMeans, ExactUnlessLost, Exact

LEMMA ReadMeaning == ASSUME IInv, Meaning, Read PROVE Meaning'
<1>1. x \in Texts /\ y \in Texts /\ sign = None /\ op = op0
  BY DEF Read, IInv, Meaning
<1>2. UNCHANGED <<op, sign, x, y, op0>>
  BY DEF Read, command
<1>3. CASE phase' = "undefined"
  BY <1>3, NoneOnly
<1>4. CASE phase' = "call" /\ a' = FromStr(x) /\ b' = FromStr(y)
  <2>1. PICK u \in Nat, v \in Nat, d \in Nat : u = Len(x.frac) /\ v = Len(y.frac) /\ d = Decimals
    BY <1>1, PlacesType, DivisionAssumption
  <2>2. Places \in Nat /\ Places >= u /\ Places >= v
    <3>1. Places = u + v + d
      BY <2>1 DEF Places
    <3>2. u + v + d \in Nat /\ u + v + d >= u /\ u + v + d >= v
      OBVIOUS
    <3> QED BY <3>1, <3>2
  <2>3. /\ TextValue(x, Places) = Value(FromStr(x), Places) /\ FromStr(x).point \in 0..u
        /\ TextValue(y, Places) = Value(FromStr(y), Places) /\ FromStr(y).point \in 0..v
    BY <1>1, <2>1, <2>2, TextMeans
  <2>4. Near'
    <3>1. FromStr(x).point <= Places /\ FromStr(y).point <= Places
      BY <2>1, <2>2, <2>3
    <3> QED BY <1>2, <1>4, <3>1, WantedKept DEF Near
  <2>5. Places' = Places /\ Wanted' = Wanted
    BY <1>2, WantedKept
  <2>6. /\ op0 = "+" => Value(a', Places) + Value(b', Places) = Wanted
        /\ op0 = "-" => Value(a', Places) - Value(b', Places) = Wanted
    BY <1>4, <2>3 DEF Wanted
  <2>7. CallMeans'
    BY <1>1, <1>2, <1>4, <2>4, <2>5, <2>6 DEF CallMeans, Signed, Value, None
  <2> QED BY <1>4, <2>7, CallOnly
<1> QED BY <1>3, <1>4 DEF Read

LEMMA AbsMagnitude ==
  ASSUME NEW n, Number(n), NEW p \in Nat, n.point <= p
  PROVE  /\ Magnitude(n, p) \in Nat
         /\ Magnitude(Abs(n), p) = Magnitude(n, p)
         /\ Abs(n).sign = 0 /\ Abs(n).point = n.point
         /\ Value(Abs(n), p) = Magnitude(n, p)
         /\ Value(n, p) = IF n.sign = 1 THEN -Magnitude(n, p) ELSE Magnitude(n, p)
<1>1. n.point \in Nat /\ n.len \in Nat /\ Result(n) /\ WellFormed(n)
  BY DEF Number, Result, WellFormed
<1>2. PICK u \in Nat : u = p - n.point
  BY <1>1
<1>3. PICK v \in Nat, w \in Nat : v = Prefix(n, n.len) /\ w = Power[u]
  BY <1>1, <1>2, PrefixBound, PowerType
<1>4. Magnitude(n, p) = v * w /\ v * w \in Nat
  BY <1>2, <1>3 DEF Magnitude
<1>5. /\ Abs(n).sign = 0 /\ Abs(n).point = n.point /\ Abs(n).len = n.len /\ Abs(n).data = n.data
  BY <1>1 DEF Abs, WellFormed
<1>6. Magnitude(Abs(n), p) = Magnitude(n, p)
  BY <1>5 DEF Magnitude, Prefix
<1> QED BY <1>4, <1>5, <1>6 DEF Value, Signed

\* The two arguments of a call.
LEMMA CallValues ==
  ASSUME IInv, phase = "call", Near
  PROVE  \E u, v \in Nat :
           /\ u = Magnitude(a, Places) /\ v = Magnitude(b, Places)
           /\ Value(a, Places) = (IF a.sign = 1 THEN -u ELSE u)
           /\ Value(b, Places) = (IF b.sign = 1 THEN -v ELSE v)
           /\ Value(Abs(a), Places) = u /\ Value(Abs(b), Places) = v
           /\ Magnitude(Abs(a), Places) = u /\ Magnitude(Abs(b), Places) = v
           /\ Abs(a).sign = 0 /\ Abs(b).sign = 0 /\ Abs(a).point = a.point /\ Abs(b).point = b.point
<1>1. Number(a) /\ Number(b) /\ Places \in Nat /\ a.point <= Places /\ b.point <= Places
  BY CallFacts, PlacesType DEF Near
<1> QED BY <1>1, AbsMagnitude

LEMMA TempFields == ASSUME NEW len, NEW s, NEW point, NEW sci
                    PROVE  /\ Temp(len, s, point, sci).sign = s /\ Temp(len, s, point, sci).len = len
BY DEF Temp

LEMMA CalcAddMeaning == ASSUME IInv, Meaning, CalcAdd, Rest PROVE Meaning'
<1>1. /\ phase = "call" /\ op = "+" /\ Near /\ UNCHANGED <<x, y, op0>>
      /\ sign # None => a.sign = 0 /\ b.sign = 0
      /\ Signed(IF sign = None THEN 0 ELSE sign, Value(a, Places) + Value(b, Places)) = Wanted
  BY DEF CalcAdd, Meaning, CallMeans, Rest
<1>2. Places' = Places /\ Wanted' = Wanted
  BY <1>1, WantedKept
<1>3. a.sign \in {0, 1} /\ b.sign \in {0, 1} /\ sign \in {0, 1, None} /\ None = 2
  BY <1>1, CallFacts DEF None
<1>4. PICK u \in Nat, v \in Nat :
        /\ u = Magnitude(a, Places) /\ v = Magnitude(b, Places)
        /\ Value(a, Places) = (IF a.sign = 1 THEN -u ELSE u)
        /\ Value(b, Places) = (IF b.sign = 1 THEN -v ELSE v)
        /\ Value(Abs(a), Places) = u /\ Value(Abs(b), Places) = v
        /\ Abs(a).point = a.point /\ Abs(b).point = b.point
  BY <1>1, CallValues
<1>5. CASE a.sign = b.sign
  <2>1. /\ phase' = "add" /\ UNCHANGED <<a, b, sign>> /\ r'.sign = a.sign
    BY <1>3, <1>5, TempFields DEF CalcAdd, Start, Call
  <2>2. Signed(IF sign = None THEN a.sign ELSE sign, u + v) = Wanted
    BY <1>1, <1>3, <1>4, <1>5 DEF Signed
  <2>3. Near' /\ Magnitude(a, Places)' = u /\ Magnitude(b, Places)' = v
    BY <1>1, <1>2, <1>4, <2>1 DEF Near, Magnitude, Prefix
  <2>4. Outer' = IF sign = None THEN a.sign ELSE sign
    BY <2>1 DEF Outer
  <2>5. AddMeans'
    BY <1>2, <2>2, <2>3, <2>4 DEF AddMeans
  <2> QED BY <2>1, <2>5, AddOnly
<1>6. CASE a.sign = 0 /\ b.sign = 1
  <2>1. phase' = "call" /\ op' = "-" /\ a' = a /\ b' = Abs(b) /\ sign' = None
    BY <1>1, <1>3, <1>6 DEF CalcAdd, Start, Call
  <2>2. u - v = Wanted
    BY <1>1, <1>3, <1>4, <1>6 DEF Signed
  <2>3. Near' /\ Value(a, Places)' = u /\ Value(b, Places)' = v
    BY <1>1, <1>2, <1>4, <1>6, <2>1 DEF Near, Value, Signed, Magnitude, Prefix
  <2>4. CallMeans'
    BY <1>2, <2>1, <2>2, <2>3 DEF CallMeans
  <2> QED BY <2>1, <2>4, CallOnly
<1>7. CASE a.sign = 1 /\ b.sign = 0
  <2>1. phase' = "call" /\ op' = "-" /\ a' = b /\ b' = Abs(a) /\ sign' = None
    BY <1>1, <1>3, <1>7 DEF CalcAdd, Start, Call
  <2>2. v - u = Wanted
    BY <1>1, <1>3, <1>4, <1>7 DEF Signed
  <2>3. Near' /\ Value(a, Places)' = v /\ Value(b, Places)' = u
    BY <1>1, <1>2, <1>4, <1>7, <2>1 DEF Near, Value, Signed, Magnitude, Prefix
  <2>4. CallMeans'
    BY <1>2, <2>1, <2>2, <2>3 DEF CallMeans
  <2> QED BY <2>1, <2>4, CallOnly
<1> QED BY <1>3, <1>5, <1>6, <1>7

LEMMA CalcSubMeaning == ASSUME IInv, Meaning, CalcSub, Rest PROVE Meaning'
<1>1. /\ phase = "call" /\ op = "-" /\ Near /\ UNCHANGED <<x, y, op0>> /\ i = 0
      /\ sign = None /\ Value(a, Places) - Value(b, Places) = Wanted
  BY DEF CalcSub, Meaning, CallMeans, Rest, IInv, Looping
<1>2. Places' = Places /\ Wanted' = Wanted
  BY <1>1, WantedKept
<1>3. a.sign \in {0, 1} /\ b.sign \in {0, 1} /\ None = 2 /\ a.len \in Nat /\ b.len \in Nat
  BY <1>1, CallFacts DEF None
<1>4. PICK u \in Nat, v \in Nat :
        /\ u = Magnitude(a, Places) /\ v = Magnitude(b, Places)
        /\ Value(a, Places) = (IF a.sign = 1 THEN -u ELSE u)
        /\ Value(b, Places) = (IF b.sign = 1 THEN -v ELSE v)
        /\ Value(Abs(a), Places) = u /\ Value(Abs(b), Places) = v
        /\ Abs(a).point = a.point /\ Abs(b).point = b.point /\ Abs(a).sign = 0 /\ Abs(b).sign = 0
  BY <1>1, CallValues
<1>5. CASE a.sign = 0 /\ b.sign = 0
  <2>1. /\ phase' = "sub" /\ sign' = None /\ i' = 0
        /\ \/ a' = a /\ b' = b /\ r'.sign = 0 /\ r'.len = a.len
           \/ a' = b /\ b' = a /\ r'.sign = 1 /\ r'.len = b.len
    BY <1>1, <1>5, TempFields DEF CalcSub, Start, Call
  <2>2. u - v = Wanted /\ Signed(0, u - v) = Wanted /\ Signed(1, v - u) = Wanted
    BY <1>1, <1>4, <1>5 DEF Signed
  <2>3. Near'
    BY <1>1, <1>2, <2>1 DEF Near
  <2>4. /\ a' = a /\ b' = b => Magnitude(a, Places)' = u /\ Magnitude(b, Places)' = v
        /\ a' = b /\ b' = a => Magnitude(a, Places)' = v /\ Magnitude(b, Places)' = u
    BY <1>2, <1>4 DEF Magnitude, Prefix
  <2>5. i' <= r'.len
    BY <1>3, <2>1
  <2>6. SubMeans'
    BY <1>2, <2>1, <2>2, <2>3, <2>4, <2>5 DEF SubMeans
  <2> QED BY <2>1, <2>6, SubOnly
<1>6. CASE a.sign = 1 /\ b.sign = 1
  <2>1. phase' = "call" /\ op' = "-" /\ a' = Abs(b) /\ b' = Abs(a) /\ sign' = None
    BY <1>1, <1>3, <1>6 DEF CalcSub, Start, Call
  <2>2. v - u = Wanted
    BY <1>1, <1>3, <1>4, <1>6
  <2>3. Near'
    BY <1>1, <1>2, <1>4, <2>1 DEF Near
  <2>4. Value(a, Places)' = v /\ Value(b, Places)' = u
    BY <1>2, <1>4, <2>1 DEF Value, Magnitude, Prefix
  <2>5. CallMeans'
    BY <1>2, <2>1, <2>2, <2>3, <2>4 DEF CallMeans
  <2> QED BY <2>1, <2>5, CallOnly
<1>7. CASE a.sign = 0 /\ b.sign = 1
  <2>1. phase' = "call" /\ op' = "+" /\ a' = a /\ b' = Abs(b) /\ sign' = 0
    BY <1>1, <1>3, <1>7 DEF CalcSub, Start, Call
  <2>2. Signed(0, u + v) = Wanted
    BY <1>1, <1>3, <1>4, <1>7 DEF Signed
  <2>3. Near' /\ a'.sign = 0 /\ b'.sign = 0
    BY <1>1, <1>2, <1>4, <1>7, <2>1 DEF Near
  <2>4. Value(a, Places)' = u /\ Value(b, Places)' = v
    <3>1. Value(a, Places) = u
      BY <1>4, <1>7
    <3> QED BY <1>2, <1>4, <2>1, <3>1 DEF Value, Magnitude, Prefix
  <2>5. CallMeans'
    BY <1>2, <1>3, <2>1, <2>2, <2>3, <2>4 DEF CallMeans
  <2> QED BY <2>1, <2>5, CallOnly
<1>8. CASE a.sign = 1 /\ b.sign = 0
  <2>1. phase' = "call" /\ op' = "+" /\ a' = Abs(a) /\ b' = b /\ sign' = 1
    BY <1>1, <1>3, <1>8 DEF CalcSub, Start, Call
  <2>2. Signed(1, u + v) = Wanted
    BY <1>1, <1>3, <1>4, <1>8 DEF Signed
  <2>3. Near' /\ a'.sign = 0 /\ b'.sign = 0
    BY <1>1, <1>2, <1>4, <1>8, <2>1 DEF Near
  <2>4. Value(a, Places)' = u /\ Value(b, Places)' = v
    <3>1. Value(b, Places) = v
      BY <1>4, <1>8
    <3> QED BY <1>2, <1>4, <2>1, <3>1 DEF Value, Magnitude, Prefix
  <2>5. CallMeans'
    BY <1>2, <1>3, <2>1, <2>2, <2>3, <2>4 DEF CallMeans
  <2> QED BY <2>1, <2>5, CallOnly
<1> QED BY <1>3, <1>5, <1>6, <1>7, <1>8

LEMMA CalcMulMeaning == ASSUME IInv, Meaning, CalcMul, Rest PROVE Meaning'
<1>1. /\ phase' = "mul" /\ UNCHANGED <<a, b, sign, x, y, op0>>
      /\ r'.sign = IF a.sign = b.sign THEN 0 ELSE 1
  BY TempFields DEF CalcMul, Start, Rest
<1>2. sign = None /\ op0 = "x" /\ a = FromStr(x) /\ b = FromStr(y)
  BY DEF CalcMul, Meaning, CallMeans
<1>3. MulMeans'
  BY <1>1, <1>2 DEF MulMeans
<1> QED BY <1>1, <1>3, MulOnly

-----------------------------------------------------------------------------
LEMMA AddDigitMeaning == ASSUME IInv, Meaning, AddDigit, Rest PROVE Meaning'
<1>1. /\ phase = "add" /\ phase' = "add" /\ UNCHANGED <<a, b, sign, x, y, op0>>
  BY DEF AddDigit, Loop, Rest
<1>2. PICK d : r' = [r EXCEPT !.data = d]
  BY DEF AddDigit
<1>3. WellFormed(r)
  BY DEF IInv, TypeOK
<1>4. r'.sign = r.sign
  BY <1>2, <1>3 DEF WellFormed
<1>5. Outer' = Outer /\ Near' = Near /\ Places' = Places /\ Wanted' = Wanted
  BY <1>1, <1>4, WantedKept DEF Outer, Near
<1>6. Magnitude(a, Places)' = Magnitude(a, Places) /\ Magnitude(b, Places)' = Magnitude(b, Places)
  BY <1>1, <1>5 DEF Magnitude, Prefix
<1>7. AddMeans'
  BY <1>1, <1>5, <1>6 DEF Meaning, AddMeans
<1> QED BY <1>1, <1>7, AddOnly

LEMMA SubDigitMeaning == ASSUME IInv, Meaning, SubDigit, Rest PROVE Meaning'
<1>1. /\ phase = "sub" /\ phase' = "sub" /\ UNCHANGED <<a, b, sign, x, y, op0>> /\ i' = i + 1
  BY DEF SubDigit, Loop, Rest
<1>2. /\ WellFormed(r) /\ r.len \in Nat /\ i \in Nat
  BY DEF IInv, TypeOK, WellFormed
<1>3. /\ outside' = (outside \/ i >= r.len) /\ r'.sign = r.sign /\ r'.len = r.len
  BY <1>2 DEF SubDigit, Write, WellFormed
<1>4. i' <= r'.len \/ outside'
  <2>1. PICK k \in Nat, l \in Nat : k = i /\ l = r.len
    BY <1>2
  <2>2. k >= l \/ k + 1 <= l
    OBVIOUS
  <2> QED BY <1>1, <1>3, <2>1, <2>2
<1>5. Near' = Near /\ Places' = Places /\ Wanted' = Wanted
  BY <1>1, WantedKept DEF Near
<1>6. Magnitude(a, Places)' = Magnitude(a, Places) /\ Magnitude(b, Places)' = Magnitude(b, Places)
  BY <1>1, <1>5 DEF Magnitude, Prefix
<1>7. SubMeans'
  BY <1>1, <1>3, <1>4, <1>5, <1>6 DEF Meaning, SubMeans
<1> QED BY <1>1, <1>7, SubOnly

LEMMA MulDigitMeaning == ASSUME IInv, Meaning, MulDigit \/ MulRow, Rest PROVE Meaning'
<1>1. /\ phase = "mul" /\ phase' = "mul" /\ UNCHANGED <<a, b, sign, x, y, op0>>
  BY DEF MulDigit, MulRow, Rest
<1>2. WellFormed(r)
  BY DEF IInv, TypeOK
<1>3. r'.sign = r.sign
  BY <1>2 DEF MulDigit, MulRow, Write, WellFormed
<1>4. MulMeans'
  BY <1>1, <1>3 DEF Meaning, MulMeans
<1> QED BY <1>1, <1>4, MulOnly

LEMMA UsageMeaning == ASSUME Usage \/ PrintBignumber PROVE Meaning'
<1>1. phase' \in {"end", "exit"}
  BY DEF Usage, PrintBignumber
<1> QED BY <1>1, NoneOnly

LEMMA SignedZero == ASSUME NEW s, NEW v \in Int, v >= 0, v <= 0 PROVE Signed(s, v) = 0
<1>1. -v = 0 /\ v = 0
  OBVIOUS
<1> QED BY <1>1 DEF Signed

\* 0 divided by anything.
LEMMA NothingDivided ==
  ASSUME NEW w \in Int, w # 0
  PROVE  Truncated(0, w) = 0
<1>1. PICK m \in Nat \ {0} : m = IF w < 0 THEN -w ELSE w
  OBVIOUS
<1>2. 0 \div m = 0
  OBVIOUS
<1>3. ~(0 < 0) /\ 0 * w = 0
  OBVIOUS
<1>4. (IF 0 < 0 THEN -0 ELSE 0) \div m = 0
  BY <1>2
<1> QED BY <1>1, <1>3, <1>4 DEF Truncated

LEMMA CalcDivMeaning == ASSUME IInv, Meaning, CalcDiv, UNCHANGED <<x, y, op0>> PROVE Meaning'
<1>1. /\ phase = "call" /\ op = "/" /\ op0 = "/" /\ a = FromStr(x) /\ b = FromStr(y) /\ i = 0
      /\ UNCHANGED <<op, b, sign, i, j, carry, outside, time, wrapped>>
  BY DEF CalcDiv, Meaning, CallMeans, IInv, Looping
<1>2. Number(a) /\ Number(b) /\ x \in Texts /\ y \in Texts
  BY <1>1, CallFacts DEF IInv
<1>3. CASE phase' = "exit" \/ phase' = "undefined"
  BY <1>3, NoneOnly
<1>4. CASE phase' = "print" /\ JudgeZero(b) /\ ~JudgeZero(a) /\ r' = Temp(1, 0, 0, 0)
  <2>1. PICK u \in Nat, v \in Nat, d \in Nat : u = Len(x.frac) /\ v = Len(y.frac) /\ d = Decimals
    BY <1>2, PlacesType, DivisionAssumption
  <2>2. Places = u + v + d
    BY <2>1 DEF Places
  <2>3. PICK p \in Nat : p = Places /\ p = u + v + d /\ p >= u /\ p >= v /\ p - d \in Nat
    BY <2>2
  <2>4. TextValue(x, p) = Value(a, p) /\ TextValue(y, p) = Value(b, p) /\ a.point <= p /\ b.point <= p
    <3>1. FromStr(x).point \in 0..u /\ TextValue(x, p) = Value(FromStr(x), p)
      BY <1>2, <2>1, <2>3, TextMeans
    <3>2. FromStr(y).point \in 0..v /\ TextValue(y, p) = Value(FromStr(y), p)
      BY <1>2, <2>1, <2>3, TextMeans
    <3> QED BY <1>1, <2>3, <3>1, <3>2
  <2>5. PICK s \in Nat, t \in Nat, k \in Nat, l \in Nat \ {0}, m \in Nat \ {0} :
          /\ s = a.point /\ t = b.point /\ k = Prefix(a, a.len) /\ l = Power[p - s] /\ m = Power[p - t]
    <3>1. a.point \in Nat /\ b.point \in Nat /\ a.len \in Nat
      BY <1>2, NumberFacts
    <3>2. p - a.point \in Nat /\ p - b.point \in Nat
      BY <2>4, <3>1
    <3>3. Prefix(a, a.len) \in Nat
      BY <1>2, <3>1, PrefixBound DEF Number
    <3> QED BY <3>1, <3>2, <3>3, PowerType
  <2>6. k = 0
    <3>1. Result(a)
      BY <1>2 DEF Number
    <3> QED BY <1>4, <2>5, <3>1, ZeroWorth
  <2>7. Value(a, p) = 0
    <3>1. Magnitude(a, p) \in Int /\ Magnitude(a, p) >= 0 /\ Magnitude(a, p) <= 0
      BY <2>5, <2>6 DEF Magnitude
    <3> QED BY <3>1, SignedZero DEF Value
  <2>8. Value(b, p) \in Int /\ Value(b, p) # 0
    <3>1. PICK h \in Nat : h = Prefix(b, b.len) /\ h > 0
      BY <1>2, <1>4, ZeroWorth DEF Number
    <3>2. Magnitude(b, p) = h * m /\ h * m \in Nat /\ h * m > 0
      BY <2>5, <3>1 DEF Magnitude
    <3> QED BY <3>2 DEF Value, Signed
  <2>9. Wanted = 0
    <3>1. Power[d] \in Nat /\ Power[p - d] \in Nat
      BY <2>3, PowerType
    <3>2. 0 * Power[d] = 0 /\ 0 * Power[p - d] = 0
      BY <3>1
    <3>3. Truncated(0, Value(b, p)) = 0
      BY <2>8, NothingDivided
    <3> QED BY <1>1, <2>1, <2>3, <2>4, <2>7, <3>2, <3>3 DEF Wanted
  <2>10. Value(r, Places)' = 0
    <3>1. PICK z : z = Temp(1, 0, 0, 0)
      OBVIOUS
    <3>2. z.len = 1 /\ z.sign = 0 /\ z.point = 0 /\ Result(z) /\ ~JudgeZero(z)
      <4>1. z.len = 1 /\ z.sign = 0 /\ z.point = 0 /\ z.data = [q \in 0..(1 - 1) |-> 0]
        BY <3>1 DEF Temp
      <4>2. Result(z)
        BY <3>1, TempResult
      <4> QED BY <4>1, <4>2 DEF JudgeZero
    <3>3. Prefix(z, z.len) = 0
      BY <3>2, ZeroWorth
    <3>4. Power[p - 0] \in Nat
      BY PowerType
    <3>5. Value(z, p) = 0
      BY <3>2, <3>3, <3>4 DEF Value, Signed, Magnitude
    <3>6. Places' = Places
      BY DEF Places
    <3> QED BY <1>4, <2>3, <3>1, <3>5, <3>6 DEF Value, Magnitude, Prefix
  <2>11. Exact'
    BY <2>9, <2>10, WantedKept DEF Exact
  <2> QED BY <1>4, <2>11, PrintOnly DEF ExactUnlessLost
<1>5. CASE /\ phase' = "div" /\ JudgeZero(b) /\ JudgeZero(a) /\ QuotientLen >= 0
           /\ a' = AddZero(a, Extension) /\ r' = Temp(QuotientLen, 0, Decimals, 0)
  <2>1. a'.point = a.point
    <3>1. WellFormed(a)
      BY <1>2 DEF Number, Result
    <3> QED BY <1>5, <3>1 DEF AddZero, WellFormed
  <2>2. Extension' = Extension
    BY <1>1, <2>1 DEF Extension
  <2>3. i' = 0 /\ (r'.len > 0 => i' # r'.len)
    <3>1. r'.len = QuotientLen
      BY <1>5, TempFields
    <3> QED BY <1>1, <3>1
  <2>4. DivMeans'
    BY <1>1, <1>5, <2>2, <2>3 DEF DivMeans, JudgeZero
  <2> QED BY <1>5, <2>4, DivOnly
<1> QED BY <1>3, <1>4, <1>5 DEF CalcDiv

LEMMA DivStepMeaning ==
  ASSUME IInv, Meaning, DivSum, IInv', Subtract \/ RemainderDigit \/ QuotientDigit, UNCHANGED <<x, y, op0>>
  PROVE  Meaning'
<1>1. phase \in {"div", "divsub"} /\ phase' \in {"div", "divsub"} /\ UNCHANGED <<a, b>> /\ i < r.len
  BY DEF Subtract, RemainderDigit, QuotientDigit, IInv, Looping
<1>2. /\ op0 = "/" /\ b = FromStr(y) /\ a = AddZero(FromStr(x), Extension)
      /\ JudgeZero(b) /\ JudgeZero(FromStr(x))
  BY <1>1 DEF Meaning, DivMeans
<1>3. Extension' = Extension /\ JudgeZero(b)' = JudgeZero(b)
  BY <1>1 DEF Extension, JudgeZero
<1>4. i' = r'.len /\ ~wrapped' => Divided'
  <2>1. CASE QuotientDigit
    BY <2>1, LastDigit
  <2>2. CASE Subtract \/ RemainderDigit
    <3>1. i' = i /\ r' = r
      BY <2>2 DEF Subtract, RemainderDigit
    <3>2. i \in Nat /\ r.len \in Nat
      BY <1>1, DivFacts
    <3> QED BY <1>1, <3>1, <3>2
  <2> QED BY <2>1, <2>2
<1>5. DivMeans'
  BY <1>1, <1>2, <1>3, <1>4 DEF DivMeans
<1> QED BY <1>1, <1>5, DivOnly

-----------------------------------------------------------------------------
(***************************************************************************)
(* The steps to print.                                                     *)
(***************************************************************************)
\* The value of the result when the sign is set at the end of calc_add and calc_sub.
LEMMA ReturnedValue ==
  ASSUME IInv, Meaning, Return
  PROVE  /\ Value(r, Places)' = Signed(Outer, Magnitude(r, Places))
         /\ phase' = "print" /\ Places' = Places /\ Wanted' = Wanted
         /\ UNCHANGED <<op, carry, outside>>
<1>1. /\ phase' = "print" /\ UNCHANGED <<op, carry, outside, x, y, op0>>
      /\ r' = IF sign = None THEN r ELSE [r EXCEPT !.sign = sign]
  BY DEF Return, loop, command
<1>2. WellFormed(r)
  BY DEF IInv, TypeOK
<1>3. /\ r'.sign = Outer /\ r'.len = r.len /\ r'.point = r.point /\ r'.data = r.data
  BY <1>1, <1>2 DEF WellFormed, Outer
<1>4. Places' = Places /\ Wanted' = Wanted
  BY <1>1, WantedKept
<1>5. Magnitude(r, Places)' = Magnitude(r, Places)
  BY <1>3, <1>4 DEF Magnitude, Prefix
<1> QED BY <1>1, <1>3, <1>4, <1>5 DEF Value

LEMMA ProductMeans ==
  ASSUME IInv, Meaning, MulSum, phase = "mul", i = b.len
  PROVE  Signed(Outer, Magnitude(r, Places)) = Wanted
<1>1. /\ sign = None /\ op0 = "x" /\ a = FromStr(x) /\ b = FromStr(y)
      /\ r.sign = (IF a.sign = b.sign THEN 0 ELSE 1) /\ x \in Texts /\ y \in Texts
  BY DEF Meaning, MulMeans, IInv
<1>2. Number(a) /\ Number(b) /\ a.sign \in {0, 1} /\ b.sign \in {0, 1} /\ a.len \in Nat /\ b.len \in Nat
  <2>1. Number(a) /\ Number(b)
    BY LoopFacts DEF IInv, Looping
  <2> QED BY <2>1 DEF Number, Result, WellFormed
<1>3. PICK u \in Nat, v \in Nat, d \in Nat : u = Len(x.frac) /\ v = Len(y.frac) /\ d = Decimals
  BY <1>1, PlacesType, DivisionAssumption
<1>4. Places = u + v + d
  BY <1>3 DEF Places
<1>5. TextValue(x, u) = Value(a, u) /\ TextValue(y, v) = Value(b, v) /\ a.point \in 0..u /\ b.point \in 0..v
  <2>1. TextValue(x, u) = Value(FromStr(x), u) /\ FromStr(x).point \in 0..u
    BY <1>1, <1>3, TextMeans
  <2>2. TextValue(y, v) = Value(FromStr(y), v) /\ FromStr(y).point \in 0..v
    BY <1>1, <1>3, TextMeans
  <2> QED BY <1>1, <2>1, <2>2
<1>6. PICK s \in Nat, t \in Nat : s = u - a.point /\ t = v - b.point
  BY <1>5
<1>7. PICK p \in Nat, q \in Nat, k \in Nat, l \in Nat, m \in Nat :
        /\ p = Prefix(a, a.len) /\ q = Prefix(b, b.len) /\ k = Power[s] /\ l = Power[t] /\ m = Power[d]
  <2>1. Prefix(a, a.len) \in Nat /\ Prefix(b, b.len) \in Nat
    BY <1>2, PrefixBound DEF Number
  <2> QED BY <2>1, PowerType
<1>8. Wanted = Signed(a.sign, p * k) * Signed(b.sign, q * l) * m
  BY <1>1, <1>3, <1>5, <1>6, <1>7 DEF Wanted, Value, Magnitude
<1>9. Wanted = Signed(r.sign, ((p * k) * (q * l)) * m)
  <2>1. PICK g \in Nat, h \in Nat : g = p * k /\ h = q * l
    OBVIOUS
  <2>2. PICK e, f : e = a.sign /\ f = b.sign /\ (e = 0 \/ e = 1) /\ (f = 0 \/ f = 1)
    BY <1>2
  <2>3. PICK w : w = r.sign /\ w = IF e = f THEN 0 ELSE 1
    BY <1>1, <2>2
  <2>4. Signed(e, g) * Signed(f, h) * m = Signed(w, (g * h) * m)
    <3>1. g * h \in Nat /\ (g * h) * m \in Nat
      OBVIOUS
    <3>2. (-g) * h = -(g * h) /\ g * (-h) = -(g * h) /\ (-g) * (-h) = g * h
      OBVIOUS
    <3>3. (-(g * h)) * m = -((g * h) * m)
      BY <3>1
    <3> QED BY <2>2, <2>3, <3>1, <3>2, <3>3 DEF Signed
  <2> QED BY <1>8, <2>1, <2>2, <2>3, <2>4
<1>10. Magnitude(r, Places) = (p * q) * ((k * l) * m)
  <2>1. Prefix(r, r.len) = p * q /\ r.point = a.point + b.point
    BY <1>7, MulEnd
  <2>2. Places - r.point = (s + t) + d
    BY <1>4, <1>5, <1>6, <2>1
  <2>3. Power[(s + t) + d] = (k * l) * m
    <3>1. Power[s + t] = k * l /\ s + t \in Nat
      BY <1>7, PowerSum
    <3> QED BY <1>7, <3>1, PowerSum
  <2> QED BY <2>1, <2>2, <2>3 DEF Magnitude
<1>11. (p * q) * ((k * l) * m) = ((p * k) * (q * l)) * m
  <2>1. \A x1, x2, x3, x4 \in Nat : (x1 * x2) * (x3 * x4) = (x1 * x3) * (x2 * x4) /\ x1 * x2 \in Nat
    OBVIOUS
  <2>2. \A x1, x2, x3 \in Nat : x1 * (x2 * x3) = (x1 * x2) * x3
    OBVIOUS
  <2> QED BY <2>1, <2>2
<1> QED BY <1>1, <1>9, <1>10, <1>11 DEF Outer

LEMMA ReturnMeaning == ASSUME IInv, Meaning, Sums, Return PROVE Meaning'
<1>1. /\ Value(r, Places)' = Signed(Outer, Magnitude(r, Places))
      /\ phase' = "print" /\ Places' = Places /\ Wanted' = Wanted
      /\ UNCHANGED <<op, carry, outside>>
  BY ReturnedValue
<1>2. \/ phase = "add" /\ i = AddTimes(a, b)
      \/ phase = "sub" /\ i = AddTimes(a, b)
      \/ phase = "mul" /\ i = b.len
  BY DEF Return
<1>3. CASE phase = "add" /\ i = AddTimes(a, b)
  <2>1. Near /\ Signed(Outer, Magnitude(a, Places) + Magnitude(b, Places)) = Wanted
    BY <1>3 DEF Meaning, AddMeans
  <2>2. Magnitude(r, Places) = Magnitude(a, Places) + Magnitude(b, Places)
    BY <1>3, <2>1, AddEnd DEF Sums
  <2>3. Exact'
    BY <1>1, <2>1, <2>2 DEF Exact
  <2> QED BY <1>1, <2>3, PrintOnly DEF ExactUnlessLost
<1>4. CASE phase = "sub" /\ i = AddTimes(a, b)
  <2>1. /\ Near /\ sign = None /\ Signed(r.sign, Magnitude(a, Places) - Magnitude(b, Places)) = Wanted
        /\ i <= r.len \/ outside
    BY <1>4 DEF Meaning, SubMeans
  <2>2. CASE outside \/ carry # 0
    <3>1. op = "-"
      BY <1>4 DEF IInv, Looping
    <3>2. Lost'
      BY <1>1, <2>2, <3>1 DEF Lost
    <3> QED BY <1>1, <3>2, PrintOnly DEF ExactUnlessLost
  <2>3. CASE ~outside /\ carry = 0
    <3>1. Magnitude(r, Places) = Magnitude(a, Places) - Magnitude(b, Places)
      BY <1>4, <2>1, <2>3, SubEndValue DEF Sums
    <3>2. Exact'
      BY <1>1, <2>1, <3>1 DEF Exact, Outer
    <3> QED BY <1>1, <3>2, PrintOnly DEF ExactUnlessLost
  <2> QED BY <2>2, <2>3
<1>5. CASE phase = "mul" /\ i = b.len
  <2>1. Exact'
    BY <1>1, <1>5, ProductMeans DEF Exact, Sums
  <2> QED BY <1>1, <2>1, PrintOnly DEF ExactUnlessLost
<1> QED BY <1>2, <1>3, <1>4, <1>5

-----------------------------------------------------------------------------
LEMMA TruncatedSigned ==
  ASSUME NEW s, NEW t, s = 0 \/ s = 1, t = 0 \/ t = 1, NEW v \in Nat \ {0}, NEW w \in Nat \ {0}
  PROVE  Truncated(Signed(s, v), Signed(t, w)) = IF s = t THEN v \div w ELSE -(v \div w)
<1>1. PICK p, q : p = Signed(s, v) /\ q = Signed(t, w)
  OBVIOUS
<1>2. p \in Int /\ q \in Int /\ (p < 0 <=> s = 1) /\ (q < 0 <=> t = 1)
  BY <1>1 DEF Signed
<1>3. (IF p < 0 THEN -p ELSE p) = v /\ (IF q < 0 THEN -q ELSE q) = w
  BY <1>1 DEF Signed
<1>4. v * w > 0 /\ v * w \in Nat /\ (-v) * w = -(v * w) /\ v * (-w) = -(v * w) /\ (-v) * (-w) = v * w
  OBVIOUS
<1>5. p * q < 0 <=> s # t
  <2>1. s = t => p * q = v * w
    BY <1>1, <1>4 DEF Signed
  <2>2. s # t => p * q = -(v * w)
    BY <1>1, <1>4 DEF Signed
  <2> QED BY <1>4, <2>1, <2>2
<1>6. Truncated(p, q) = IF p * q < 0 THEN -(v \div w) ELSE v \div w
  BY <1>3 DEF Truncated
<1> QED BY <1>1, <1>5, <1>6

\* The digits of the quotient, if it has any, or its absence say how often the divisor goes.
LEMMA QuotientMeans ==
  ASSUME IInv, DivMeans, phase = "div", i = r.len, ~wrapped, r.len = 0 => Normal(b)
  PROVE  Divided
<1>1. /\ Result(a) /\ Number(b) /\ a.len \in Nat /\ b.len \in Nat /\ b.len > 0 /\ r.len = a.len - b.len + 1
      /\ r.len \in Nat /\ x \in Texts
  BY DivFacts
<1>2. CASE r.len > 0
  BY <1>2 DEF DivMeans
<1>3. CASE r.len = 0
  <2>1. PICK n : n = FromStr(x)
    OBVIOUS
  <2>2. Number(n) /\ WellFormed(n)
    BY <1>1, <2>1, TextNumber DEF Number, Result
  <2>3. a = AddZero(n, Extension)
    BY <2>1 DEF DivMeans
  <2>4. PICK k \in Nat, l \in Nat, m \in Nat, d \in Nat, s \in Nat, t \in Nat :
          /\ k = n.len /\ l = a.len /\ m = b.len /\ d = Decimals /\ s = n.point /\ t = b.point /\ s <= k
    <3>1. n.len \in Nat /\ n.point \in Nat /\ b.point \in Nat /\ n.point <= n.len
      BY <1>1, <2>2, NumberFacts DEF Number
    <3> QED BY <1>1, <3>1, DivisionAssumption
  <2>5. a.point = s /\ l = k + Extension
    <3>1. PICK v : v = Extension
      OBVIOUS
    <3>2. AddZero(n, v).point = n.point /\ AddZero(n, v).len = n.len + v
      BY <2>2 DEF AddZero, WellFormed
    <3> QED BY <2>3, <2>4, <3>1, <3>2
  <2>6. Extension = t - s + d
    BY <2>4, <2>5 DEF Extension
  <2>7. l = k + t - s + d /\ m = l + 1
    BY <1>1, <1>3, <2>4, <2>5, <2>6
  <2>8. Integer(b) > 0
    <3>1. m - t > 0
      BY <2>4, <2>7
    <3> QED BY <2>4, <3>1 DEF Integer
  <2>9. b.data[m - 1] # 0
    BY <1>3, <2>4, <2>8 DEF Normal
  <2>10. PICK e : e = b.data
    OBVIOUS
  <2>11. \A q \in 0..l : e[q] \in Digit /\ e[q] \in Int
    <3>1. \A q \in 0..(m - 1) : e[q] \in Digit /\ e[q] \in Int
      BY <1>1, <2>4, <2>10, DataInt DEF Number
    <3> QED BY <2>7, <3>1
  <2>12. PICK c \in Nat, z \in Nat, g \in Nat : c = e[l] /\ c > 0 /\ z = Power[l] /\ g = Worth(e, l)
    <3>1. \A h \in Digit : h \in Nat /\ (h # 0 => h > 0)
      BY BaseAssumption DEF Digit
    <3>2. e[l] \in Digit /\ e[l] # 0
      BY <2>7, <2>9, <2>10, <2>11
    <3>3. \A q \in 0..(l - 1) : e[q] \in Digit
      BY <2>11
    <3>4. Worth(e, l) \in Nat
      BY <3>3, WorthBound
    <3> QED BY <2>11, <3>1, <3>2, <3>4, PowerType
  <2>13. Prefix(b, b.len) = g + c * z
    <3>1. Worth(e, l + 1) = Worth(e, l) + e[l] * Power[l]
      BY <2>11, WorthNext
    <3>2. Prefix(b, b.len) = Worth(e, l + 1)
      BY <2>4, <2>7, <2>10, PrefixWorth
    <3> QED BY <2>12, <3>1, <3>2
  <2>14. PICK f \in Nat : f = Prefix(a, a.len) /\ f < z
    BY <1>1, <2>4, <2>12, PrefixBound
  <2>15. c * z >= z
    BY <2>12
  <2>16. f \in 0..(g + c * z - 1)
    BY <2>14, <2>15
  <2>17. Prefix(r, r.len) = 0
    BY <1>3, PrefixZero
  <2>18. f - 0 * (g + c * z) = f
    OBVIOUS
  <2> QED BY <2>13, <2>14, <2>16, <2>17, <2>18 DEF Divided
<1> QED BY <1>1, <1>2, <1>3

\* Dividing dividend and divisor in the same units gives the digits of the quotient.
LEMMA SameUnits ==
  ASSUME NEW n \in Nat, NEW q \in Nat, NEW v \in Nat, NEW e \in Nat, NEW w \in Nat \ {0},
         n = q * v + e, e < v
  PROVE  (n * w) \div (v * w) = q
<1>1. PICK c \in Nat \ {0} : c = v * w
  BY SMT
<1>2. e * w \in 0..(c - 1)
  <2>1. \A u \in Nat : u \in Nat \ {0} => (e + u) * w >= e * w + w /\ e * w \in Nat
    OBVIOUS
  <2>2. PICK u \in Nat \ {0} : v = e + u
    OBVIOUS
  <2> QED BY <1>1, <2>1, <2>2
<1>3. n * w = q * c + e * w
  <2>1. (q * v + e) * w = q * (v * w) + e * w
    OBVIOUS
  <2> QED BY <1>1, <2>1
<1>4. PICK h \in 0..(c - 1) : h = e * w
  BY <1>2
<1>5. (q * c + h) \div c = q
  BY StrideSplit
<1> QED BY <1>1, <1>3, <1>4, <1>5

-----------------------------------------------------------------------------
\* The dividend h, moved by m places to g, the divisor e, the quotient q and the remainder p.
LEMMA ScaledQuotient ==
  ASSUME NEW h \in Nat, NEW g \in Nat, NEW e \in Nat, NEW q \in Nat, NEW p \in Nat, g = q * e + p, p < e,
         NEW k \in Nat, NEW l \in Nat, NEW m \in Int, m = k - l,
         m >= 0 => g = h * Power[m],
         m < 0 => \E low \in Nat : low < Power[-m] /\ h = low + g * Power[-m]
  PROVE  (h * Power[k]) \div (e * Power[l]) = q
<1>1. PICK u \in Nat \ {0}, v \in Nat \ {0} : u = Power[k] /\ v = Power[l]
  BY PowerType
<1>2. CASE m >= 0
  <2>1. PICK w \in Nat : w = Power[m] /\ u = v * w
    <3>1. m \in Nat /\ k = l + m
      BY <1>2
    <3>2. Power[l + m] = Power[l] * Power[m]
      BY <3>1, PowerSum
    <3> QED BY <1>1, <3>1, <3>2, PowerType
  <2>2. h * (v * w) = (h * w) * v
    OBVIOUS
  <2>3. (g * v) \div (e * v) = q
    BY SameUnits
  <2> QED BY <1>1, <1>2, <2>1, <2>2, <2>3
<1>3. CASE m < 0
  <2>1. PICK n \in Nat : n = -m /\ l = k + n
    BY <1>3
  <2>2. PICK w \in Nat : w = Power[n] /\ v = u * w
    <3>1. Power[k + n] = Power[k] * Power[n]
      BY <2>1, PowerSum
    <3> QED BY <1>1, <2>1, <3>1, PowerType
  <2>3. PICK low \in Nat : low < w /\ h = low + g * w
    BY <1>3, <2>1, <2>2
  <2>4. PICK c \in Nat, z \in Nat : c = low + p * w /\ z = e * w
    OBVIOUS
  <2>5. c < z
    <3>1. PICK t \in Nat \ {0} : e = p + t
      OBVIOUS
    <3>2. (p + t) * w = p * w + t * w /\ t * w >= w /\ p * w \in Nat /\ t * w \in Nat
      BY SMT
    <3>3. PICK o \in Nat, f \in Nat : o = p * w /\ f = t * w
      BY <3>2
    <3> QED BY <2>3, <2>4, <3>1, <3>2, <3>3
  <2>6. h = q * z + c
    <3>1. (q * e + p) * w = q * (e * w) + p * w
      OBVIOUS
    <3>2. PICK o \in Nat, f \in Nat : o = q * z /\ f = p * w
      OBVIOUS
    <3>3. g * w = o + f
      BY <2>4, <3>1, <3>2
    <3>4. c = low + f
      BY <2>4, <3>2
    <3>5. low + (o + f) = o + (low + f)
      OBVIOUS
    <3> QED BY <2>3, <3>2, <3>3, <3>4, <3>5
  <2>7. z \in Nat \ {0}
    BY <2>5
  <2>8. (h * u) \div (z * u) = q
    BY <2>5, <2>6, SameUnits
  <2>9. e * (u * w) = (e * w) * u
    OBVIOUS
  <2> QED BY <1>1, <2>2, <2>4, <2>8, <2>9
<1> QED BY <1>2, <1>3

-----------------------------------------------------------------------------
\* The digits of the quotient are a natural number.
LEMMA QuotientNat ==
  ASSUME NEW g \in Nat, NEW e \in Nat, NEW q \in Int, g - q * e \in 0..(e - 1)
  PROVE  q \in Nat
<1>1. CASE q < 0
  <2>1. PICK k \in Nat : q = -(k + 1)
    <3>1. -q - 1 \in Nat /\ q = -((-q - 1) + 1)
      BY <1>1
    <3> QED BY <3>1
  <2>2. (-(k + 1)) * e = -(k * e + e) /\ k * e \in Nat
    OBVIOUS
  <2>3. g - q * e >= e
    BY <2>1, <2>2
  <2> QED BY <2>3
<1> QED BY <1>1

LEMMA DivReturnMeaning == ASSUME IInv, Meaning, DivReturn, UNCHANGED <<x, y, op0>> PROVE Meaning'
<1>1. /\ phase = "div" /\ i = r.len /\ phase' = "print" /\ UNCHANGED <<op, b, outside, wrapped>>
      /\ r' = [r EXCEPT !.sign = IF a.sign = b.sign THEN 0 ELSE 1, !.sci = UseSci(a, b)]
  BY DEF DivReturn
<1>2. /\ op = "/" /\ Result(a) /\ Number(b) /\ WellFormed(r) /\ a.len \in Nat /\ b.len \in Nat
      /\ r.point = Decimals /\ x \in Texts /\ y \in Texts
  BY <1>1, DivFacts
<1>3. /\ r'.sign = (IF a.sign = b.sign THEN 0 ELSE 1) /\ r'.len = r.len /\ r'.point = r.point /\ r'.data = r.data
  BY <1>1, <1>2 DEF WellFormed
<1>4. /\ op0 = "/" /\ b = FromStr(y) /\ a = AddZero(FromStr(x), Extension)
      /\ JudgeZero(b) /\ JudgeZero(FromStr(x)) /\ DivMeans
  BY <1>1 DEF Meaning, DivMeans
<1>5. CASE wrapped \/ (r.len = 0 /\ ~Normal(b))
  <2>1. Lost'
    BY <1>1, <1>2, <1>3, <1>5 DEF Lost, Normal, Integer
  <2> QED BY <1>1, <2>1, PrintOnly DEF ExactUnlessLost
<1>6. CASE ~wrapped /\ (r.len = 0 => Normal(b))
  <2>1. Divided
    BY <1>1, <1>4, <1>6, QuotientMeans
  <2>2. PICK n, m : n = FromStr(x) /\ m = Extension
    OBVIOUS
  <2>3. Number(n) /\ Result(n) /\ WellFormed(n) /\ n.len \in Nat /\ n.point \in Nat
    <3>1. Number(n)
      BY <1>2, <2>2, TextNumber
    <3> QED BY <3>1 DEF Number, Result, WellFormed
  <2>4. a = AddZero(n, m) /\ a.point = n.point /\ a.sign = n.sign /\ a.len = n.len + m
    BY <1>4, <2>2, <2>3 DEF AddZero, WellFormed
  <2>5. PICK u \in Nat, v \in Nat, d \in Nat : u = Len(x.frac) /\ v = Len(y.frac) /\ d = Decimals
    BY <1>2, PlacesType, DivisionAssumption
  <2>6. PICK p \in Nat : p = Places /\ p = u + v + d /\ p >= u /\ p >= v /\ p - d \in Nat
    <3>1. Places = u + v + d
      BY <2>5 DEF Places
    <3> QED BY <3>1
  <2>7. TextValue(x, p) = Value(n, p) /\ TextValue(y, p) = Value(b, p) /\ n.point \in 0..u /\ b.point \in 0..v
    <3>1. FromStr(x).point \in 0..u /\ TextValue(x, p) = Value(FromStr(x), p)
      BY <1>2, <2>5, <2>6, TextMeans
    <3>2. FromStr(y).point \in 0..v /\ TextValue(y, p) = Value(FromStr(y), p)
      BY <1>2, <2>5, <2>6, TextMeans
    <3> QED BY <1>4, <2>2, <3>1, <3>2
  <2>8. PICK s \in Nat, t \in Nat, o \in Nat : s = p - n.point /\ t = p - b.point /\ o = p - d
    BY <2>6, <2>7
  <2>9. m \in Int /\ m = (s + d) - t
    <3>1. m = b.point - n.point + d
      BY <2>2, <2>4, <2>5 DEF Extension
    <3> QED BY <2>7, <2>8, <3>1
  <2>10. PICK h \in Nat \ {0}, e \in Nat \ {0}, g \in Nat :
           h = Prefix(n, n.len) /\ e = Prefix(b, b.len) /\ g = Prefix(a, a.len)
    <3>1. Result(b)
      BY <1>2 DEF Number
    <3>2. Prefix(n, n.len) \in Nat /\ Prefix(n, n.len) > 0
      BY <1>4, <2>2, <2>3, ZeroWorth
    <3>3. Prefix(b, b.len) \in Nat /\ Prefix(b, b.len) > 0
      BY <1>4, <3>1, ZeroWorth
    <3>4. Prefix(a, a.len) \in Nat
      BY <1>2, ZeroWorth
    <3> QED BY <3>2, <3>3, <3>4
  <2>11. PICK q \in Int : q = Prefix(r, r.len)
    <3>1. \A k \in 0..(r.len - 1) : r.data[k] \in Int
      BY <1>2 DEF WellFormed
    <3>2. r.len \in Nat
      BY <1>2 DEF WellFormed
    <3> QED BY <3>1, <3>2, PrefixWorth, WorthInt
  <2>12. q \in Nat /\ g - q * e \in 0..(e - 1)
    <3>1. g - q * e \in 0..(e - 1)
      BY <2>1, <2>10, <2>11 DEF Divided
    <3> QED BY <3>1, QuotientNat
  <2>13. PICK k \in Nat : k = g - q * e /\ g = q * e + k /\ k < e
    <3>1. PICK c \in Int : c = q * e
      BY <2>12
    <3> QED BY <2>12, <3>1
  <2>14. /\ m >= 0 => g = h * Power[m]
         /\ m < 0 => \E low \in Nat : low < Power[-m] /\ h = low + g * Power[-m]
    <3>1. n.len + m \in Nat
      BY <1>2, <2>4
    <3> QED BY <2>3, <2>4, <2>9, <2>10, <3>1, MovedWorth
  <2>15. (h * Power[s + d]) \div (e * Power[t]) = q
    <3>1. s + d \in Nat
      OBVIOUS
    <3> QED BY <2>9, <2>12, <2>13, <2>14, <3>1, ScaledQuotient
  <2>16. PICK f \in Nat \ {0}, w \in Nat \ {0}, z \in Nat :
           /\ f = h * Power[s + d] /\ w = e * Power[t] /\ z = Power[o]
           /\ f = (h * Power[s]) * Power[d]
    <3>1. PICK f1 \in Nat \ {0}, w1 \in Nat \ {0} : f1 = Power[s] /\ w1 = Power[d] /\ Power[s + d] = f1 * w1
      <4>1. Power[s] \in Nat \ {0} /\ Power[d] \in Nat \ {0}
        BY PowerType
      <4> QED BY <4>1, PowerSum
    <3>2. PICK z1 \in Nat \ {0} : z1 = Power[t]
      BY PowerType
    <3>3. h * (f1 * w1) = (h * f1) * w1 /\ (h * f1) * w1 \in Nat \ {0} /\ e * z1 \in Nat \ {0}
      BY SMT
    <3> QED BY <3>1, <3>2, <3>3, PowerType
  <2>17. a.sign \in {0, 1} /\ b.sign \in {0, 1}
    BY <1>2 DEF Number, Result, WellFormed
  <2>18. TextValue(x, p) * Power[d] = Signed(a.sign, f)
    <3>1. TextValue(x, p) = Signed(a.sign, h * Power[s])
      BY <2>4, <2>7, <2>8, <2>10 DEF Value, Magnitude
    <3>2. PICK f1 \in Nat, w1 \in Nat : f1 = h * Power[s] /\ w1 = Power[d]
      <4>1. Power[s] \in Nat
        BY PowerType
      <4> QED BY <4>1, PowerType
    <3>3. (-f1) * w1 = -(f1 * w1)
      OBVIOUS
    <3> QED BY <2>16, <3>1, <3>2, <3>3 DEF Signed
  <2>19. TextValue(y, p) = Signed(b.sign, w)
    BY <2>7, <2>8, <2>10, <2>16 DEF Value, Magnitude
  <2>20. Truncated(Signed(a.sign, f), Signed(b.sign, w)) = IF a.sign = b.sign THEN q ELSE -q
    <3>1. PICK s1, t1 : s1 = a.sign /\ t1 = b.sign /\ (s1 = 0 \/ s1 = 1) /\ (t1 = 0 \/ t1 = 1)
      BY <2>17
    <3>2. Truncated(Signed(s1, f), Signed(t1, w)) = IF s1 = t1 THEN f \div w ELSE -(f \div w)
      BY <3>1, TruncatedSigned
    <3>3. f \div w = q
      BY <2>15, <2>16
    <3> QED BY <3>1, <3>2, <3>3
  <2>21. Wanted = (IF a.sign = b.sign THEN q ELSE -q) * z
    BY <1>4, <2>5, <2>6, <2>8, <2>16, <2>18, <2>19, <2>20 DEF Wanted
  <2>22. Value(r, Places)' = Signed(r'.sign, q * z)
    <3>1. Prefix(r, r.len)' = q
      BY <1>3, <2>11 DEF Prefix
    <3>2. Places' - r'.point = o /\ Places' = Places
      BY <1>2, <1>3, <2>5, <2>6, <2>8, WantedKept
    <3> QED BY <2>16, <3>1, <3>2 DEF Value, Magnitude
  <2>23. Exact'
    <3>1. (-q) * z = -(q * z)
      BY <2>12
    <3> QED BY <1>3, <2>12, <2>21, <2>22, <3>1, WantedKept DEF Exact, Signed
  <2> QED BY <1>1, <2>23, PrintOnly DEF ExactUnlessLost
<1> QED BY <1>5, <1>6

LEMMA MeaningInvariance == Spec => []Meaning
<1>1. Init => Meaning
  BY DEF Init, Meaning, CallMeans, AddMeans, SubMeans, MulMeans, DivMeans, ExactUnlessLost, Exact
<1>2. IInv /\ Sums /\ Meaning /\ [Next]_vars /\ IInv' => Meaning'
  <2> SUFFICES ASSUME IInv, Sums, Meaning, [Next]_vars, IInv' PROVE Meaning'
    OBVIOUS
  <2>1. CASE UNCHANGED vars
    <3>1. UNCHANGED <<phase, op, a, b, sign, i, carry, outside, r, wrapped, x, y, op0>>
      BY <2>1 DEF vars, loop, division, command
    <3>2. Near' = Near /\ Outer' = Outer /\ Wanted' = Wanted /\ Places' = Places /\ Extension' = Extension
      BY <3>1, WantedKept DEF Near, Outer, Extension
    <3>3. /\ Value(a, Places)' = Value(a, Places) /\ Value(b, Places)' = Value(b, Places)
          /\ Value(r, Places)' = Value(r, Places)
          /\ Magnitude(a, Places)' = Magnitude(a, Places) /\ Magnitude(b, Places)' = Magnitude(b, Places)
      BY <3>1, <3>2 DEF Value, Magnitude, Prefix
    <3>4. Lost' = Lost /\ Divided' = Divided
      BY <3>1 DEF Lost, Normal, Integer, Divided, Prefix
    <3>5. ExactUnlessLost'
      BY <3>1, <3>2, <3>3, <3>4 DEF Meaning, ExactUnlessLost, Exact
    <3>6. CallMeans' /\ AddMeans' /\ SubMeans' /\ MulMeans'
      BY <3>1, <3>2, <3>3 DEF Meaning, CallMeans, AddMeans, SubMeans, MulMeans
    <3>7. DivMeans'
      BY <3>1, <3>2, <3>4 DEF Meaning, DivMeans, JudgeZero
    <3> QED BY <3>1, <3>5, <3>6, <3>7 DEF Meaning
  <2>2. CASE Calculate
    <3>1. Rest
      BY <2>2 DEF Calculate, Rest, division, command, output
    <3> QED BY <2>2, <3>1, CalcAddMeaning, CalcSubMeaning, CalcMulMeaning, AddDigitMeaning,
               SubDigitMeaning, MulDigitMeaning DEF Calculate
  <2>3. CASE Divide
    <3>1. UNCHANGED <<x, y, op0>>
      BY <2>3 DEF Divide, command
    <3>2. DivSum
      BY DEF Sums
    <3> QED BY <2>3, <3>1, <3>2, CalcDivMeaning, DivStepMeaning, DivReturnMeaning DEF Divide
  <2> QED BY <2>1, <2>2, <2>3, ReadMeaning, UsageMeaning, ReturnMeaning DEF Next
<1> QED BY <1>1, <1>2, Invariance, SumsInvariance, PTL DEF Spec

(***************************************************************************)
(* For every base, all arguments and both signs of each: what the program  *)
(* is going to print is the sum, the difference, the product or the cut-off*)
(* quotient of the numbers its arguments denote, unless one of the four    *)
(* things named in Lost has happened.                                      *)
(***************************************************************************)
THEOREM ResultsExact == Spec => []ExactUnlessLost
<1>1. Meaning => ExactUnlessLost
  BY DEF Meaning
<1> QED BY <1>1, MeaningInvariance, PTL

-----------------------------------------------------------------------------
(***************************************************************************)
(* What print_bignumber puts on the screen.                                *)
(***************************************************************************)
\* A set of places that has with each place all lower ones is an interval.
LEMMA DownwardClosed ==
  ASSUME NEW m \in Nat, NEW Z, Z \subseteq 0..(m - 1), \A k \in Z : 0..k \subseteq Z
  PROVE  Cardinality(Z) \in 0..m /\ Z = 0..(Cardinality(Z) - 1)
<1>1. PICK T : T = {k \in Nat : k \notin Z}
  OBVIOUS
<1>2. T \subseteq Nat /\ m \in T
  BY <1>1
<1>3. PICK c \in T : \A k \in T : c <= k
  BY <1>2, LeastNatural
<1>4. c \in Nat /\ c <= m
  BY <1>1, <1>2, <1>3
<1>5. Z = 0..(c - 1)
  <2>1. ASSUME NEW k \in 0..(c - 1)  PROVE k \in Z
    <3>1. k \in Nat /\ ~(c <= k)
      BY <1>4
    <3> QED BY <1>1, <1>3, <3>1
  <2>2. ASSUME NEW k \in Z  PROVE k \in 0..(c - 1)
    <3>1. k \in Nat /\ (k >= c => c \in 0..k)
      BY <1>4
    <3>2. c \notin Z
      BY <1>1, <1>3
    <3>3. 0..k \subseteq Z
      OBVIOUS
    <3> QED BY <1>4, <3>1, <3>2, <3>3
  <2> QED BY <2>1, <2>2
<1>6. Cardinality(0..(c - 1)) = c
  <2>1. 0 \in Int /\ c - 1 \in Int /\ (0 > c - 1 => c = 0) /\ (c - 1) - 0 + 1 = c
    BY <1>4
  <2>2. Cardinality(0..(c - 1)) = IF 0 > c - 1 THEN 0 ELSE (c - 1) - 0 + 1
    BY <2>1, FS_Interval
  <2> QED BY <2>1, <2>2
<1> QED BY <1>4, <1>5, <1>6

LEMMA PassedZeros ==
  ASSUME NEW n, NEW times \in Nat, NEW limit \in Int, NEW p, p = Passed(n, times, limit)
  PROVE  /\ p \in 0..times /\ (limit >= 0 => p <= limit) /\ (limit < 0 => p = 0)
         /\ \A q \in 0..(p - 1) : High(n, q) = 0
<1>1. PICK Z : Z = {k \in 0..(times - 1) : k < limit /\ \A q \in 0..k : High(n, q) = 0}
  OBVIOUS
<1>2. \A k \in Z : 0..k \subseteq Z
  <2> SUFFICES ASSUME NEW k \in Z, NEW q \in 0..k  PROVE q \in Z
    OBVIOUS
  <2>1. k \in 0..(times - 1) /\ k < limit /\ \A s \in 0..k : High(n, s) = 0
    BY <1>1
  <2>2. q \in 0..(times - 1) /\ q < limit /\ \A s \in 0..q : s \in 0..k
    BY <2>1
  <2> QED BY <1>1, <2>1, <2>2
<1>3. p = Cardinality(Z) /\ Z \subseteq 0..(times - 1)
  BY <1>1 DEF Passed
<1>4. p \in 0..times /\ Z = 0..(p - 1)
  BY <1>2, <1>3, DownwardClosed
<1>5. \A q \in 0..(p - 1) : High(n, q) = 0 /\ q < limit
  <2> SUFFICES ASSUME NEW q \in 0..(p - 1)  PROVE High(n, q) = 0 /\ q < limit
    OBVIOUS
  <2>1. q \in Z /\ q \in 0..q
    BY <1>4
  <2> QED BY <1>1, <2>1
<1>6. p > 0 => p - 1 \in 0..(p - 1) /\ p - 1 < limit
  <2>1. p > 0 => p - 1 \in 0..(p - 1)
    BY <1>4
  <2> QED BY <1>5, <2>1
<1> QED BY <1>4, <1>5, <1>6

LEMMA LowAreZero ==
  ASSUME NEW n, n.len \in Nat, NEW z, z = LowZeros(n)
  PROVE  z \in 0..n.len /\ \A q \in 0..(z - 1) : n.data[q] = 0
<1>1. PICK Z : Z = {k \in 0..(n.len - 1) : \A q \in 0..k : n.data[q] = 0}
  OBVIOUS
<1>2. \A k \in Z : 0..k \subseteq Z
  <2> SUFFICES ASSUME NEW k \in Z, NEW q \in 0..k  PROVE q \in Z
    OBVIOUS
  <2>1. k \in 0..(n.len - 1) /\ \A s \in 0..k : n.data[s] = 0
    BY <1>1
  <2>2. q \in 0..(n.len - 1) /\ \A s \in 0..q : s \in 0..k
    BY <2>1
  <2> QED BY <1>1, <2>1, <2>2
<1>3. z = Cardinality(Z) /\ Z \subseteq 0..(n.len - 1)
  BY <1>1 DEF LowZeros
<1>4. z \in 0..n.len /\ Z = 0..(z - 1)
  BY <1>2, <1>3, DownwardClosed
<1>5. \A q \in 0..(z - 1) : n.data[q] = 0
  <2> SUFFICES ASSUME NEW q \in 0..(z - 1)  PROVE n.data[q] = 0
    OBVIOUS
  <2>1. q \in Z /\ q \in 0..q
    BY <1>4
  <2> QED BY <1>1, <2>1
<1> QED BY <1>4, <1>5

FrontZeros(n, p) == \A q \in 0..(p - 1) : High(n, q) = 0
EndZeros(n, z) == \A q \in 0..(z - 1) : n.data[q] = 0

\* The digits shown, from the first one that is not passed over to the last but zeros at the end.
LEMMA ShownWorth ==
  ASSUME NEW n, WellFormed(n), NEW zeros \in Nat, NEW times \in Nat, zeros + times = n.len,
         NEW p \in 0..times, FrontZeros(n, p), EndZeros(n, zeros),
         NEW s, s = Shown(n, times, p), NEW m, m = Len(s)
  PROVE  /\ m = times - p
         /\ \E w \in Int : w = SumFunction(TextTerms(s, m)) /\ w * Power[zeros] = Prefix(n, n.len)
<1>1. PICK c \in Nat, l \in Nat : c = times - p /\ l = n.len /\ l = zeros + times
  BY DEF WellFormed
<1>2. PICK d : d = n.data
  OBVIOUS
<1>3. \A q \in 0..(l - 1) : d[q] \in Int
  BY <1>1, <1>2 DEF WellFormed
<1>4. s = [k \in 1..c |-> d[l - 1 - (p + k - 1)]]
  BY <1>1, <1>2 DEF Shown, High
<1>5. \A k \in 1..c : s[k] = d[l - p - k] /\ s[k] \in Int
  <2> SUFFICES ASSUME NEW k \in 1..c  PROVE s[k] = d[l - p - k] /\ s[k] \in Int
    OBVIOUS
  <2>1. l - 1 - (p + k - 1) = l - p - k /\ l - p - k \in 0..(l - 1)
    BY <1>1, <1>2
  <2> QED BY <1>3, <1>4, <2>1
<1>6. Len(s) = c
  <2>1. s \in [1..c -> Int]
    BY <1>4, <1>5
  <2> QED BY <2>1
<1>7. PICK e : e = Backwards(s, c)
  OBVIOUS
<1>8. \A q \in 0..(c - 1) : e[q] = d[q + zeros]
  <2> SUFFICES ASSUME NEW q \in 0..(c - 1)  PROVE e[q] = d[q + zeros]
    OBVIOUS
  <2>1. c - q \in 1..c /\ l - p - (c - q) = q + zeros
    BY <1>1, <1>2
  <2> QED BY <1>5, <1>7, <2>1 DEF Backwards
<1>9. SumFunction(TextTerms(s, m)) = Worth(e, c)
  BY <1>5, <1>6, <1>7, BackwardsWorth
<1>10. PICK f : f = [q \in 0..(times - 1) |-> d[q + zeros]]
  OBVIOUS
<1>11. \A q \in 0..(times - 1) : f[q] \in Int /\ d[q + zeros] = f[q]
  <2>1. \A q \in 0..(times - 1) : q + zeros \in 0..(l - 1)
    BY <1>1, <1>2
  <2> QED BY <1>3, <1>10, <2>1
<1>12. Worth(f, times) = Worth(f, c)
  <2>1. \A q \in c..(times - 1) : f[q] = 0
    <3> SUFFICES ASSUME NEW q \in c..(times - 1)  PROVE f[q] = 0
      OBVIOUS
    <3>1. PICK o \in 0..(p - 1) : o = times - 1 - q
      BY <1>1, <1>2
    <3>2. n.len - 1 - o = q + zeros /\ q \in 0..(times - 1)
      BY <1>1, <1>2, <3>1
    <3>3. d[q + zeros] = 0
      BY <1>1, <1>2, <3>1, <3>2 DEF High, FrontZeros
    <3> QED BY <1>11, <3>2, <3>3
  <2>2. c <= times /\ \A q \in 0..(c - 1) : f[q] \in Int
    BY <1>1, <1>2, <1>11
  <2> QED BY <2>1, <2>2, WorthZeros
<1>13. Worth(f, c) = Worth(e, c)
  <2>1. \A q \in 0..(c - 1) : e[q] = f[q]
    BY <1>1, <1>2, <1>8, <1>11
  <2> QED BY <2>1, WorthEqual
<1>14. Worth(d, times + zeros) = Worth(d, zeros) + Power[zeros] * Worth(f, times)
  <2>1. \A q \in 0..(zeros - 1) : d[q] \in Int
    BY <1>1, <1>2, <1>3
  <2> QED BY <1>11, <2>1, WorthMoved
<1>15. Worth(d, zeros) = 0
  <2>1. \A q \in 0..(zeros - 1) : d[q] = 0
    BY <1>1, <1>2 DEF EndZeros
  <2>2. Worth(d, zeros) = Worth(d, 0)
    <3>1. \A q \in 0..(0 - 1) : d[q] \in Int
      OBVIOUS
    <3> QED BY <2>1, <3>1, WorthZeros
  <2> QED BY <2>2, WorthZero
<1>16. PICK v \in Int, w \in Nat : v = Worth(f, times) /\ w = Power[zeros]
  <2>1. Worth(f, times) \in Int
    BY <1>11, WorthInt
  <2> QED BY <2>1, PowerType
<1>17. Prefix(n, n.len) = Worth(d, times + zeros)
  BY <1>1, <1>2, PrefixWorth
<1>18. 0 + w * v = v * w /\ v * w \in Int
  OBVIOUS
<1> QED BY <1>1, <1>2, <1>6, <1>9, <1>12, <1>13, <1>14, <1>15, <1>16, <1>17, <1>18

-----------------------------------------------------------------------------
Whole(t) == SumFunction(TextTerms(t.digits, Len(t.digits)))
PointDigits(t) == IF t.points = <<>> THEN 0 ELSE Len(t.digits) - t.points[1]

LEMMA ReadsBack ==
  ASSUME NEW t, NEW n, t.neg <=> n.sign = 1, NEW p \in Nat, Whole(t) \in Int,
         p + t.exp - PointDigits(t) \in Nat,
         Whole(t) * Power[p + t.exp - PointDigits(t)] = Prefix(n, n.len) * Power[p - n.point]
  PROVE  ReadBack(t, p) = Value(n, p)
<1>1. PICK h \in Nat, w \in Int : h = p + t.exp - PointDigits(t) /\ w = Whole(t)
  OBVIOUS
<1>2. ReadBack(t, p) = Signed(IF t.neg THEN 1 ELSE 0, w) * Power[h]
  BY <1>1 DEF ReadBack, TextTerms, Whole, PointDigits
<1>3. PICK v \in Nat : v = Power[h]
  BY PowerType
<1>4. Value(n, p) = Signed(n.sign, w * v)
  BY <1>1, <1>3 DEF Value, Magnitude
<1>5. (-w) * v = -(w * v)
  BY <1>3
<1> QED BY <1>2, <1>3, <1>4, <1>5 DEF Signed

\* Without an exponent: every digit is there and the point is at its place.
LEMMA PlainReadsBack ==
  ASSUME NEW n, WellFormed(n), n.len > 0, n.point <= n.len, NEW places \in Nat, n.point <= places,
         NEW t, t = Plain(n)
  PROVE  Readable(t) /\ ReadBack(t, places) = Value(n, places)
<1>1. PICK l \in Nat, k \in Nat : l = n.len /\ k = n.point /\ k <= l /\ l > 0 /\ k <= places
  BY DEF WellFormed
<1>2. PICK p \in 0..l : p = Passed(n, l, l - k - 1) /\ (k < l => p <= l - k - 1) /\ (k = l => p = 0)
                        /\ FrontZeros(n, p)
  <2>1. PICK p : p = Passed(n, l, l - k - 1)
    OBVIOUS
  <2>2. l - k - 1 \in Int
    BY <1>1
  <2>3. /\ p \in 0..l /\ (l - k - 1 >= 0 => p <= l - k - 1) /\ (l - k - 1 < 0 => p = 0)
        /\ \A q \in 0..(p - 1) : High(n, q) = 0
    BY <2>1, <2>2, PassedZeros
  <2> QED BY <1>1, <2>1, <2>3 DEF FrontZeros
<1>3. /\ t.neg = (n.sign = 1) /\ t.digits = Shown(n, l, p) /\ t.exp = 0
      /\ t.points = IF k # 0 THEN <<l - k - p>> ELSE <<>>
  <2>1. /\ t.neg = (n.sign = 1 /\ n.len > 0) /\ t.digits = Shown(n, l, p) /\ t.exp = 0
        /\ t.points = PointPlace(n, l, p)
    BY <1>1, <1>2 DEF Plain
  <2>2. k # 0 => l - k \in p..(l - 1)
    BY <1>1, <1>2
  <2>3. PointPlace(n, l, p) = IF k # 0 THEN <<l - k - p>> ELSE <<>>
    BY <1>1, <2>2 DEF PointPlace
  <2> QED BY <2>1, <2>3
<1>4. PICK s, m : s = t.digits /\ m = Len(s)
  OBVIOUS
<1>5. m = l - p /\ \E w \in Int : w = SumFunction(TextTerms(s, m)) /\ w = Prefix(n, n.len)
  <2>1. PICK z \in Nat : z = 0
    OBVIOUS
  <2>2. z + l = n.len /\ EndZeros(n, z)
    BY <1>1, <2>1 DEF EndZeros
  <2>3. m = l - p /\ \E w \in Int : w = SumFunction(TextTerms(s, m)) /\ w * Power[z] = Prefix(n, n.len)
    <3>1. PICK g : g = p
      OBVIOUS
    <3>2. z + l = n.len /\ g \in 0..l /\ EndZeros(n, z) /\ FrontZeros(n, g) /\ s = Shown(n, l, g) /\ m = Len(s)
      BY <1>2, <1>3, <1>4, <2>2, <3>1
    <3>3. m = l - g /\ \E w \in Int : w = SumFunction(TextTerms(s, m)) /\ w * Power[z] = Prefix(n, n.len)
      BY <3>2, ShownWorth
    <3> QED BY <3>1, <3>3
  <2>4. Power[z] = 1
    BY <2>1, PowerDef
  <2>5. PICK w \in Int : w = SumFunction(TextTerms(s, m)) /\ w * Power[z] = Prefix(n, n.len)
    BY <2>3
  <2>6. w = Prefix(n, n.len)
    <3>1. w * Power[z] = w
      BY <2>4
    <3> QED BY <2>5, <3>1
  <2> QED BY <2>3, <2>5, <2>6
<1>6. m \in Nat /\ m > 0
  BY <1>1, <1>2, <1>5
<1>7. PICK w \in Int : w = SumFunction(TextTerms(s, m)) /\ w = Prefix(n, n.len)
  BY <1>5
<1>8. PointDigits(t) = k
  <2>1. m - (l - k - p) = k
    BY <1>1, <1>2, <1>5
  <2>2. CASE k # 0
    <3>1. t.points = <<l - k - p>> /\ t.points # <<>> /\ t.points[1] = l - k - p
      BY <1>3, <2>2
    <3> QED BY <1>4, <2>1, <3>1 DEF PointDigits
  <2>3. CASE k = 0
    BY <1>3, <2>3 DEF PointDigits
  <2> QED BY <2>2, <2>3
<1>9. Whole(t) = w
  BY <1>4, <1>7 DEF Whole
<1>10. ReadBack(t, places) = Value(n, places)
  <2>1. t.neg <=> n.sign = 1
    BY <1>3
  <2>2. PICK h \in Nat : h = places - k /\ h = places + t.exp - PointDigits(t) /\ h = places - n.point
    BY <1>1, <1>3, <1>8
  <2>3. Whole(t) * Power[h] = Prefix(n, n.len) * Power[h] /\ Whole(t) \in Int
    BY <1>7, <1>9
  <2> QED BY <2>1, <2>2, <2>3, ReadsBack
<1>11. Readable(t)
  <2>1. t.digits # <<>>
    BY <1>4, <1>6
  <2>2. Len(t.points) <= 1
    BY <1>3
  <2> QED BY <2>1, <2>2 DEF Readable
<1> QED BY <1>10, <1>11

TwoShown(n, z) == n.len - z >= 2 /\ (High(n, 0) # 0 \/ High(n, 1) # 0)

\* With an exponent: the zeros at the end are in the exponent, and so are the digits behind the point.
LEMMA ScientificReadsBack ==
  ASSUME NEW n, WellFormed(n), n.point = 0, NEW places \in Nat, NEW z, z = LowZeros(n),
         TwoShown(n, z), NEW t, t = Scientific(n, z)
  PROVE  Readable(t) /\ ReadBack(t, places) = Value(n, places)
<1>1. PICK l \in Nat, o \in Nat, f \in Nat : l = n.len /\ o = z /\ f = l - z /\ l = o + f /\ f >= 2 /\ EndZeros(n, o)
  <2>1. n.len \in Nat
    BY DEF WellFormed
  <2>2. z \in 0..n.len /\ EndZeros(n, z)
    BY <2>1, LowAreZero DEF EndZeros
  <2> QED BY <2>1, <2>2 DEF TwoShown
<1>2. PICK p \in Nat : p = Passed(n, f, l) /\ p <= 1 /\ p \in 0..f /\ FrontZeros(n, p)
  <2>1. PICK p : p = Passed(n, f, l)
    OBVIOUS
  <2>2. l \in Int
    OBVIOUS
  <2>3. p \in 0..f /\ FrontZeros(n, p)
    BY <2>1, <2>2, PassedZeros DEF FrontZeros
  <2>4. p <= 1
    <3>1. CASE p >= 2
      <4>1. 0 \in 0..(p - 1) /\ 1 \in 0..(p - 1)
        BY <2>3, <3>1
      <4> QED BY <2>3, <4>1 DEF FrontZeros, TwoShown
    <3> QED BY <2>3, <3>1
  <2> QED BY <2>1, <2>3, <2>4
<1>3. /\ t.neg = (n.sign = 1) /\ t.digits = Shown(n, f, p)
      /\ t.exp = (IF f = 2 THEN o ELSE l - 2)
      /\ t.points = IF f > 2 THEN <<2 - p>> ELSE <<>>
  <2>1. n.len - n.point = l
    BY <1>1
  <2>2. /\ t.neg = (n.sign = 1 /\ f > 0) /\ t.digits = Shown(n, f, p)
        /\ t.exp = (IF p >= f THEN 0 ELSE IF f = 2 THEN z ELSE n.len - 2)
        /\ t.points = PointPlace(n, f, p) \o IF f > 2 /\ p <= 1 /\ (n.point = 0 \/ l # 1) THEN <<2 - p>> ELSE <<>>
    BY <1>1, <1>2, <2>1 DEF Scientific
  <2>3. PointPlace(n, f, p) = <<>>
    BY DEF PointPlace
  <2>4. <<>> \o <<2 - p>> = <<2 - p>> /\ <<>> \o <<>> = <<>>
    OBVIOUS
  <2>5. ~(p >= f) /\ f > 0
    BY <1>1, <1>2
  <2>6. t.exp = IF f = 2 THEN o ELSE l - 2
    BY <1>1, <2>2, <2>5
  <2>7. t.points = PointPlace(n, f, p) \o IF f > 2 THEN <<2 - p>> ELSE <<>>
    BY <1>2, <2>2
  <2>8. t.points = IF f > 2 THEN <<2 - p>> ELSE <<>>
    <3>1. CASE f > 2
      BY <2>3, <2>4, <2>7, <3>1
    <3>2. CASE ~(f > 2)
      BY <2>3, <2>4, <2>7, <3>2
    <3> QED BY <3>1, <3>2
  <2> QED BY <2>2, <2>5, <2>6, <2>8
<1>4. PICK s, m : s = t.digits /\ m = Len(s)
  OBVIOUS
<1>5. m = f - p /\ \E w \in Int : w = SumFunction(TextTerms(s, m)) /\ w * Power[o] = Prefix(n, n.len)
  <2>1. o \in Nat /\ f \in Nat /\ o + f = n.len /\ p \in 0..f /\ EndZeros(n, o) /\ FrontZeros(n, p)
    BY <1>1, <1>2
  <2>2. s = Shown(n, f, p) /\ m = Len(s)
    BY <1>3, <1>4
  <2>3. PICK g : g = p
    OBVIOUS
  <2>4. o + f = l /\ l = n.len /\ g \in 0..f /\ EndZeros(n, o) /\ FrontZeros(n, g) /\ s = Shown(n, f, g)
    BY <1>1, <2>1, <2>2, <2>3
  <2>5. m = f - g /\ \E w \in Int : w = SumFunction(TextTerms(s, m)) /\ w * Power[o] = Prefix(n, n.len)
    BY <2>1, <2>2, <2>4, ShownWorth
  <2> QED BY <2>3, <2>5
<1>6. m \in Nat /\ m > 0
  <2>1. \A u, v \in Nat : u >= 2 /\ v <= 1 => u - v \in Nat /\ u - v > 0
    OBVIOUS
  <2>2. f \in Nat /\ p \in Nat /\ f >= 2 /\ p <= 1
    BY <1>1, <1>2
  <2>3. f - p \in Nat /\ f - p > 0
    BY <2>1, <2>2
  <2> QED BY <1>5, <2>3
<1>7. PICK w \in Int : w = Whole(t) /\ w * Power[o] = Prefix(n, n.len)
  BY <1>4, <1>5 DEF Whole
<1>8. PointDigits(t) = IF f > 2 THEN f - 2 ELSE 0
  <2>1. CASE f > 2
    <3>1. t.points = <<2 - p>> /\ t.points # <<>> /\ t.points[1] = 2 - p
      BY <1>3, <2>1
    <3>2. m - (2 - p) = f - 2
      BY <1>2, <1>5
    <3> QED BY <1>4, <2>1, <3>1, <3>2 DEF PointDigits
  <2>2. CASE ~(f > 2)
    BY <1>3, <2>2 DEF PointDigits
  <2> QED BY <2>1, <2>2
<1>9. t.exp - PointDigits(t) = o /\ places + t.exp - PointDigits(t) = places + o
  <2>1. CASE f = 2
    BY <1>3, <1>8, <2>1
  <2>2. CASE f > 2
    <3>1. t.exp = l - 2 /\ PointDigits(t) = f - 2
      BY <1>3, <1>8, <2>2
    <3>2. (l - 2) - (f - 2) = o /\ places + (l - 2) - (f - 2) = places + o
      BY <1>1
    <3> QED BY <3>1, <3>2
  <2> QED BY <1>1, <2>1, <2>2
<1>10. ReadBack(t, places) = Value(n, places)
  <2>1. t.neg <=> n.sign = 1
    BY <1>3
  <2>2. PICK u \in Nat, v \in Nat : u = Power[places] /\ v = Power[o] /\ Power[places + o] = u * v
    BY PowerSum, PowerType
  <2>3. w * (u * v) = (w * v) * u
    OBVIOUS
  <2>4. w * Power[places + o] = Prefix(n, n.len) * Power[places]
    BY <1>7, <2>2, <2>3
  <2>5. PICK h \in Nat : h = places + o /\ h = places + t.exp - PointDigits(t)
    BY <1>9
  <2>6. places - n.point = places
    OBVIOUS
  <2> QED BY <1>7, <2>1, <2>4, <2>5, <2>6, ReadsBack
<1>11. Readable(t)
  <2>1. t.digits # <<>>
    BY <1>4, <1>6
  <2>2. Len(t.points) <= 1
    BY <1>3
  <2> QED BY <2>1, <2>2 DEF Readable
<1> QED BY <1>10, <1>11

-----------------------------------------------------------------------------
(***************************************************************************)
(* What the print routine is given: an invariant.                          *)
(***************************************************************************)
ResultShape ==
  /\ op # "?"
  /\ r.point <= Places
  /\ op = "-" => r.sci = 0
  /\ r.sci # 0 => r.sci = UseSci(a, b)
  /\ op \in {"+", "x"} /\ a.point = 0 /\ b.point = 0 => r.point = 0

Shapes ==
  /\ phase \in {"add", "mul"} => r.sci = UseSci(a, b)
  /\ phase = "sub" => r.sci = 0
  /\ phase = "print" => ResultShape
  /\ phase = "end" => PrintsResult

Shapeless == {"read", "call", "div", "divsub", "exit", "undefined"}

LEMMA NoShape == ASSUME phase' \in Shapeless PROVE Shapes'
BY DEF Shapes, Shapeless

LEMMA StartShape == ASSUME IInv, CalcAdd \/ CalcSub \/ CalcMul PROVE Shapes'
<1>1. phase = "call"
  BY DEF CalcAdd, CalcSub, CalcMul
<1>2. CASE phase' = "call"
  BY <1>2, NoShape DEF Shapeless
<1>3. CASE CalcMul
  <2>1. phase' = "mul" /\ UNCHANGED <<a, b>> /\ r'.sci = UseSci(a, b)
    BY <1>3 DEF CalcMul, Start, Temp
  <2> QED BY <2>1 DEF Shapes, UseSci
<1>4. CASE CalcAdd /\ phase' # "call"
  <2>1. phase' = "add" /\ UNCHANGED <<a, b>> /\ r'.sci = UseSci(a, b)
    BY <1>1, <1>4 DEF CalcAdd, Start, Call, Temp
  <2> QED BY <2>1 DEF Shapes, UseSci
<1>5. CASE CalcSub /\ phase' # "call"
  <2>1. phase' = "sub" /\ r'.sci = 0
    BY <1>1, <1>5 DEF CalcSub, Start, Call, Temp
  <2> QED BY <2>1 DEF Shapes
<1> QED BY <1>2, <1>3, <1>4, <1>5

LEMMA LoopShape == ASSUME IInv, Shapes, AddDigit \/ SubDigit \/ MulDigit \/ MulRow PROVE Shapes'
<1>1. phase' = phase /\ phase \in {"add", "sub", "mul"} /\ UNCHANGED <<a, b>>
  BY DEF AddDigit, SubDigit, MulDigit, MulRow, Loop
<1>2. WellFormed(r)
  BY DEF IInv, TypeOK
<1>3. r'.sci = r.sci
  BY <1>2 DEF AddDigit, SubDigit, MulDigit, MulRow, Write, WellFormed
<1>4. UseSci(a, b)' = UseSci(a, b)
  BY <1>1 DEF UseSci
<1> QED BY <1>1, <1>3, <1>4 DEF Shapes

LEMMA ReturnShape == ASSUME IInv, Meaning, Shapes, Return PROVE Shapes'
<1>1. /\ phase' = "print" /\ UNCHANGED <<op, a, b, x, y, op0>>
      /\ r' = (IF sign = None THEN r ELSE [r EXCEPT !.sign = sign])
      /\ phase \in {"add", "sub", "mul"}
  BY DEF Return, loop, command
<1>2. WellFormed(r)
  BY DEF IInv, TypeOK
<1>3. r'.sci = r.sci /\ r'.point = r.point
  BY <1>1, <1>2 DEF WellFormed
<1>4. Places' = Places /\ UseSci(a, b)' = UseSci(a, b)
  BY <1>1 DEF Places, UseSci
<1>5. a.point \in Nat /\ b.point \in Nat
  BY <1>1, LoopFacts DEF IInv, Looping
<1>6. CASE phase \in {"add", "sub"}
  <2>1. r.point = Max2(a.point, b.point) /\ Near /\ (phase = "sub" => op = "-") /\ (phase = "add" => op = "+")
    BY <1>6 DEF IInv, Looping, Allocated, Meaning, AddMeans, SubMeans
  <2>2. r.point <= Places /\ (a.point = 0 /\ b.point = 0 => r.point = 0)
    BY <2>1 DEF Near, Max2
  <2>3. ResultShape'
    BY <1>1, <1>3, <1>4, <1>6, <2>1, <2>2 DEF ResultShape, Shapes
  <2> QED BY <1>1, <2>3 DEF Shapes
<1>7. CASE phase = "mul"
  <2>1. /\ op = "x" /\ r.point = a.point + b.point /\ x \in Texts /\ y \in Texts
        /\ a = FromStr(x) /\ b = FromStr(y)
    BY <1>7 DEF IInv, Looping, Allocated, Meaning, MulMeans
  <2>2. PICK u \in Nat, v \in Nat, d \in Nat : u = Len(x.frac) /\ v = Len(y.frac) /\ d = Decimals
    BY PlacesType, DivisionAssumption
  <2>3. FromStr(x).point \in 0..u /\ FromStr(y).point \in 0..v
    <3>1. u >= Len(x.frac) /\ v >= Len(y.frac)
      BY <2>2
    <3> QED BY <2>1, <2>2, <3>1, TextMeans
  <2>4. Places = u + v + d
    BY <2>2 DEF Places
  <2>5. r.point <= Places /\ (a.point = 0 /\ b.point = 0 => r.point = 0)
    BY <2>1, <2>3, <2>4
  <2>6. ResultShape'
    BY <1>1, <1>3, <1>4, <1>7, <2>1, <2>5 DEF ResultShape, Shapes
  <2> QED BY <1>1, <2>6 DEF Shapes
<1> QED BY <1>1, <1>6, <1>7

LEMMA DivideShape ==
  ASSUME IInv, CalcDiv \/ Subtract \/ RemainderDigit \/ QuotientDigit \/ DivReturn, UNCHANGED <<x, y, op0>>
  PROVE  Shapes'
<1>1. Places' = Places
  BY DEF Places
<1>2. PICK u \in Nat, v \in Nat, d \in Nat : u = Len(x.frac) /\ v = Len(y.frac) /\ d = Decimals
  BY PlacesType, DivisionAssumption
<1>3. Places = u + v + d
  BY <1>2 DEF Places
<1>4. 0 <= Places /\ Decimals <= Places
  <2>1. u + v + d >= d /\ u + v + d >= 0
    OBVIOUS
  <2> QED BY <1>2, <1>3, <2>1
<1>5. CASE DivReturn
  <2>1. /\ phase = "div" /\ phase' = "print" /\ UNCHANGED <<op, a, b>>
        /\ r' = [r EXCEPT !.sign = IF a.sign = b.sign THEN 0 ELSE 1, !.sci = UseSci(a, b)]
    BY <1>5 DEF DivReturn
  <2>2. op = "/" /\ WellFormed(r) /\ r.point = Decimals
    BY <2>1, DivFacts
  <2>3. r'.sci = UseSci(a, b) /\ r'.point = Decimals
    BY <2>1, <2>2 DEF WellFormed
  <2>4. ResultShape'
    BY <1>1, <1>4, <2>1, <2>2, <2>3 DEF ResultShape, UseSci
  <2> QED BY <2>1, <2>4 DEF Shapes
<1>6. CASE CalcDiv
  <2>1. op = "/" /\ op' = "/"
    BY <1>6 DEF CalcDiv
  <2>2. CASE phase' = "print" /\ r' = Temp(1, 0, 0, 0)
    <3>1. r'.point = 0 /\ r'.sci = 0
      BY <2>2 DEF Temp
    <3>2. ResultShape'
      BY <1>1, <1>4, <2>1, <3>1 DEF ResultShape
    <3> QED BY <2>2, <3>2 DEF Shapes
  <2>3. CASE phase' \in {"exit", "undefined", "div"}
    BY <2>3, NoShape DEF Shapeless
  <2> QED BY <1>6, <2>2, <2>3 DEF CalcDiv
<1>7. CASE Subtract \/ RemainderDigit \/ QuotientDigit
  <2>1. phase' \in {"div", "divsub"}
    BY <1>7 DEF Subtract, RemainderDigit, QuotientDigit
  <2> QED BY <2>1, NoShape DEF Shapeless
<1> QED BY <1>5, <1>6, <1>7

LEMMA PrintShape == ASSUME IInv, Meaning, Shapes, PrintBignumber PROVE Shapes'
<1>1. /\ phase = "print" /\ phase' = "end" /\ r' = Adjusted(r) /\ text' = Printed(r', leftover')
      /\ UNCHANGED <<op, a, b, sign, carry, outside, wrapped, x, y, op0>>
  BY DEF PrintBignumber, loop, division, command
<1>2. /\ WellFormed(r) /\ r.sci \in Nat /\ r.len \in Nat /\ r.point \in Nat /\ Places \in Nat
  BY PlacesType DEF IInv, TypeOK, WellFormed
<1>3. ResultShape /\ ExactUnlessLost
  BY <1>1 DEF Shapes, Meaning
<1>4. Places' = Places /\ Wanted' = Wanted /\ UseSci(a, b)' = UseSci(a, b)
  BY <1>1, WantedKept DEF UseSci
<1>5. r'.len = r.len
  BY <1>1, <1>2 DEF Adjusted, WellFormed
<1>6. Lost' = Lost
  BY <1>1, <1>5 DEF Lost, Normal, Integer
<1>7. ASSUME leftover' = 0, ~Lost', Printable'  PROVE PrintsWanted'
  <2>1. Value(r, Places) = Wanted
    BY <1>1, <1>3, <1>6, <1>7 DEF ExactUnlessLost, Exact
  <2>2. /\ r'.len > 0 /\ r'.point <= r'.len
        /\ \/ op = "-" \/ UseSci(a, b) = 0
           \/ op # "/" /\ a.point = 0 /\ b.point = 0 /\ TwoDigitsShown'
    BY <1>1, <1>4, <1>7 DEF Printable
  <2>3. r' = r
    <3>1. CASE op = "-" \/ UseSci(a, b) = 0
      <4>1. r.sci = 0
        BY <1>3, <3>1 DEF ResultShape
      <4> QED BY <1>1, <4>1 DEF Adjusted
    <3>2. CASE op # "/" /\ a.point = 0 /\ b.point = 0 /\ r.sci # 0
      <4>1. op \in {"+", "x", "-"}
        BY <1>3, <3>2 DEF ResultShape, IInv, TypeOK, Operations
      <4>2. r.point = 0
        BY <1>3, <3>2, <4>1 DEF ResultShape
      <4> QED BY <1>1, <4>2 DEF Adjusted
    <3>3. CASE r.sci = 0
      BY <1>1, <3>3 DEF Adjusted
    <3> QED BY <2>2, <3>1, <3>2, <3>3
  <2>4. text' = Printed(r, 0) /\ r.len > 0 /\ r.point <= r.len /\ r.point <= Places
    BY <1>1, <1>3, <1>7, <2>2, <2>3 DEF ResultShape
  <2>5. CASE JudgeSci(r, 0) = 0
    <3>1. text' = Plain(r)
      BY <2>4, <2>5 DEF Printed
    <3>2. Readable(text') /\ ReadBack(text', Places) = Value(r, Places)
      BY <1>2, <2>4, <3>1, PlainReadsBack
    <3> QED BY <1>4, <2>1, <3>2 DEF PrintsWanted
  <2>6. CASE JudgeSci(r, 0) # 0
    <3>1. r.sci = 1 /\ r.point = 0 /\ JudgeSci(r, 0) = LowZeros(r)
      BY <2>6 DEF JudgeSci
    <3>2. TwoDigitsShown
      <4>1. ~(op = "-" \/ UseSci(a, b) = 0)
        BY <1>3, <3>1 DEF ResultShape
      <4>2. TwoDigitsShown'
        BY <2>2, <4>1
      <4> QED BY <2>3, <4>2 DEF TwoDigitsShown, LowZeros, High
    <3>3. PICK z : z = LowZeros(r) /\ z # 0
      BY <2>6, <3>1
    <3>4. TwoShown(r, z)
      BY <3>2, <3>3 DEF TwoDigitsShown, TwoShown
    <3>5. text' = Scientific(r, z)
      BY <2>4, <3>1, <3>3 DEF Printed
    <3>6. Readable(text') /\ ReadBack(text', Places) = Value(r, Places)
      BY <1>2, <3>1, <3>3, <3>4, <3>5, ScientificReadsBack
    <3> QED BY <1>4, <2>1, <3>6 DEF PrintsWanted
  <2> QED BY <2>5, <2>6
<1>8. PrintsResult'
  BY <1>7 DEF PrintsResult
<1> QED BY <1>1, <1>8 DEF Shapes

LEMMA ShapesInvariance == Spec => []Shapes
<1>1. Init => Shapes
  BY DEF Init, Shapes
<1>2. IInv /\ Meaning /\ Shapes /\ [Next]_vars => Shapes'
  <2> SUFFICES ASSUME IInv, Meaning, Shapes, [Next]_vars PROVE Shapes'
    OBVIOUS
  <2>1. CASE UNCHANGED vars
    <3>1. UNCHANGED <<phase, op, a, b, carry, outside, r, wrapped, x, y, op0, leftover, text>>
      BY <2>1 DEF vars, loop, division, command, output
    <3>2. Places' = Places /\ Wanted' = Wanted /\ UseSci(a, b)' = UseSci(a, b)
      BY <3>1, WantedKept DEF UseSci
    <3>3. Lost' = Lost /\ TwoDigitsShown' = TwoDigitsShown /\ PrintsWanted' = PrintsWanted
      BY <3>1, <3>2 DEF Lost, Normal, Integer, TwoDigitsShown, LowZeros, High, PrintsWanted
    <3>4. Printable' = Printable
      BY <3>1, <3>2, <3>3 DEF Printable
    <3>5. PrintsResult' = PrintsResult
      BY <3>1, <3>3, <3>4 DEF PrintsResult
    <3>6. ResultShape' = ResultShape
      BY <3>1, <3>2 DEF ResultShape
    <3> QED BY <3>1, <3>2, <3>5, <3>6 DEF Shapes
  <2>2. CASE Calculate
    BY <2>2, StartShape, LoopShape DEF Calculate
  <2>3. CASE Divide
    <3>1. UNCHANGED <<x, y, op0>>
      BY <2>3 DEF Divide, command
    <3> QED BY <2>3, <3>1, DivideShape DEF Divide
  <2>4. CASE Read \/ Usage
    <3>1. phase' \in Shapeless
      BY <2>4 DEF Read, Usage, Shapeless
    <3> QED BY <3>1, NoShape
  <2> QED BY <2>1, <2>2, <2>3, <2>4, ReturnShape, PrintShape DEF Next
<1> QED BY <1>1, <1>2, Invariance, MeaningInvariance, PTL DEF Spec

(***************************************************************************)
(* For every base and all arguments: in a build where judgeSci leaves 0,   *)
(* what print_bignumber puts on the screen for a printable result, read    *)
(* back, is the number wanted, unless one of the things named in Lost has  *)
(* happened.                                                               *)
(***************************************************************************)
THEOREM ResultsShown == Spec => []PrintsResult
<1>1. Shapes => PrintsResult
  BY DEF Shapes, PrintsResult
<1> QED BY <1>1, ShapesInvariance, PTL
=============================================================================
