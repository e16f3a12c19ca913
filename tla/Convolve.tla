------------------------------ MODULE Convolve ------------------------------
(***************************************************************************)
(* One call of cov (Project3, avx2_code.c:183-289; arm_code.c differs only *)
(* in the width of its vectors and in how it declares cc).  Three vector   *)
(* loops run under "#pragma omp parallel for":                             *)
(*                                                                         *)
(*   mul   p3  = p1 * p2            registers a, b, c                      *)
(*   add   sum = the three channels of p3 added    aa, bb, cc, m, n        *)
(*   acc   for each vector of places: cc = the sum over the points         *)
(*                                                                         *)
(* The "registers" are variables of cov, declared before the loops and so  *)
(* SHARED by the team: a thread can use what another one has just put      *)
(* there.  A step is one statement.  Every vector loop is followed by a    *)
(* tail for the cells left over, which writes the first of them only.      *)
(***************************************************************************)
EXTENDS ConvGather

CONSTANTS Builds,     \* "avx2" (avx2_code.c) and "neon" (arm_code.c); for ImageFilter also "scalar"
          Lanes,      \* floats in a vector: 8, or 4 on ARM
          Calls,      \* the calls considered
          Garbage     \* what memory holds that was never written

ASSUME ConvolveAssumption ==
  /\ Builds \subseteq {"avx2", "neon", "scalar"}
  /\ Lanes \in Nat \ {0}
  /\ Garbage \notin Int

VARIABLES build,      \* which of the two programs
          call,       \* the arguments and the size of the team
          stage,      \* the loop that runs
          place,      \* the vector of places the loop over finaldata is at
          iter,       \* the next or current iteration of each thread
          pc,         \* the statement of the loop body it is at; 1 between two
          reg,        \* the shared variables a, b, c, aa, bb, cc, m, n
          p3, sum, finaldata,     \* the intermediate buffers
          data,       \* what the caller gets
          disturbed   \* history: for each loop, the vectors for which another
                      \* thread changed a shared variable in use

vars == <<build, call, stage, place, iter, pc, reg, p3, sum, finaldata, data, disturbed>>

Loops == {"mul", "add", "acc"}
Names == {"a", "b", "c", "aa", "bb", "cc", "m", "n"}
Team == 0..(call.team - 1)

Unset(n) == [x \in 0..(n - 1) |-> Garbage]
Whole(n) == n \div Lanes                               \* vectors in n cells
Vec(f, v) == [l \in 0..(Lanes - 1) |-> f[v * Lanes + l]]
Put(f, v, r) == [x \in DOMAIN f |-> IF x \div Lanes = v THEN r[x % Lanes] ELSE f[x]]
Zero == [l \in 0..(Lanes - 1) |-> 0]

Plus(x, y)  == IF Garbage \in {x, y} THEN Garbage ELSE x + y
Times(x, y) == IF Garbage \in {x, y} THEN Garbage ELSE x * y
VAdd(r, q) == [l \in 0..(Lanes - 1) |-> Plus(r[l], q[l])]
VMul(r, q) == [l \in 0..(Lanes - 1) |-> Times(r[l], q[l])]

\* p30, p31, p32: one channel of p3; point[p]: one point of every place.
Channel(h) == [x \in 0..(Pixels(call) - 1) |-> p3[Channels * x + h]]
Point(p) == [k \in 0..(Places(call) - 1) |-> sum[Points(call) * k + p]]

Iterations == CASE stage = "mul" -> Whole(Cells(call))
                [] stage = "add" -> Whole(Pixels(call))
                [] OTHER         -> Points(call)

\* The static schedule: contiguous chunks, the first ones longer by one.
First(t, n) ==
  LET q == n \div call.team
      r == n % call.team
  IN  t * q + (IF t < r THEN t ELSE r)

Starting(n) == [t \in Team |-> First(t, n)]
Running(t) == iter[t] < First(t + 1, Iterations)

Init ==
  /\ build \in Builds
  /\ call \in Calls
  /\ stage = "mul"
  /\ place = 0
  /\ iter = Starting(Whole(Cells(call)))
  /\ pc = [t \in Team |-> 1]
  /\ reg = [r \in Names |-> IF r \in {"c", "n"} /\ build = "avx2"
                            THEN Zero ELSE Unset(Lanes)]
  /\ p3 = Unset(Cells(call))
  /\ sum = Unset(Pixels(call))
  /\ finaldata = Unset(Places(call))
  /\ data = Unset(Places(call))
  /\ disturbed = [s \in Loops |-> {}]

Set(r, v) == reg' = [reg EXCEPT ![r] = v]

\* The vector thread u works on, and the shared variables it has set for it and
\* is still going to use.
Vector(u) == IF stage = "acc" THEN place ELSE iter[u]

InUse(u) ==
  CASE stage = "mul" -> <<{}, {"a"}, {"a", "b"}, {"c"}>>[pc[u]]
    [] stage = "add" -> <<{}, {"aa"}, {"aa", "bb"}, {"aa", "bb", "cc"}, {"m", "cc"}, {"n"}>>[pc[u]]
    [] OTHER         -> <<{}, {"aa"}>>[pc[u]]

Overwritten(t) == {u \in Team \ {t} : \E r \in InUse(u) : reg'[r] # reg[r]}

\* Thread t has executed statement pc[t] of a body of length statements.
Advance(t, length) ==
  /\ pc' = [pc EXCEPT ![t] = IF @ = length THEN 1 ELSE @ + 1]
  /\ iter' = [iter EXCEPT ![t] = IF pc[t] = length THEN @ + 1 ELSE @]
  /\ disturbed' = [disturbed EXCEPT ![stage] = @ \cup {Vector(u) : u \in Overwritten(t)}]

Mul(t) ==
  /\ stage = "mul" /\ Running(t)
  /\ \/ pc[t] = 1 /\ Set("a", Vec(P1(call), iter[t])) /\ UNCHANGED p3
     \/ pc[t] = 2 /\ Set("b", Vec(P2(call), iter[t])) /\ UNCHANGED p3
     \/ pc[t] = 3 /\ Set("c", VMul(reg["a"], reg["b"])) /\ UNCHANGED p3
     \/ pc[t] = 4 /\ p3' = Put(p3, iter[t], reg["c"]) /\ UNCHANGED reg
  /\ Advance(t, 4)
  /\ UNCHANGED <<build, call, stage, place, sum, finaldata, data>>

Add(t) ==
  /\ stage = "add" /\ Running(t)
  /\ \/ pc[t] = 1 /\ Set("aa", Vec(Channel(0), iter[t])) /\ UNCHANGED sum
     \/ pc[t] = 2 /\ Set("bb", Vec(Channel(1), iter[t])) /\ UNCHANGED sum
     \/ pc[t] = 3 /\ Set("cc", Vec(Channel(2), iter[t])) /\ UNCHANGED sum
     \/ pc[t] = 4 /\ Set("m", VAdd(reg["aa"], reg["bb"])) /\ UNCHANGED sum
     \/ pc[t] = 5 /\ Set("n", VAdd(reg["m"], reg["cc"])) /\ UNCHANGED sum
     \/ pc[t] = 6 /\ sum' = Put(sum, iter[t], reg["n"]) /\ UNCHANGED reg
  /\ Advance(t, 6)
  /\ UNCHANGED <<build, call, stage, place, p3, finaldata, data>>

Acc(t) ==
  /\ stage = "acc" /\ Running(t)
  /\ \/ pc[t] = 1 /\ Set("aa", Vec(Point(iter[t]), place))
     \/ pc[t] = 2 /\ Set("cc", VAdd(reg["cc"], reg["aa"]))
  /\ Advance(t, 2)
  /\ UNCHANGED <<build, call, stage, place, p3, sum, finaldata, data>>

\* Variant: the loop is over when the calling thread has done its share.
LoopOverForCaller == ~Running(0)

\* The barrier at the end of a parallel for.
LoopOver == \A t \in Team : ~Running(t)

\* The tail of n cells: "for (i = 1; i <= e; i++) p[n - e] = ..", the same
\* cell e times, e = n % Lanes.
TailAt(n) == n - (n % Lanes)
WithTail(f, n, v) == IF TailAt(n) = n THEN f ELSE [f EXCEPT ![TailAt(n)] = v]

\* Variant: the loop after the vectors is forgotten.
EndMulWithoutTail ==
  /\ stage = "mul" /\ LoopOver
  /\ stage' = "add"
  /\ iter' = Starting(Whole(Pixels(call)))
  /\ UNCHANGED <<build, call, place, pc, reg, p3, sum, finaldata, data, disturbed>>

EndMul ==
  /\ stage = "mul" /\ LoopOver
  /\ LET x == TailAt(Cells(call))
     IN  p3' = WithTail(p3, Cells(call), Times(P1(call)[x], P2(call)[x]))
  /\ stage' = "add"
  /\ iter' = Starting(Whole(Pixels(call)))
  /\ UNCHANGED <<build, call, place, pc, reg, sum, finaldata, data, disturbed>>

EndAdd ==
  /\ stage = "add" /\ LoopOver
  /\ LET x == TailAt(Pixels(call))
     IN  sum' = WithTail(sum, Pixels(call), Plus(Plus(Channel(0)[x], Channel(1)[x]), Channel(2)[x]))
  /\ stage' = "place"
  /\ UNCHANGED <<build, call, place, iter, pc, reg, p3, finaldata, data, disturbed>>

\* Variant: cc keeps the sum of the vector before.
BeginPlaceKeepingSum ==
  /\ stage = "place" /\ place < Whole(Places(call))
  /\ stage' = "acc"
  /\ iter' = Starting(Points(call))
  /\ UNCHANGED <<build, call, place, pc, reg, p3, sum, finaldata, data, disturbed>>

\* avx2_code.c clears cc; arm_code.c declares a new, uninitialised one.
BeginPlace ==
  /\ stage = "place" /\ place < Whole(Places(call))
  /\ Set("cc", IF build = "avx2" THEN Zero ELSE Unset(Lanes))
  /\ stage' = "acc"
  /\ iter' = Starting(Points(call))
  /\ UNCHANGED <<build, call, place, pc, p3, sum, finaldata, data, disturbed>>

\* Variant: the loop over the places does not advance.
EndPlaceAgain ==
  /\ stage = "acc" /\ LoopOver
  /\ finaldata' = Put(finaldata, place, reg["cc"])
  /\ stage' = "place"
  /\ UNCHANGED <<build, call, place, iter, pc, reg, p3, sum, data, disturbed>>

EndPlace ==
  /\ stage = "acc" /\ LoopOver
  /\ finaldata' = Put(finaldata, place, reg["cc"])
  /\ place' = place + 1
  /\ stage' = "place"
  /\ UNCHANGED <<build, call, iter, pc, reg, p3, sum, data, disturbed>>

\* The serial sum of the points at place k, starting from 0.
SumOfPoints(k) ==
  LET S[p \in 0..Points(call)] == IF p = 0 THEN 0 ELSE Plus(S[p - 1], Point(p - 1)[k])
  IN  S[Points(call)]

Return ==
  /\ stage = "place" /\ place = Whole(Places(call))
  /\ finaldata' = WithTail(finaldata, Places(call), SumOfPoints(TailAt(Places(call))))
  /\ data' = finaldata'
  /\ stage' = "done"
  /\ UNCHANGED <<build, call, place, iter, pc, reg, p3, sum, disturbed>>

Thread(t) == Mul(t) \/ Add(t) \/ Acc(t)
Serial == EndMul \/ EndAdd \/ BeginPlace \/ EndPlace \/ Return
Returned == stage = "done" /\ UNCHANGED vars

Next == (\E t \in Team : Thread(t)) \/ Serial \/ Returned

\* WF of each thread: call.team is fixed in a behaviour.
Threads == 0..(Max({c.team : c \in Calls}) - 1)
Fairness == WF_vars(Serial) /\ \A t \in Threads : WF_vars(t \in Team /\ Thread(t))

Spec == Init /\ [][Next]_vars /\ Fairness
-----------------------------------------------------------------------------
Body == CASE stage = "mul" -> 4 [] stage = "add" -> 6 [] stage = "acc" -> 2 [] OTHER -> 1
Buffer(n) == [0..(n - 1) -> Int \cup {Garbage}]

TypeOK ==
  /\ build \in Builds
  /\ call \in Calls
  /\ stage \in {"mul", "add", "place", "acc", "done"}
  /\ place \in 0..Whole(Places(call))
  /\ iter \in [Team -> Nat]
  /\ pc \in [Team -> 1..Body]
  /\ reg \in [Names -> Buffer(Lanes)]
  /\ p3 \in Buffer(Cells(call))
  /\ sum \in Buffer(Pixels(call))
  /\ finaldata \in Buffer(Places(call)) /\ data \in Buffer(Places(call))
  /\ disturbed \in [Loops -> SUBSET Nat]

\* The cells of n that a vector loop and its tail leave unwritten.
Left(n) == IF TailAt(n) = n THEN {} ELSE (TailAt(n) + 1)..(n - 1)

(***************************************************************************)
(* However the threads interleave, what the loops leave unwritten is the   *)
(* tails from their second cell on, and nothing else: if a loop had no     *)
(* such tail before it, its result is unset exactly there.  In particular  *)
(* the race of the registers never hands on memory nobody wrote.           *)
(***************************************************************************)
UnsetAreTails == build # "scalar" =>
  /\ stage # "mul" => \A x \in DOMAIN p3 : p3[x] = Garbage <=> x \in Left(Cells(call))
  /\ stage \in {"place", "acc", "done"} /\ Left(Cells(call)) = {} =>
       \A x \in DOMAIN sum : sum[x] = Garbage <=> x \in Left(Pixels(call))
  /\ /\ stage = "done" /\ build = "avx2"
     /\ Left(Cells(call)) = {} /\ Left(Pixels(call)) = {}
     => \A k \in DOMAIN data : data[k] = Garbage <=> k \in Left(Places(call))

\* A cell of p3, a pixel of sum, a place of the result is disturbed if another
\* thread changed a variable in use for its vector, or if one of those it is
\* computed from is disturbed.
DisturbedCell(x) == x \div Lanes \in disturbed["mul"]

DisturbedPixel(y) ==
  y \div Lanes \in disturbed["add"] \/ \E h \in 0..(Channels - 1) : DisturbedCell(Channels * y + h)

DisturbedPlace(k) ==
  k \div Lanes \in disturbed["acc"] \/ \E p \in 0..(Points(call) - 1) : DisturbedPixel(Points(call) * k + p)

\* What is never computed: what the tails leave out, on ARM the sums that start
\* from an unset cc, and what is computed from these.
UnsetCell(x) == x \in Left(Cells(call))

UnsetPixel(y) ==
  y \in Left(Pixels(call)) \/ \E h \in 0..(Channels - 1) : UnsetCell(Channels * y + h)

UnsetPlace(k) ==
  /\ build # "scalar"
  /\ \/ k \in Left(Places(call))
     \/ build = "neon" /\ k < TailAt(Places(call))
     \/ \E p \in 0..(Points(call) - 1) : UnsetPixel(Points(call) * k + p)

(***************************************************************************)
(* The race does no harm to what it does not touch: however the threads    *)
(* interleave, a product, and an element of the result, is exact if no     *)
(* other thread changed a shared variable in use for its vectors, or is    *)
(* not computed at all, and then it is one that no schedule computes (the  *)
(* tails; on ARM the sums without a start).                                *)
(***************************************************************************)
ExactUnlessDisturbed ==
  /\ stage # "mul" /\ build # "scalar" =>
       \A x \in DOMAIN p3 :
         ~DisturbedCell(x) =>
           p3[x] = IF UnsetCell(x) THEN Garbage ELSE Times(P1(call)[x], P2(call)[x])
  /\ stage = "done" =>
       \A k \in DOMAIN data :
         ~DisturbedPlace(k) =>
           data[k] = IF UnsetPlace(k) THEN Garbage ELSE Convolution(call)[k]

\* The values that between one and all of the points of place k add up to,
\* a point counted any number of times.
Sums(k) ==
  LET S[n \in 1..Points(call)] ==
        IF n = 1 THEN {Point(p)[k] : p \in 0..(Points(call) - 1)}
        ELSE S[n - 1] \cup {Plus(v, Point(p)[k]) : v \in S[n - 1], p \in 0..(Points(call) - 1)}
  IN  S[Points(call)]

(***************************************************************************)
(* The race on cc and aa (line 256) can lose a point of the kernel or count *)
(* it twice, but a finished vector of places adds between one and          *)
(* pointnum values, all of its own places: nothing of the vector before.   *)
(***************************************************************************)
SumOfOwnPoints ==
  build = "avx2" => \A k \in 0..(place * Lanes - 1) : finaldata[k] \in Sums(k)

(***************************************************************************)
(* The places of the kernel (lines 129-130) are all inside the image with  *)
(* its border, and all of them are taken if the stride divides their       *)
(* number; otherwise the last one is missing.                              *)
(***************************************************************************)
PlacesCovered ==
  \A d \in {1, 2} :
    LET extent == (IF d = 1 THEN call.rows ELSE call.cols) + 2 * call.padding[d]
        kernel == IF d = 1 THEN call.krows ELSE call.kcols
        places == IF d = 1 THEN OutRows(call) ELSE OutCols(call)
        fit    == {i \in 0..extent : call.stride[d] * i + kernel <= extent}
    IN  Cardinality(fit) =
          IF (extent - kernel + 1) % call.stride[d] = 0 THEN places ELSE places + 1

(***************************************************************************)
(* The vector version replaces the sequential one of origin_code.c: an     *)
(* element that is computed, undisturbed by other threads, is the one the  *)
(* sequential version computes with its one running sum.                   *)
(***************************************************************************)
VersionsAgree ==
  stage = "done" =>
    \A k \in DOMAIN data :
      ~DisturbedPlace(k) /\ ~UnsetPlace(k) => data[k] = ScalarCov(call)[k]

(***************************************************************************)
(* Every element of coved_data is computed: "the products at the           *)
(* corresponding positions, summed" (the comment at line 147).             *)
(***************************************************************************)
IsConvolution == stage = "done" => data = Convolution(call)
=============================================================================
