---------------------------- MODULE MCCalculator ----------------------------
(***************************************************************************)
(* Binary arguments with at most two digits before and after the point,    *)
(* some with leading zeros and with an exponent, one of them a number that *)
(* keeps zeros in front (0.01e2), one with an exponent that does not fit.  *)
(***************************************************************************)
EXTENDS Calculator

Text(s, int, frac, exp) == [sign |-> s, int |-> int, frac |-> frac, exp |-> exp]

MCTexts ==
  {Text(s, int, frac, exp) :
     s \in {0, 1}, int \in {<<0>>, <<1>>, <<1, 0>>, <<1, 1>>, <<0, 1>>},
     frac \in {<<>>, <<1>>, <<0, 1>>}, exp \in {0, 1}}
  \cup {Text(0, <<1>>, <<>>, 3), Text(0, <<1>>, <<1>>, 3), Text(0, <<0>>, <<0, 1>>, 2)}

\* Powers of ten and their multiples, as in 3e30 times 4e40.
MCPowers == {Text(0, <<d>>, <<>>, e) : d \in 1..9, e \in 1..2}

\* Whole numbers and hundredths, as in 1 - 0.01.
MCHundredths == {Text(0, <<d>>, <<>>, 0) : d \in 1..9} \cup {Text(0, <<0>>, <<0, d>>, 0) : d \in 1..9}

\* What a build leaves in the register: 0, or the 10 that putchar returned.
MCLeftovers == {0, 10}
=============================================================================
