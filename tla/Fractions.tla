------------------------------- MODULE Fractions -------------------------------
(***************************************************************************)
(* What the code computes with floats is here an exact pair of a numerator  *)
(* and a positive denominator: rounding is abstracted away.                 *)
(***************************************************************************)
EXTENDS Integers, Sequences, SequencesExt

Whole(n)    == <<n, 1>>
Plus(a, b)  ==
  IF a[2] % b[2] = 0 THEN <<a[1] + b[1] * (a[2] \div b[2]), a[2]>>
  ELSE IF b[2] % a[2] = 0 THEN <<a[1] * (b[2] \div a[2]) + b[1], b[2]>>
  ELSE <<a[1] * b[2] + b[1] * a[2], a[2] * b[2]>>
Times(a, b) == <<a[1] * b[1], a[2] * b[2]>>
Minus(a, b) == Plus(a, Times(<<-1, 1>>, b))
Over(a, b)  == <<a[1] * b[2], a[2] * b[1]>>
AtMost(a, b) == a[1] * b[2] <= b[1] * a[2]

Average(s) == Times(<<1, Len(s)>>, FoldLeft(Plus, Whole(0), s))

\* Of what would be irrational, a square with the sign of its root is kept: it is
\* ordered as the root is.
SignedSquare(a) == IF a[1] < 0 THEN Minus(Whole(0), Times(a, a)) ELSE Times(a, a)

\* The mean square of the distances from the mean.
Variance(s) ==
  LET mean == Average(s)
      distance(x) == Minus(x, mean)
  IN Average([i \in DOMAIN s |-> Times(distance(s[i]), distance(s[i]))])

=================================================================================
