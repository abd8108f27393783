---------------------------------- MODULE Money ----------------------------------
(***************************************************************************)
(* Fixed-point money.  Portfolio.cash is DECIMAL(14,2) and every price is   *)
(* DECIMAL(12,4): cash is an integer number of cents here and a price an    *)
(* integer number of units, UnitsPerCent units to the cent.  PostgreSQL     *)
(* rounds a numeric half away from zero when it stores it in a column of    *)
(* fewer decimals; every amount stored here is non-negative, so that is     *)
(* "half up".                                                               *)
(***************************************************************************)
EXTENDS Integers

UnitsPerCent == 100

\* Mutant: the stored amount is cut off instead of rounded.
RoundDown(n, d) == n \div d

\* The quotient of two non-negative amounts, rounded half up.
RoundHalfUp(n, d) == (2 * n + d) \div (2 * d)

\* What a DECIMAL(14,2) column holds after storing an amount given in units.
ToCents(units) == RoundHalfUp(units, UnitsPerCent)

Units(cents) == UnitsPerCent * cents

=================================================================================
