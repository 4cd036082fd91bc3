------------------------------- MODULE Amounts -------------------------------
(***************************************************************************)
(* Arithmetic of checkArbitrage and of the two kinds of executor.          *)
(*                                                                         *)
(* The code computes in double.  Here prices and amounts of money are      *)
(* integers in the unit PaperTrader rounds costs to (0.01 USD), and a      *)
(* quantity of the base asset is a fraction <<n, d>> of such units over    *)
(* prices: dividing a room in USD by a price is exact.  The error of the   *)
(* floating-point operations themselves is left out, and prices are taken  *)
(* to be whole units.                                                      *)
(***************************************************************************)
EXTENDS Integers

Fractions == Nat \X (Nat \ {0})

Whole(n) == <<n, 1>>

SmallerOf(x, y) == IF x[1] * y[2] <= y[1] * x[2] THEN x ELSE y

\* A price of 0 makes buyCapQty infinite: then it is no cap.
CappedQty(cap, room, price) ==
  IF price = 0 THEN cap ELSE SmallerOf(cap, <<room, price>>)

\* std::round of a fraction that is not negative: half away from zero.
Round(n, d) == (2 * n + d) \div (2 * d)

\* PaperTrader: everything is filled, at the price asked for.
PaperCost(price, qty) == Round(price * qty[1], qty[2])

\* A slip the properties must notice: quantities rounded up to a lot.
CeilToStep(qty, step) == ((qty[1] + step * qty[2] - 1) \div (step * qty[2])) * step

\* floorToStep, with steps that are whole units.
FloorToStep(qty, step) == ((qty[1] \div qty[2]) \div step) * step
==============================================================================
