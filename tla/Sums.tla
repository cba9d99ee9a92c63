--------------------------------- MODULE Sums ---------------------------------
(***************************************************************************)
(* Totals over a numbered family (the reserves of a position, the          *)
(* obligations of a market).  The code adds such totals in a loop; the     *)
(* prefix totals below are the successive values of its accumulator.       *)
(***************************************************************************)
EXTENDS Integers

\* The accumulator after each of the first n entries of f.
PartialSums(f, n) ==
  LET s[i \in 0..n] == IF i = 0 THEN 0 ELSE s[i - 1] + f[i] IN s

SumTo(f, n) == PartialSums(f, n)[n]
===============================================================================
