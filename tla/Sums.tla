--------------------------------- MODULE Sums ----------------------------------
(* Sums of natural numbers over finite sets, counted unit by unit: a part of f[x] is   *)
(* f[x] units of x.  FiniteSetsExt!MapThenSumSet gives the same numbers, but it takes  *)
(* an operator and is defined by recursion, so nothing can be proved of it; of a       *)
(* cardinality the facts of FiniteSetTheorems speak.                                   *)
EXTENDS Naturals, FiniteSets

Units(f, S)   == UNION {{x} \X (1..f[x]) : x \in S}
TotalOf(f, S) == Cardinality(Units(f, S))
================================================================================
