-------------------------------- MODULE Sums --------------------------------
(***************************************************************************)
(* The sum of a function to the naturals, counted instead of folded: as    *)
(* many pairs as there are of an argument and one of the numbers up to its *)
(* value.                                                                  *)
(***************************************************************************)
EXTENDS Integers, FiniteSets

PairsOf(f) == UNION {{s} \X (1 .. f[s]) : s \in DOMAIN f}

Total(f) == Cardinality(PairsOf(f))
=============================================================================
