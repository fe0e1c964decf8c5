----------------------------- MODULE UnitSums ------------------------------
(***************************************************************************)
(* The sum of f[x] over the members x of a finite set, for f with values   *)
(* in Int, as the number of units <<x, 1>>, ..., <<x, f[x]>> of the        *)
(* positive values less that of the negative ones.  A fold would say the   *)
(* same, but nothing can be proved of one here; what a sum of quantities   *)
(* owes to the union of sets follows from cardinalities.                   *)
(***************************************************************************)
EXTENDS Integers, FiniteSets

Units(f, S) == UNION {{x} \X (1..f[x]) : x \in S}
Debts(f, S) == UNION {{x} \X (1..-f[x]) : x \in S}

SumOver(f, S) == Cardinality(Units(f, S)) - Cardinality(Debts(f, S))
=============================================================================
