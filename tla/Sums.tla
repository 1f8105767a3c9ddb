---------------------------------- MODULE Sums ----------------------------------
(***************************************************************************)
(* Sums of natural numbers, counted: Total(f, S) is the number of units    *)
(* that the members of S have in f.  It is SumFunctionOnSet of the         *)
(* community modules; counting instead of folding needs no recursion, so   *)
(* that what a step does to a sum can be proved.                           *)
(***************************************************************************)
EXTENDS Integers, FiniteSets

UnitsOf(f, x) == {x} \X (1..f[x])
Units(f, S)   == UNION {UnitsOf(f, x) : x \in S}
Total(f, S)   == Cardinality(Units(f, S))

=============================================================================
