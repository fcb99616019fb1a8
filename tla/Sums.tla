-------------------------------- MODULE Sums --------------------------------
(***************************************************************************)
(* Sums of natural numbers over finite sets, as the number of the units    *)
(* that are added up: a definition that needs no recursion, so that proofs *)
(* about it need no induction.                                             *)
(***************************************************************************)
EXTENDS Naturals, FiniteSets

Units(I, w) == UNION {{i} \X (1..w[i]) : i \in I}

(* The sum of w[i] over the i in I.                                        *)
Total(I, w) == Cardinality(Units(I, w))
=============================================================================
