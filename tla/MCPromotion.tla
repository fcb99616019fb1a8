---------------------------- MODULE MCPromotion ----------------------------
(***************************************************************************)
(* A small instance of Promotion for TLC: two commits, a rate that is      *)
(* enough and one that is not; two evaluations and two wrappings, in       *)
(* whatever order and overlap, a gate, three changes of the checkout, and  *)
(* one program killed while it publishes.                                  *)
(***************************************************************************)
EXTENDS Promotion, TLC

MCBound ==
  [e \in Bounded |-> CASE e = "change"                -> 3
                       [] e \in {"evaluate", "wrap"} -> 2
                       [] OTHER                       -> 1]

Symmetry == Permutations(Commits)
=============================================================================
