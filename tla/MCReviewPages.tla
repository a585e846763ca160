---------------------------- MODULE MCReviewPages ----------------------------
(* Instances of ReviewPages for TLC. *)
EXTENDS ReviewPages, TLC

\* The outcomes of an attempt are alike.
Symmetry == Permutations(Outcomes)
=============================================================================
