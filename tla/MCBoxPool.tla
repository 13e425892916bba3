----------------------------- MODULE MCBoxPool -----------------------------
(* Model values and symmetry for the run of BoxPool. *)
EXTENDS BoxPool, TLC

Symmetry == Permutations(Workers) \cup Permutations(Boxes)

=============================================================================
