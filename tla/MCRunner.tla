------------------------------ MODULE MCRunner ------------------------------
(* Model values for the runs of Runner. *)
EXTENDS Runner

=============================================================================
