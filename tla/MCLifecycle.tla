---------------------------- MODULE MCLifecycle ----------------------------
(* Model values for the runs of Lifecycle; without symmetry, because one of  *)
(* them checks liveness.                                                     *)
EXTENDS Lifecycle

=============================================================================
