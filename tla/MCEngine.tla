------------------------------- MODULE MCEngine -------------------------------
(* What the drivers of the run of Engine report. *)
EXTENDS Engine

MCTimes    == {1, 2}
MCMemories == {1, 2}

=============================================================================
