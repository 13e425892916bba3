----------------------------- MODULE MCWaitPoll -----------------------------
(* Model values for the run of WaitPoll. *)
EXTENDS WaitPoll

=============================================================================
