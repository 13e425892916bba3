--------------------------- MODULE MCMemoryQueue ---------------------------
(* Model values for the run of MemoryQueue and WorkerMonitor; without         *)
(* symmetry, because the run checks liveness.                                 *)
EXTENDS WorkerMonitor

=============================================================================
