----------------------------- MODULE WorkerMonitor -----------------------------
(***************************************************************************)
(* The workers' loop around MemoryQueue, the Monitor it keeps informed,    *)
(* and GET /v1/workers, which reads the queue's counters and then the      *)
(* monitor, each under a mutex of its own.                                 *)
(*                                                                         *)
(* A worker's mark is a step of its own, after the step of the queue that  *)
(* it tells of; the token and the time that a mark carries are left out.   *)
(***************************************************************************)
EXTENDS MemoryQueue

VARIABLES
    due,      \* the mark each worker is about to make, "none" between marks
    shown,    \* Monitor.workers: each worker's state
    request   \* GET /v1/workers between its two reads: the active counter it read
              \* and the workers that have taken a step since

monitorVars == <<vars, due, shown, request>>

NoRequest == [active |-> 0, moved |-> {}, open |-> FALSE]

\* NewMonitor, and every worker at the head of Run.
MonitoredInit ==
    /\ Init
    /\ due = [w \in Workers |-> "idle"]
    /\ shown = [w \in Workers |-> "starting"]
    /\ request = NoRequest

Moves(w) ==
    request' = IF request.open THEN [request EXCEPT !.moved = @ \cup {w}] ELSE request

\* The calls of the queue in Run, each followed by its mark.
Step(w) ==
    /\ due[w] = "none"
    /\ \/ DequeueReceive(w) /\ UNCHANGED due
       \/ DequeueCount(w) /\ due' = [due EXCEPT ![w] = "processing"]
       \/ WorkDone(w) /\ due' = [due EXCEPT ![w] = "idle"]
       \/ DequeueCancelled(w) /\ due' = [due EXCEPT ![w] = "stopped"]
    /\ Moves(w)
    /\ UNCHANGED shown

\* A worker that does not mark that it is idle again would have IdleUnmarked.
IdleUnmarked(w) == [shown EXCEPT ![w] = IF @ = "processing" /\ due[w] = "idle" THEN @ ELSE due[w]]
Marked(w)       == [shown EXCEPT ![w] = due[w]]

\* MarkIdle, MarkProcessing or MarkStopped.
Mark(w) ==
    /\ due[w] # "none"
    /\ shown' = Marked(w)
    /\ due' = [due EXCEPT ![w] = "none"]
    /\ Moves(w)
    /\ UNCHANGED vars

Other ==
    /\ \/ Cancel
       \/ \E p \in Callers :
             EnqueueCount(p) \/ EnqueueSend(p) \/ EnqueueCancelled(p) \/ EnqueueUndo(p)
    /\ UNCHANGED <<due, shown, request>>

Stats ==
    /\ ~request.open
    /\ request' = [active |-> active, moved |-> {}, open |-> TRUE]
    /\ UNCHANGED <<vars, due, shown>>

\* The answer is sent.
Snapshot ==
    /\ request.open
    /\ request' = NoRequest
    /\ UNCHANGED <<vars, due, shown>>

MonitoredNext ==
    \/ Other \/ Stats \/ Snapshot
    \/ \E w \in Workers : Step(w) \/ Mark(w)

\* Beside the queue's own fairness, a worker makes its mark.
MonitoredSpec ==
    /\ MonitoredInit /\ [][MonitoredNext]_monitorVars
    /\ Fairness
    /\ \A w \in Workers : WF_monitorVars(Mark(w))

-----------------------------------------------------------------------------

\* The two halves of an answer differ by no more than the workers that were moving
\* while it was made: a worker that stood still is shown as processing exactly if
\* the active counter counts it (Run's order of Dequeue, MarkProcessing, Done and
\* MarkIdle, and the two mutexes).
HalvesAgree ==
    [][request.open /\ ~request'.open =>
        LET still == {w \in Workers : w \notin request.moved /\ due[w] = "none"}
            busy  == Cardinality({w \in still : shown[w] = "processing"})
        IN  busy <= request.active
            /\ request.active <= busy + Cardinality(Workers \ still)
      ]_monitorVars

\* After the cancellation every worker is shown as stopped for good.
ShownStopped == cancelled ~> [](\A w \in Workers : shown[w] = "stopped")

=============================================================================
