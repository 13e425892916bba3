---------------------------- MODULE MemoryQueue ----------------------------
(***************************************************************************)
(* internal/queue/memory: the channel that passes tokens from the callers  *)
(* of Enqueue to the workers, and the two counters behind Stats.  The      *)
(* counters have a mutex of their own, so a call changes the channel in    *)
(* one step and a counter in another.                                      *)
(*                                                                         *)
(* A caller is a request handler, or main() while it passes on recovered   *)
(* submissions; the token a caller sends is identified with the caller.    *)
(***************************************************************************)
EXTENDS Integers, Sequences, FiniteSets

CONSTANTS
    Handlers,  \* requests that create submissions
    Main,      \* main(), passing on recovered submissions
    Workers,
    Cap        \* capacity of the channel (1024 in the code)

Callers == Handlers \cup {Main}

ASSUME CallersAssumption == IsFiniteSet(Handlers) /\ Main \notin Handlers
ASSUME WorkersAssumption == IsFiniteSet(Workers)
ASSUME QueueCapAssumption == Cap \in Nat \ {0}

VARIABLES
    ch,         \* the channel
    pending,    \* q.pending
    active,     \* q.active
    caller,     \* where each caller is: "away", "send" or "undo"
    worker,     \* where each worker is: "idle", "count", "busy" or "exited"
    cancelled   \* main's context, which workers and main() use, is cancelled

vars == <<ch, pending, active, caller, worker, cancelled>>

Init ==
    /\ ch = <<>>
    /\ pending = 0
    /\ active = 0
    /\ caller = [p \in Callers |-> "away"]
    /\ worker = [w \in Workers |-> "idle"]
    /\ cancelled = FALSE

\* Enqueue's first critical section.
EnqueueCount(p) ==
    /\ caller[p] = "away"
    /\ pending' = pending + 1
    /\ caller' = [caller EXCEPT ![p] = "send"]
    /\ UNCHANGED <<ch, active, worker, cancelled>>

\* A send needs a free place.
Room == Len(ch) < Cap

\* The select of Enqueue takes the send ...
EnqueueSend(p) ==
    /\ caller[p] = "send"
    /\ Room
    /\ ch' = Append(ch, p)
    /\ caller' = [caller EXCEPT ![p] = "away"]
    /\ UNCHANGED <<pending, active, worker, cancelled>>

\* The caller's context is done: a client may go away at any time, main() uses
\* the context that is cancelled at shutdown.  A plain send has NeverDone.
NeverDone(p) == FALSE
CtxDone(p)   == p = Main => cancelled

\* ... or ctx.Done, and the second critical section follows.
EnqueueCancelled(p) ==
    /\ caller[p] = "send"
    /\ CtxDone(p)
    /\ caller' = [caller EXCEPT ![p] = "undo"]
    /\ UNCHANGED <<ch, pending, active, worker, cancelled>>

\* A return without the second critical section.
ForgetUndo(p) ==
    /\ caller[p] = "undo"
    /\ caller' = [caller EXCEPT ![p] = "away"]
    /\ UNCHANGED <<ch, pending, active, worker, cancelled>>

EnqueueUndo(p) ==
    /\ caller[p] = "undo"
    /\ pending' = pending - 1
    /\ caller' = [caller EXCEPT ![p] = "away"]
    /\ UNCHANGED <<ch, active, worker, cancelled>>

\* The select of Dequeue takes the receive, and a critical section follows.
DequeueReceive(w) ==
    /\ worker[w] = "idle"
    /\ ch # <<>>
    /\ ch' = Tail(ch)
    /\ worker' = [worker EXCEPT ![w] = "count"]
    /\ UNCHANGED <<pending, active, caller, cancelled>>

DequeueCount(w) ==
    /\ worker[w] = "count"
    /\ pending' = pending - 1
    /\ active' = active + 1
    /\ worker' = [worker EXCEPT ![w] = "busy"]
    /\ UNCHANGED <<ch, caller, cancelled>>

\* A plain receive has NeverCancelled.
NeverCancelled(w) == FALSE
DequeueCancelled(w) ==
    /\ worker[w] = "idle"
    /\ cancelled
    /\ worker' = [worker EXCEPT ![w] = "exited"]
    /\ UNCHANGED <<ch, pending, active, caller, cancelled>>

\* The worker is done with its token: q.Done.
WorkDone(w) ==
    /\ worker[w] = "busy"
    /\ active' = IF active > 0 THEN active - 1 ELSE active
    /\ worker' = [worker EXCEPT ![w] = "idle"]
    /\ UNCHANGED <<ch, pending, caller, cancelled>>

Cancel ==
    /\ ~cancelled
    /\ cancelled' = TRUE
    /\ UNCHANGED <<ch, pending, active, caller, worker>>

Next ==
    \/ Cancel
    \/ \E p \in Callers :
          EnqueueCount(p) \/ EnqueueSend(p) \/ EnqueueCancelled(p) \/ EnqueueUndo(p)
    \/ \E w \in Workers :
          DequeueReceive(w) \/ DequeueCount(w) \/ DequeueCancelled(w) \/ WorkDone(w)

Spec == Init /\ [][Next]_vars

\* The runtime wakes the senders and the receivers that wait on a channel in
\* the order they came, and a select that is ready over and over takes each of
\* its cases at some time: strong fairness.  Critical sections and the work on
\* a token end: weak fairness.  Nobody has to call Enqueue, and no client has
\* to go away.
Fairness ==
    /\ \A p \in Callers :
          /\ SF_vars(EnqueueSend(p))
          /\ WF_vars(EnqueueUndo(p))
    /\ WF_vars(EnqueueCancelled(Main))
    /\ \A w \in Workers :
          /\ SF_vars(DequeueReceive(w))
          /\ SF_vars(DequeueCancelled(w))
          /\ WF_vars(DequeueCount(w))
          /\ WF_vars(WorkDone(w))

FairSpec == Spec /\ Fairness

-----------------------------------------------------------------------------

InState(f, states) == {x \in DOMAIN f : f[x] \in states}

\* Every variable has its type, and the channel never exceeds its capacity.
TypeOK ==
    /\ ch \in Seq(Callers) /\ Len(ch) <= Cap
    /\ pending \in Int
    /\ active \in Int
    /\ caller \in [Callers -> {"away", "send", "undo"}]
    /\ worker \in [Workers -> {"idle", "count", "busy", "exited"}]
    /\ cancelled \in BOOLEAN

\* The counters of Stats count every token once: as pending from the moment a
\* caller announces it until a worker has counted it out, as active while it
\* is worked on.  So Done never meets active = 0, and pending is never
\* negative, although the channel and the counters change at different times.
CountsExact ==
    /\ pending = Len(ch) + Cardinality(InState(caller, {"send", "undo"}))
                         + Cardinality(InState(worker, {"count"}))
    /\ active = Cardinality(InState(worker, {"busy"}))

\* Enqueue never blocks for ever while the workers run, and that of main()
\* not even when they stop.
EnqueueReturns ==
    /\ \A p \in Handlers : caller[p] = "send" ~> caller[p] # "send" \/ cancelled
    /\ caller[Main] = "send" ~> caller[Main] # "send"

=============================================================================
