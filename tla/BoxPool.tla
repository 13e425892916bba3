------------------------------- MODULE BoxPool -------------------------------
(***************************************************************************)
(* The isolate driver: its pool of box ids, a channel that holds every id  *)
(* at the start, and the calls of Runner.Run by the workers.  Each takes   *)
(* an id, has isolate initialise that box, runs the program in it, has     *)
(* isolate clean the box up and puts the id back.                          *)
(*                                                                         *)
(* The boxes are directories of isolate and outlive the process: a box may *)
(* be left over from an earlier process, or from an init or a cleanup that *)
(* was cut off.  Whether init succeeds on such a box is up to isolate; if  *)
(* it succeeds, the box is as good as new.                                 *)
(***************************************************************************)
EXTENDS Naturals, Sequences, FiniteSets, Functions

CONSTANTS
    Workers,
    Boxes,    \* ids, from IsolateBoxIDStart on, IsolateBoxIDCount of them
    NoBox     \* what a call that has no box has

\* Config.Validate: no fewer boxes than workers.
ASSUME BoxesAssumption ==
    /\ IsFiniteSet(Workers) /\ IsFiniteSet(Boxes)
    /\ Cardinality(Workers) <= Cardinality(Boxes)
    /\ NoBox \notin Boxes
ASSUME NamesAssumption == Workers \cap {"empty", "left"} = {}

VARIABLES
    boxes,      \* the channel of free ids
    pc,         \* where each worker's call is; "idle" when there is none
    box,        \* the id each call has
    site,       \* each box: "empty", "left" half-made or used, or the worker
                \* for whose call it was initialised
    cancelled   \* the workers' context is cancelled

poolVars == <<boxes, pc, box, site, cancelled>>

Capacity == Cardinality(Boxes)

PoolInit ==
    /\ boxes \in Bijection(1..Capacity, Boxes)
    /\ pc = [w \in Workers |-> "idle"]
    /\ box = [w \in Workers |-> NoBox]
    /\ site \in [Boxes -> {"empty", "left"}]
    /\ cancelled = FALSE

GoTo(w, place) == pc' = [pc EXCEPT ![w] = place]

\* The engine calls Run, for a compilation or for a run.
Call(w) ==
    /\ pc[w] = "idle"
    /\ GoTo(w, "acquire")
    /\ UNCHANGED <<boxes, box, site, cancelled>>

AcquireBox(w) ==
    /\ pc[w] = "acquire"
    /\ boxes # <<>>
    /\ box' = [box EXCEPT ![w] = Head(boxes)]
    /\ boxes' = Tail(boxes)
    /\ GoTo(w, "init")
    /\ UNCHANGED <<site, cancelled>>

AcquireCancelled(w) ==
    /\ pc[w] = "acquire"
    /\ cancelled
    /\ GoTo(w, "idle")
    /\ UNCHANGED <<boxes, box, site, cancelled>>

\* isolate --init succeeds; a cancellation may come too late to stop it.
InitBox(w) ==
    /\ pc[w] = "init"
    /\ site' = [site EXCEPT ![box[w]] = w]
    /\ GoTo(w, "run")
    /\ UNCHANGED <<boxes, box, cancelled>>

\* A failed init that is not looked at.
InitIgnored(w) ==
    /\ pc[w] = "init"
    /\ \E s \in {site[box[w]], "left"} : site' = [site EXCEPT ![box[w]] = s]
    /\ GoTo(w, "run")
    /\ UNCHANGED <<boxes, box, cancelled>>

\* A failed init before releaseBox is deferred.
InitLeaks(w) ==
    /\ pc[w] = "init"
    /\ \E s \in {site[box[w]], "left"} : site' = [site EXCEPT ![box[w]] = s]
    /\ box' = [box EXCEPT ![w] = NoBox]
    /\ GoTo(w, "idle")
    /\ UNCHANGED <<boxes, cancelled>>

\* isolate refuses, or is killed after its five seconds or by the cancelled
\* context; the box is not cleaned up, because cleanupBox is not deferred yet.
InitFails(w) ==
    /\ pc[w] = "init"
    /\ \E s \in {site[box[w]], "left"} : site' = [site EXCEPT ![box[w]] = s]
    /\ GoTo(w, "release")
    /\ UNCHANGED <<boxes, box, cancelled>>

\* The box is given back before it is cleaned up, and cleanupBox still follows.
ReleaseFirst(w) ==
    /\ pc[w] = "run"
    /\ boxes' = Append(boxes, box[w])
    /\ GoTo(w, "cleanup")
    /\ UNCHANGED <<box, site, cancelled>>

\* The program has ended, or could not be started.
RunReturns(w) ==
    /\ pc[w] = "run"
    /\ GoTo(w, "cleanup")
    /\ UNCHANGED <<boxes, box, site, cancelled>>

\* cleanupBox has a context of its own, and its error is ignored.
CleanupBox(w) ==
    /\ pc[w] = "cleanup"
    /\ \E s \in {"empty", "left"} : site' = [site EXCEPT ![box[w]] = s]
    /\ GoTo(w, "release")
    /\ UNCHANGED <<boxes, box, cancelled>>

\* A send, which waits while the channel is full.
ReleaseBox(w) ==
    /\ pc[w] = "release"
    /\ Len(boxes) < Capacity
    /\ boxes' = Append(boxes, box[w])
    /\ box' = [box EXCEPT ![w] = NoBox]
    /\ GoTo(w, "idle")
    /\ UNCHANGED <<site, cancelled>>

Cancel ==
    /\ ~cancelled
    /\ cancelled' = TRUE
    /\ UNCHANGED <<boxes, pc, box, site>>

CallStep(w) ==
    \/ AcquireBox(w) \/ AcquireCancelled(w)
    \/ InitBox(w) \/ InitFails(w)
    \/ RunReturns(w) \/ CleanupBox(w) \/ ReleaseBox(w)

PoolNext ==
    \/ Cancel
    \/ \E w \in Workers : Call(w) \/ CallStep(w)

PoolSpec == PoolInit /\ [][PoolNext]_poolVars

-----------------------------------------------------------------------------

\* Every variable has its type: a call has a box exactly between acquireBox and
\* releaseBox.
PoolTypeOK ==
    /\ boxes \in Seq(Boxes)
    /\ pc \in [Workers -> {"idle", "acquire", "init", "run", "cleanup", "release"}]
    /\ box \in [Workers -> Boxes \cup {NoBox}]
    /\ \A w \in Workers : box[w] = NoBox <=> pc[w] \in {"idle", "acquire"}
    /\ site \in [Boxes -> {"empty", "left"} \cup Workers]
    /\ cancelled \in BOOLEAN

Users(b) == {w \in Workers : box[w] = b}

\* Every box is in one place: free once or with one call, and none is lost, on
\* every path through Run and whatever fails (acquireBox, releaseBox).
PoolIsWhole ==
    /\ IsInjective(boxes)
    /\ \A b \in Boxes : b \in Range(boxes) <=> Users(b) = {}
    /\ \A v, w \in Workers : box[v] = box[w] /\ box[v] # NoBox => v = w

\* "Run executes command in a freshly initialized isolate box": while a program
\* runs, its box is the one that was initialised for it, and no other call has
\* initialised it again or cleaned it up since.
RunsInFreshBox == \A w \in Workers : pc[w] = "run" => site[box[w]] = w

\* A worker never waits for a box, because Config.Validate wants at least as many
\* boxes as workers and none is lost; and giving a box back never blocks.
NeverWaits ==
    \A w \in Workers :
        /\ pc[w] = "acquire" => boxes # <<>>
        /\ pc[w] = "release" => Len(boxes) < Capacity

=============================================================================
