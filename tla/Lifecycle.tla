------------------------------ MODULE Lifecycle ------------------------------
(***************************************************************************)
(* The life of a submission in batasd: the HTTP handlers that insert and   *)
(* enqueue it, the bounded in-memory queue, the workers that execute it,   *)
(* its row in PostgreSQL, the callback sent for its result, and the        *)
(* process that starts, recovers unfinished rows, serves, shuts down and   *)
(* is started again.                                                       *)
(*                                                                         *)
(* The rows (row, createdAt, wants, attempts) and what the callback's      *)
(* receiver saw (posts) outlive the process; everything else dies with it. *)
(*                                                                         *)
(* A call to the database takes effect at one instant.  It answers, or it  *)
(* fails without effect, or its effect stays and only its answer is lost.  *)
(* A statement abandoned by its caller is assumed never to take effect     *)
(* after the caller's step, and one process at a time uses the database.   *)
(***************************************************************************)
EXTENDS Integers, Sequences, FiniteSets, Functions

CONSTANTS
    Tokens,         \* the tokens of the submissions that clients may send
    Workers,        \* cfg.Queue.Workers goroutines
    Cap,            \* capacity of the queue's channel (1024 in the code)
    NoToken,        \* what a worker that processes nothing holds
    MaxStarts,      \* bound: how often the process is started
    FaultyStarts,   \* bound: faults happen in the first FaultyStarts runs only
    Faults          \* the kinds of faults that may happen

FaultKinds ==
    { "db",          \* a statement fails without effect
      "lost",        \* a statement takes effect and its answer is lost
      "disconnect",  \* a client goes away: its request context is cancelled
      "signal",      \* SIGTERM or SIGINT, or ListenAndServe fails
      "crash",       \* the process is killed
      "net" }        \* a callback fails, before or after the receiver saw it

ASSUME TokensAssumption == IsFiniteSet(Tokens) /\ NoToken \notin Tokens
ASSUME CapAssumption    == Cap \in Nat \ {0}
ASSUME StartsAssumption == MaxStarts \in Nat /\ FaultyStarts \in Nat
ASSUME FaultsAssumption == Faults \subseteq FaultKinds

VARIABLES
    row,        \* status_code of the token's row, "none" when there is no row
    createdAt,  \* created_at, a logical clock; 0 before the request
    wants,      \* the request names a callback URL
    attempts,   \* rows of callback_attempts
    posts,      \* callback requests that reached the receiver
    main,       \* where main() is
    starts,     \* how often the process was started
    cancelled,  \* main's context is cancelled
    backlog,    \* recovered tokens main() has not enqueued yet
    ch,         \* the queue's channel
    handler,    \* where the request that creates the token is
    wpc,        \* where each worker is
    wtok,       \* the token each worker processes
    wres        \* the result each worker is about to store

rows    == <<row, createdAt, wants, attempts, posts>>
process == <<main, starts, cancelled, backlog>>
worker  == <<wpc, wtok, wres>>
vars    == <<row, createdAt, wants, attempts, posts, main, starts, cancelled,
             backlog, ch, handler, wpc, wtok, wres>>

\* What the engine reports: a verdict on the program, or the runtime or
\* sandbox error of a run that was killed because the context was cancelled.
Results    == {"verdict", "aborted"}
Unfinished == {"queued", "processing"}
InFlight   == {"insert", "enqueue"}
Off        == {"exited", "idle"}

May(kind) == kind \in Faults /\ starts <= FaultyStarts

\* Outcomes of a statement issued under main's context.  A context of its own
\* would make DbOkDetached of DbOk.
DbOkDetached == TRUE
DbOk   == ~cancelled
DbFail == cancelled \/ May("db")
DbLost == ~cancelled /\ May("lost")

Begun == {t \in Tokens : createdAt[t] > 0}

\* The rows RecoverUnfinished resets and returns; without the first of its two
\* status codes it would return ProcessingOnly.
ProcessingOnly == {t \in Tokens : row[t] = "processing"}
Unfinisheds    == {t \in Tokens : row[t] \in Unfinished}

\* The ways to list S by created_at, oldest first.
OldestFirst(S) ==
    {q \in Bijection(1..Cardinality(S), S) :
        \A i, j \in DOMAIN q : i < j => createdAt[q[i]] < createdAt[q[j]]}

Init ==
    /\ row = [t \in Tokens |-> "none"]
    /\ createdAt = [t \in Tokens |-> 0]
    /\ wants = [t \in Tokens |-> FALSE]
    /\ attempts = [t \in Tokens |-> 0]
    /\ posts = [t \in Tokens |-> 0]
    /\ main = "down"
    /\ starts = 0
    /\ cancelled = FALSE
    /\ backlog = <<>>
    /\ ch = <<>>
    /\ handler = [t \in Tokens |-> "none"]
    /\ wpc = [w \in Workers |-> "exited"]
    /\ wtok = [w \in Workers |-> NoToken]
    /\ wres = [w \in Workers |-> "none"]

-----------------------------------------------------------------------------
(* main() *)

\* What is left when the process ends, however it ends.
Exit ==
    /\ main' = "down"
    /\ cancelled' = FALSE
    /\ backlog' = <<>>
    /\ ch' = <<>>
    /\ handler' = [t \in Tokens |-> IF handler[t] = "none" THEN "none" ELSE "past"]
    /\ wpc' = [w \in Workers |-> "exited"]
    /\ wtok' = [w \in Workers |-> NoToken]
    /\ wres' = [w \in Workers |-> "none"]
    /\ UNCHANGED starts

\* Start with the workers left for later, when the server runs.
StartWithoutWorkers ==
    /\ main = "down"
    /\ starts < MaxStarts
    /\ starts' = starts + 1
    /\ main' = "recover"
    /\ UNCHANGED <<rows, cancelled, backlog, ch, handler, worker>>

\* Configuration, pool and migrations succeeded; the workers are running.
Start ==
    /\ main = "down"
    /\ starts < MaxStarts
    /\ starts' = starts + 1
    /\ main' = "recover"
    /\ wpc' = [w \in Workers |-> "idle"]
    /\ UNCHANGED <<rows, cancelled, backlog, ch, handler, wtok, wres>>

Requeued == [t \in Tokens |-> IF row[t] \in Unfinished THEN "queued" ELSE row[t]]

\* RecoverUnfinished: one statement resets every unfinished row and returns
\* the tokens by created_at.
Recover ==
    /\ main = "recover"
    /\ DbOk
    /\ row' = Requeued
    /\ backlog' \in OldestFirst(Unfinisheds)
    /\ main' = "requeue"
    /\ UNCHANGED <<createdAt, wants, attempts, posts, starts, cancelled, ch,
                   handler, worker>>

\* main() leaves through os.Exit(1) when the statement reports an error.
RecoverFails ==
    /\ main = "recover"
    /\ \/ DbFail /\ UNCHANGED row
       \/ DbLost /\ row' = Requeued
    /\ Exit
    /\ UNCHANGED <<createdAt, wants, attempts, posts>>

\* A send to the channel needs a free place.
Room == Len(ch) < Cap

EnqueueRecovered ==
    /\ main = "requeue"
    /\ backlog # <<>>
    /\ Room
    /\ ch' = Append(ch, Head(backlog))
    /\ backlog' = Tail(backlog)
    /\ UNCHANGED <<rows, main, starts, cancelled, handler, worker>>

\* Enqueue's select took ctx.Done: main() leaves through os.Exit(1).  An
\* Enqueue that only sends would make it RequeueUncancelled.
RequeueUncancelled == FALSE
RequeueCancelled ==
    /\ main = "requeue"
    /\ backlog # <<>>
    /\ cancelled
    /\ Exit
    /\ UNCHANGED rows

ServeEarly ==
    /\ main = "requeue"
    /\ main' = "serve"
    /\ UNCHANGED <<rows, starts, cancelled, backlog, ch, handler, worker>>

\* recoverUnfinishedSubmissions returned and the server starts; ServeEarly
\* would start it while recovered tokens wait.
Serve ==
    /\ main = "requeue"
    /\ backlog = <<>>
    /\ main' = "serve"
    /\ UNCHANGED <<rows, starts, cancelled, backlog, ch, handler, worker>>

\* The signal goroutine, or the one that runs ListenAndServe, calls cancel().
Signal ==
    /\ main # "down"
    /\ May("signal")
    /\ ~cancelled
    /\ cancelled' = TRUE
    /\ UNCHANGED <<rows, main, starts, backlog, ch, handler, worker>>

BeginShutdown ==
    /\ main = "serve"
    /\ cancelled
    /\ main' = "shutdown"
    /\ UNCHANGED <<rows, starts, cancelled, backlog, ch, handler, worker>>

\* server.Shutdown returns once no request is active.
ServerStopped ==
    /\ main = "shutdown"
    /\ \A t \in Tokens : handler[t] \notin InFlight
    /\ main' = "drain"
    /\ UNCHANGED <<rows, starts, cancelled, backlog, ch, handler, worker>>

WorkersStopped ==
    /\ main = "drain"
    /\ \A w \in Workers : wpc[w] = "exited"
    /\ Exit
    /\ UNCHANGED rows

\* shutdownCtx expires while requests are active or workers are running.
ShutdownTimeout ==
    /\ main \in {"shutdown", "drain"}
    /\ Exit
    /\ UNCHANGED rows

Crash ==
    /\ main # "down"
    /\ May("crash")
    /\ Exit
    /\ UNCHANGED rows

-----------------------------------------------------------------------------
(* Service.Create, run by the handler of POST /submissions under the       *)
(* request's context, which does not descend from main's.                  *)

\* The server is listening; AcceptingEarly starts it before recovery.
AcceptingEarly == main \in {"recover", "requeue", "serve"}
Accepting      == main = "serve"

\* The request is valid; Create reads the clock.
Begin(t) ==
    /\ Accepting
    /\ handler[t] = "none"
    /\ handler' = [handler EXCEPT ![t] = "insert"]
    /\ createdAt' = [createdAt EXCEPT ![t] = Cardinality(Begun) + 1]
    /\ \E hasURL \in BOOLEAN : wants' = [wants EXCEPT ![t] = hasURL]
    /\ UNCHANGED <<row, attempts, posts, process, ch, worker>>

Insert(t) ==
    /\ handler[t] = "insert"
    /\ row' = [row EXCEPT ![t] = "queued"]
    /\ handler' = [handler EXCEPT ![t] = "enqueue"]
    /\ UNCHANGED <<createdAt, wants, attempts, posts, process, ch, worker>>

InsertFails(t) ==
    /\ handler[t] = "insert"
    /\ \/ (May("db") \/ May("disconnect")) /\ UNCHANGED row
       \/ May("lost") /\ row' = [row EXCEPT ![t] = "queued"]
    /\ handler' = [handler EXCEPT ![t] = "failed"]
    /\ UNCHANGED <<createdAt, wants, attempts, posts, process, ch, worker>>

Enqueue(t) ==
    /\ handler[t] = "enqueue"
    /\ Room
    /\ ch' = Append(ch, t)
    /\ handler' = [handler EXCEPT ![t] = "accepted"]
    /\ UNCHANGED <<rows, process, worker>>

\* Enqueue's select took ctx.Done; the row stays.
EnqueueCancelled(t) ==
    /\ handler[t] = "enqueue"
    /\ May("disconnect")
    /\ handler' = [handler EXCEPT ![t] = "failed"]
    /\ UNCHANGED <<rows, process, ch, worker>>

-----------------------------------------------------------------------------
(* Worker.Run and Worker.process, under main's context. *)

GoTo(w, pc) == wpc' = [wpc EXCEPT ![w] = pc]

\* process returned: queue.Done and back to the loop.
Return(w) ==
    /\ GoTo(w, "idle")
    /\ wtok' = [wtok EXCEPT ![w] = NoToken]
    /\ wres' = [wres EXCEPT ![w] = "none"]

Dequeue(w) ==
    /\ wpc[w] = "idle"
    /\ ch # <<>>
    /\ wtok' = [wtok EXCEPT ![w] = Head(ch)]
    /\ ch' = Tail(ch)
    /\ GoTo(w, "fetch")
    /\ UNCHANGED <<rows, process, handler, wres>>

DequeueCancelled(w) ==
    /\ wpc[w] = "idle"
    /\ cancelled
    /\ GoTo(w, "exited")
    /\ UNCHANGED <<rows, process, ch, handler, wtok, wres>>

FindByToken(w) ==
    /\ wpc[w] = "fetch"
    /\ \/ /\ DbOk
          /\ row[wtok[w]] = "queued"
          /\ GoTo(w, "mark")
          /\ UNCHANGED <<wtok, wres>>
       \/ DbOk /\ row[wtok[w]] # "queued" /\ Return(w)
       \/ DbFail /\ Return(w)
    /\ UNCHANGED <<rows, process, ch, handler>>

MarkProcessing(w) ==
    /\ wpc[w] = "mark"
    /\ \/ /\ DbOk
          /\ row' = [row EXCEPT ![wtok[w]] = "processing"]
          /\ GoTo(w, "run")
          /\ UNCHANGED <<wtok, wres>>
       \/ DbLost /\ row' = [row EXCEPT ![wtok[w]] = "processing"] /\ Return(w)
       \/ DbFail /\ UNCHANGED row /\ Return(w)
    /\ UNCHANGED <<createdAt, wants, attempts, posts, process, ch, handler>>

\* engine.Run: a cancelled context kills the program, unless it just ended.
RunEngine(w) ==
    /\ wpc[w] = "run"
    /\ \E res \in Results :
          /\ res = "aborted" => cancelled
          /\ wres' = [wres EXCEPT ![w] = res]
    /\ GoTo(w, "store")
    /\ UNCHANGED <<rows, process, ch, handler, wtok>>

\* Deliverer.Deliver goes on only when the request named a callback URL; a
\* worker built without a deliverer would do DeliverNothing.
DeliverNothing(w) == Return(w)
Deliver(w) ==
    \/ wants[wtok[w]] /\ GoTo(w, "post") /\ UNCHANGED <<wtok, wres>>
    \/ ~wants[wtok[w]] /\ Return(w)

\* StoreResult reports an error, and process returns; a process that only logs
\* it would do NotStoredGoOn.
NotStoredGoOn(w) == DbFail /\ UNCHANGED row /\ Deliver(w)
NotStored(w)     == DbFail /\ UNCHANGED row /\ Return(w)

StoreResult(w) ==
    /\ wpc[w] = "store"
    /\ \/ DbOk /\ row' = [row EXCEPT ![wtok[w]] = wres[w]] /\ Deliver(w)
       \/ DbLost /\ row' = [row EXCEPT ![wtok[w]] = wres[w]] /\ Return(w)
       \/ NotStored(w)
    /\ UNCHANGED <<createdAt, wants, attempts, posts, process, ch, handler>>

\* Deliverer.post: the request reaches the receiver or not; either way the
\* attempt is recorded next.
Post(w) ==
    /\ wpc[w] = "post"
    /\ \/ ~cancelled /\ posts' = [posts EXCEPT ![wtok[w]] = @ + 1]
       \/ (cancelled \/ May("net")) /\ UNCHANGED posts
    /\ GoTo(w, "record")
    /\ UNCHANGED <<row, createdAt, wants, attempts, process, ch, handler, wtok,
                   wres>>

\* Deliverer.record: CreateCallbackAttempt.
Record(w) ==
    /\ wpc[w] = "record"
    /\ \/ /\ DbOk \/ DbLost
          /\ attempts' = [attempts EXCEPT ![wtok[w]] = @ + 1]
       \/ DbFail /\ UNCHANGED attempts
    /\ Return(w)
    /\ UNCHANGED <<row, createdAt, wants, posts, process, ch, handler>>

-----------------------------------------------------------------------------

MainStep ==
    \/ Recover \/ RecoverFails
    \/ EnqueueRecovered \/ RequeueCancelled \/ Serve
    \/ BeginShutdown \/ ServerStopped \/ WorkersStopped \/ ShutdownTimeout

HandlerStep(t) == Insert(t) \/ InsertFails(t) \/ Enqueue(t) \/ EnqueueCancelled(t)

WorkerStep(w) ==
    \/ Dequeue(w) \/ DequeueCancelled(w)
    \/ FindByToken(w) \/ MarkProcessing(w) \/ RunEngine(w) \/ StoreResult(w)
    \/ Post(w) \/ Record(w)

Next ==
    \/ Start \/ MainStep \/ Signal \/ Crash
    \/ \E t \in Tokens : Begin(t) \/ HandlerStep(t)
    \/ \E w \in Workers : WorkerStep(w)

Spec == Init /\ [][Next]_vars

\* A supervisor starts the process again; goroutines that can run do run, and
\* every call returns (statements and programs have time limits).  No request
\* has to come, and no fault has to happen.
Fairness ==
    /\ WF_vars(Start)
    /\ WF_vars(MainStep)
    /\ \A t \in Tokens : WF_vars(HandlerStep(t))
    /\ \A w \in Workers : WF_vars(WorkerStep(w))

FairSpec == Spec /\ Fairness

-----------------------------------------------------------------------------
(* What the life cycle promises. *)

MainStates    == {"down", "recover", "requeue", "serve", "shutdown", "drain"}
HandlerStates == {"none", "insert", "enqueue", "accepted", "failed", "past"}
Busy          == {"fetch", "mark", "run", "store", "post", "record"}

\* Every variable has its type, and the channel never exceeds its capacity
\* (memory/queue.go).
TypeOK ==
    /\ row \in [Tokens -> {"none"} \cup Unfinished \cup Results]
    /\ createdAt \in [Tokens -> Nat]
    /\ wants \in [Tokens -> BOOLEAN]
    /\ attempts \in [Tokens -> Nat]
    /\ posts \in [Tokens -> Nat]
    /\ main \in MainStates
    /\ starts \in Nat
    /\ cancelled \in BOOLEAN
    /\ backlog \in Seq(Tokens)
    /\ ch \in Seq(Tokens) /\ Len(ch) <= Cap
    /\ handler \in [Tokens -> HandlerStates]
    /\ wpc \in [Workers -> Off \cup Busy]
    /\ wtok \in [Workers -> Tokens \cup {NoToken}]
    /\ wres \in [Workers -> Results \cup {"none"}]

\* Where the process holds tokens.
AtWorkers == Range(wtok) \ {NoToken}
Arriving  == {t \in Tokens : handler[t] \in InFlight}
InHand    == Range(backlog) \cup Range(ch) \cup AtWorkers \cup Arriving

\* A token is in one place at a time: no submission is queued twice or run by
\* two workers, although MarkProcessing and StoreResult do not compare the
\* status they replace (Create, recoverUnfinishedSubmissions, Worker.process).
SingleHolder ==
    /\ IsInjective(backlog) /\ IsInjective(ch)
    /\ \A v, w \in Workers : wtok[v] = wtok[w] /\ wtok[v] # NoToken => v = w
    /\ Range(backlog) \cap (Range(ch) \cup AtWorkers \cup Arriving) = {}
    /\ Range(ch) \cap (AtWorkers \cup Arriving) = {}
    /\ AtWorkers \cap Arriving = {}

\* The row says what the holder is doing: waiting tokens have queued rows, a
\* worker that executes has a processing row, a callback follows a stored
\* result.  So the status check of Worker.process never skips a token.
HolderAgrees ==
    /\ \A t \in Range(backlog) \cup Range(ch) : row[t] = "queued"
    /\ \A t \in Tokens :
          /\ handler[t] \in {"none", "insert"} => row[t] = "none"
          /\ handler[t] = "enqueue" => row[t] = "queued"
    /\ \A w \in Workers :
          /\ wpc[w] \in {"fetch", "mark"} => row[wtok[w]] = "queued"
          /\ wpc[w] \in {"run", "store"} => row[wtok[w]] = "processing"
          /\ wpc[w] \in {"post", "record"} => row[wtok[w]] \in Results

\* The process keeps the contract of SubmissionContract: the row is its status
\* and what the receiver saw its notifications; an aborted row is no status of
\* it.
Contract == INSTANCE SubmissionContract WITH
    status   <- [t \in Tokens |-> IF row[t] = "verdict" THEN "finished" ELSE row[t]],
    notified <- posts

\* Through every fault and restart the rows and the callbacks take steps of the
\* contract only: nothing is executed that is not queued, finished that is not
\* executing, or notified twice.
KeepsContract == Contract!Spec

\* A stored result is never replaced or reset, and a persisted submission is
\* never forgotten, whatever crashes, lost answers and recoveries do
\* (StoreResult, RecoverUnfinished).
ResultIsFinal ==
    [][\A t \in Tokens :
          /\ row[t] \in Results => row'[t] = row[t]
          /\ row[t] # "none" => row'[t] # "none"]_vars

\* A run that shutdown killed is never reported as the result of the program:
\* its row stays unfinished until recovery (StoreResult uses the context
\* whose cancellation killed the run).
NoAbortedResult ==
    \A t \in Tokens : row[t] # "aborted"

\* The receiver gets at most one callback for a submission, over all restarts,
\* only for a stored result, and at most one attempt is recorded
\* (Deliverer.Deliver has Attempt: 1 and no retry).
CallbackAtMostOnce ==
    \A t \in Tokens :
        /\ posts[t] <= 1 /\ attempts[t] <= 1
        /\ posts[t] + attempts[t] > 0 => wants[t] /\ row[t] \in Results

\* Recovered submissions run in the order they were created and before any
\* submission of this process (main calls recoverUnfinishedSubmissions before
\* it serves; RecoverUnfinished sorts by created_at).
RecoveredFirst ==
    LET waiting == ch \o backlog
        old(i)  == handler[waiting[i]] = "past"
    IN  \A i, j \in DOMAIN waiting :
            i < j /\ old(j) =>
                old(i) /\ createdAt[waiting[i]] < createdAt[waiting[j]]

\* status.go: "Queued means a submission is waiting for a worker."
QueuedIsWaiting ==
    main = "serve" /\ ~cancelled =>
        \A t \in Tokens : row[t] = "queued" => t \in InHand

\* A process that meets no fault finishes every submission it finds
\* unfinished, whatever the processes before it left behind.
UnfinishedFinishes ==
    \A t \in Tokens :
        starts > FaultyStarts /\ main # "down" /\ row[t] \in Unfinished
            ~> row[t] \in Results

\* Such a process records the callback attempt of what it finishes.
CallbackRecorded ==
    \A t \in Tokens :
        starts > FaultyStarts /\ main # "down" /\ row[t] \in Unfinished /\ wants[t]
            ~> attempts[t] = 1

\* Recovery ends, however many tokens it has to pass through the bounded
\* channel: the workers that empty it are already running.
RecoveryEnds == main \in {"recover", "requeue"} ~> main \in {"serve", "down"}

\* A cancelled process ends: nobody waits for somebody who has left.
ShutdownEnds == cancelled ~> main = "down"

=============================================================================
