# A verification model of batasd

`batasd` is a code execution service. Clients `POST /submissions` with a source
text; the process stores the submission in PostgreSQL, passes its token through
a bounded in-memory queue to a fixed number of workers, runs the program in a
sandbox, stores the result and may send it to a callback URL. The database is
the only thing that outlives the process.

This directory holds TLA+ modules translated from that code, TLC
configurations that check them on small instances, and proofs that TLAPS checks
for all instances. To repeat the checks:

    tlc -workers 2 -config MCLifecycle.cfg MCLifecycle
    tlapm LifecycleProofs.tla

`PROJECT.json` lists every run with its question, the source lines that each
definition translates, the findings, the hazards and the theorems.

## 1. Inventory

| Component | State | Operations | Module |
|---|---|---|---|
| process (`cmd/batasd/main.go`) | where `main()` is, the cancelled context, recovered tokens not yet enqueued | start, recover, serve, signal, shutdown with a timeout, exit; crash | `Lifecycle` |
| submission service (`internal/submission/service.go`) | where each `Create` is | insert, enqueue, fail | `Lifecycle` |
| rows (`internal/repository/postgres/submissions.go`) | status, `created_at`, callback URL, callback attempts | `Create`, `FindByToken`, `MarkProcessing`, `StoreResult`, `RecoverUnfinished`, `CreateCallbackAttempt`, `List` | `Lifecycle`; `List` in `Listing` |
| worker (`internal/worker/worker.go`) | its token, its result, where it is | dequeue, fetch, mark, run, store, deliver, record | `Lifecycle` |
| queue (`internal/queue/memory/queue.go`) | channel, `pending`, `active` | `Enqueue`, `Dequeue`, `Done`, `Stats` | `MemoryQueue` (in `Lifecycle` each is one step) |
| callback (`internal/callback/callback.go`) | what the receiver saw, what was recorded | `Deliver`, `post`, `record` | `Lifecycle` |
| `wait=true` (`WaitForCompletion`, `waitForCreatedSubmission`) | what the loop read, its deadline, the answer | poll, tick, expire, answer | `WaitPoll` |
| sandbox run (`internal/sandbox/direct`, `output.go`) | program, pipes, copiers of output and input, buffers, context, `cmd.Wait` | start, copy, cancel, kill, wait, give up waiting, classify | `Runner` |
| isolate driver (`internal/sandbox/isolate`) | the pool of boxes, each box's state | acquire, init, run, cleanup, release; read the meta file, classify | `BoxPool`, `Drivers` |
| docker driver (`internal/sandbox/docker`) | none | run, inspect, classify; remove the container | `Drivers`, without the steps of its command |
| engine (`internal/execution/engine.go`) | aggregate of repeated runs, the result | prepare, compile, run n times, aggregate | `Engine` over `Drivers` |
| additional files (`extractAdditionalFiles`, same file) | the working directory, names seen, bytes extracted | reject or extract an entry | `AdditionalFiles` |
| listing (`List` of handler, service and repository) | the client's cursor | pages, newest first | `Listing` |
| limits (`internal/config`, `service.go`, `output.go`) | the configuration, the stored limits | check, merge, use | `Admission` |
| language catalogue (`internal/language`) | the catalogue of the release | load, resolve | `Admission` |
| migrations (`internal/migrations`) | `schema_migrations`, the schema | look, execute, record, commit | `Migrations` |
| monitor, `GET /v1/workers` (`internal/worker/monitor.go`, `router.go`) | each worker's shown state | mark, read | `WorkerMonitor` |
| HTTP routing, authentication, JSON, the rest of the configuration, scripts | none | translate | not modelled: stateless |

**How they interact.** A request handler calls `Service.Create`, which inserts
the row and then calls `Enqueue` under the *request's* context. Workers and
`main()` use *main's* context: it ends the workers' loops, kills the programs
they run and makes their statements fail. Before it serves, `main()` starts the
workers, resets every unfinished row in one statement and passes the returned
tokens, oldest first, through the same bounded channel. Shutdown first waits
for the handlers (`server.Shutdown`) and then for the workers, both under one
timeout. A worker calls the engine, which calls the sandbox driver. The direct driver
starts a process and two goroutines that copy its output; `os/exec` adds one that copies
its input and one that kills the process group when the run's context ends, and waits
for the input no longer than the wait delay of two seconds. An output buffer that
overflows cancels that context from within the copying goroutine. docker and isolate
copy in the same way, but kill only their own client and set no wait delay.

**What is hard.** No statement of the repository compares the status it
replaces, so everything rests on a token being in one place; the insert and the
enqueue are two steps; a statement may take effect although the caller sees an
error; the cancellation that ends a run is also the one under which its result
would be stored; recovery has more tokens than the channel has places; the
queue's counters change in other steps than its channel; the program's exit,
its deadline, an overflow and a shutdown race, and `cmd.Wait` runs before the
copiers are joined; a descendant can keep `cmd.Wait` waiting for input to be taken until
the wait delay makes an error of it; the drivers hear of one end from several sources that may
contradict each other; processes that start together migrate one database; the
configuration and the catalogue under which a submission was admitted need not be
those under which it runs. `PROJECT.json` lists each of these under `hazards` with its
line and the properties that cover it.

**What makes each component correct.**

- Life cycle: one holder per token; the row agrees with the holder; a stored
  result is final; the result of a killed run is never stored; at most one
  callback; recovered submissions first; whatever is unfinished is finished by
  the next process; shutdown and recovery end.
- Queue: FIFO and bounded; `Stats` counts every token exactly once; no caller
  waits for ever; workers leave.
- Monitor: counters and states that are read one after the other differ by no
  more than the workers that moved in between; after a shutdown all are stopped.
- Wait: an answer is true of the row; a wait ends without help from workers.
- Sandbox run: no byte lost without a flag; a verdict blames the program only
  for what it did, and the sandbox for an exit with 0 only when the wait delay cut off
  the input or a shutdown came; a run ends although its descendants hold the pipes.
- Box pool: no box has two users, none is lost, a program runs in a box made for
  it, and nobody waits for a box.
- Engine and drivers: nothing runs after a failure, accepted means that every run
  was right, the result reports what the runs reported, and its status blames what
  ended the last call.
- Additional files: an archive is judged for what it holds and not for its
  order, extracted whole and within the limit, and the source file is safe.
- Listing: pages neither repeat nor skip a row that existed before the first page.
- Limits and languages: a submission gets the numbers it asks for up to the maximum
  and exactly the standard for the others, and network only where it is allowed; a limit is used as it was stored; a version runs only
  where it is offered.
- Migrations: each file is recorded once, in order and truthfully; who serves has
  them all; every process serves in the end.

## 2. The modules

### SubmissionContract and Lifecycle

`SubmissionContract` says what a client may rely on, with no process in sight:
a submission is persisted once, begun and put back any number of times,
finished once, and its receiver is told at most once, after that. It is the
abstract specification that `Lifecycle` implements: the refinement mapping
takes the row as the status and the requests that reached the receiver as the
notifications. A stored `"aborted"` result maps to no status of the contract,
so the refinement also says that there is none.

`Lifecycle` has the variables of the table above. `row` is the column
`status_code`; the many terminal codes are abstracted to `"verdict"` (the
engine judged the program) and `"aborted"` (what the engine returns when the
context killed the program). `main`, `handler[t]` and `wpc[w]` are program
counters, one value per place where another goroutine can be scheduled between
two effects. The actions are named after the calls they translate. `Exit` is
what is left of a process when it ends in any way: the queue, the workers and
the handlers are gone, the rows stay.

Every statement has three outcomes: it answers (`DbOk`), it fails without
effect (`DbFail`), or it takes effect and only its answer is lost (`DbLost`).
A cancelled context makes the statements issued under it fail. Faults are named
by kind (`db`, `lost`, `disconnect`, `signal`, `crash`, `net`), and `Faults`
says which happen in a run.

Assumptions, all of them visible in the module's head:

- One process at a time uses the database. Two would recover each other's rows;
  nothing in the code prevents that, and the documentation runs one.
- A statement abandoned by its caller does not take effect after the caller's
  step. The statements compare no status, so one that did could overwrite the
  row of a later process (a hazard without a property).
- The clock that `created_at` is read from is monotonic and never gives two
  submissions the same time.
- A handler that waits (`wait=true`) after its enqueue is no longer in
  `InFlight`: it holds no token, and only delays the end of `server.Shutdown`,
  which has its timeout. `WaitPoll` has that part.

### MemoryQueue

The queue with its real granularity: `Enqueue` counts, then sends or gives up,
then undoes the count; `Dequeue` receives and then counts; `Done` counts. A
caller is a handler or `main()`; they differ in whose cancellation ends their
`select`. A token is identified with the caller that sends it. `Lifecycle` has
the channel without the counters: each call changes the channel in exactly one of
its steps here, and nothing in the life cycle reads the counters, so there each
call is that one step.

### WorkerMonitor

`MemoryQueue` with the loop of `Worker.Run` around it. Each call of the queue is
followed by a mark of the monitor, a step of its own (`due`), and
`GET /v1/workers` reads the counters in one step (`Stats`) and the marks in another
(`Snapshot`). `request.moved` is a history variable: the workers that have taken a
step between the two reads. Tokens and times of the marks are left out.

### WaitPoll

The loop of `WaitForCompletion` for several clients. Of the workers only what they do to
the rows is left; that it is nothing else in a process that serves is a theorem about
`Lifecycle` (`RowsStep`). `Expire` is the timeout or the disconnect. It may fall into the read
(`PollExpired`), in which case the handler falls back on the submission that
`Create` returned, or into the `select` (`SelectExpired`).

### Runner

One run of the direct driver on Unix, counted in bytes: `plan` is what the program will
do (how much it writes to each stream, with which code it exits, whether all its input
may be taken, whether it leaves its process group, a descendant in the group or one that
escaped), chosen initially from all plans. The copiers read any part of a pipe, store
what fits (`Store`), and on the first overflow call the buffer's `onLimit`, which cancels
the context (`CopierLimit`: a step of its own, because the buffer has released its mutex
by then).

`cmd.Wait` is modelled from how `os/exec` behaves for a command that was made by
`CommandContext` with output pipes, a `Stdin` that is no file, and what
`configureCommand` sets: a process group, a `Cancel` that kills the group, and a
`WaitDelay` of two seconds. `Reap` is the end of the program, `HearWatcher` the result of
the goroutine that watches the context. Then `cmd.Wait` waits for the input to be copied
(`InputCopied`) and closes the read ends (`ClosePipes`), or the wait delay passes
(`WaitDelay`): it cuts the copying off, and unless there is another error `cmd.Wait` gives
`exec.ErrWaitDelay`. The watcher kills once (`WatcherKills`) and, if nobody has asked for
its result when the delay has passed, kills the program itself and cuts the input off too
(`WatcherExpires`): this is what ends a program that has left its process group and was
missed by the first kill. `Judge` is the rest of `Run` together with
`Engine.runSubmission`, which only looks at the flags; an error that is not an exit is a
sandbox error. The expected output is what the program writes to standard output, so
`wrong_answer` can only come from lost bytes.

Abstractions: the delay may pass at any time once it has begun; a descendant keeps all
three pipes or none; input that can be taken may be taken at any time, before or after
the end of the program, or never. Left out: a command that cannot be started (one error
result, no concurrency; `Drivers` has it), and `configureCommand` of systems other than
Unix, which has no process group. docker and isolate do not call `configureCommand`, so
nothing here is said of the steps of their commands.

### BoxPool

The isolate driver's pool: `boxes` is the channel of free boxes, `box[w]` the
one that worker `w`'s call holds, and `site[b]` what is on the disk under the
box's number: nothing, something left over, or the box that a call initialised.
A call acquires, initialises, runs, cleans up and releases; `pc[w]` says before
which of these it is. isolate itself is external: its init and its cleanup may
fail, be killed or leave anything behind, and boxes of an earlier process may
be there at the start. The deferred cleanup and release are two steps, in the
order in which the code defers them. How the command in the box is killed and awaited is
no part of the model. Programs that an earlier process left running in a box are outside
the model: with them, an init would fail.

### Drivers and Engine

`Drivers` is what each driver makes of what happened to a call. A member of
`Happenings` says how the command or its program ended, why the context was done when
`Run` looked at it, whether a buffer overflowed, and what became of docker's inspect
or isolate's meta file; `Possible` keeps those that can meet with a driver. An exit with 0
after which the wait delay has passed (`"delayed"`) is the direct driver's alone.
`OfDirect`, `OfDocker` and `OfIsolate` translate the tails of the three `Run`s with
their different orders of early returns, `Meta` is `applyMeta`. An exit code is 0 or
another one, except that docker's 125 has its own value.

`Engine.Run` runs over one of the drivers and everything that may happen to its calls
(`Events`): the preparation with its refusals, the compilation, the repeated runs and
their aggregate. `last` keeps what really happened to the last call, and
`BlamesTheCause` compares the final status with it: the facts have passed through the
driver's flags and the engine's order of reasons by then. Outputs are
lengths, and those of one length are equal up to trailing white space, so that an
output matches the expected one or does not. `-1` is a memory that was not
measured. The working directory is left out: its removal is deferred and its
error ignored.

### AdditionalFiles

The extraction of an archive into the directory that already holds the source
file. Entries are revealed one at a time, as the loop reads them, so a run
covers every archive of up to `MaxEntries` of them. A name is the sequence of its
components, and `Clean` is what `path.Clean` makes of it. A disk that fails at
any point is the outcome `"failed"`. `Seen` is the code's set of names and
`Free` the exclusive open: each of the two rejects what the other would let
through, and `JudgedAsAWhole` says what both together amount to.

### Listing

One client that follows `next_before` while rows come and change. A row may come
with any creation time, because `Create` reads the clock long before it inserts
and clocks are adjusted; so `Listing`, unlike `Lifecycle`, assumes nothing about
the order. A token is a number, in the order in which the database compares
tokens. `due` is a history variable for `NoneMissed`. The language filter is left
out: a row cannot leave it, so a listing of one language is a listing of fewer
rows.

### Migrations

`migrations.Run` in any number of processes on one database, statement by statement
as far as another connection can tell: the look and the creation of
`CREATE TABLE IF NOT EXISTS` (PostgreSQL lets two of them collide), the look into the
ledger, the file, the insert of its key, the commit. A transaction that has changed
tables has `lock` until it ends; the others wait for it and then fail on what it made
or on its key. A process that fails leaves through `os.Exit(1)` and is started again;
faults (a statement that fails, a signal, a kill, a commit whose answer is lost) are
bounded by `MaxFaults`. `old` is the release that made the database: the first file
has grown over time and makes, on a new database, features of later files
(`InFirst`), which is why the statements of a later file can be repeated. With
`DATABASE_RUN_MIGRATIONS=false` none of this runs.

### Admission

What a submission is given to run with. `Start` takes any configuration and catalogue
that `Config.Validate` and `LoadCatalog` accept, `Create` resolves the version, checks
and merges the limits and stores both, and `Execute` resolves the stored version
again and uses the stored limits, perhaps after a restart with another configuration
and another release. The nine numeric limits are checked and merged alike, so `Fields`
is a set of any of them; `Used` is the multiplication to an `int64` with its wrap
(`Half` stands for 2^63) and the fallback for what is not positive. A request that does
not mention the network has it off, because the field is decoded to false (`OfRequest`);
a language that does not mention it leaves the default (`OfLanguage`).

## 3. The runs

| Run | Instance | Shows |
|---|---|---|
| `lifecycle` | 2 tokens, 2 workers, 1 place, 3 starts, all faults in the first two | safety, the order of recovery and the refinement of the contract; the third process finishes and records what the others left; recovery and shutdown end |
| `lifecycle_queued` | violation | finding 1 |
| `queue` | 1 handler and `main()`, 2 workers, 1 place, 1 request for the states | counters and states exact in every interleaving; nobody waits for ever; all workers are shown as stopped in the end |
| `wait` | 2 clients, failing reads | answers are true and every wait ends |
| `runner` | 2 streams, limit 1, pipes of 2, programs of up to 2 bytes a stream, input taken or not, every kind of descendant | verdicts are fair, no byte lost by the copiers, overflows real; a run ends, and an overflow stops the program |
| `runner_truncated` | violation | finding 2 |
| `pool` | 3 workers, 3 boxes | boxes have one user, are fresh and always at hand |
| `engine` | 3 drivers, outputs up to 1, 0 to 2 runs, compiled or not | the result is that of the runs and blames what ended the last, and nothing runs after a failure |
| `files` | archives of up to 3 of 29 entries, limit 2 | archives are judged as a whole and extracted whole |
| `listing` | 4 tokens, 2 creation times, pages of 1 and 2, every filter and cursor | every submission once and in order |
| `migrations` | 3 processes, 5 files, 2 faults, databases of every release | the ledger is in order and true, who serves has everything, all serve in the end |
| `limits` | 1 numeric field and network, 1 language of 2 versions, `Half` 8, limits from -1 to 6 | limits as documented and used as stored; versions run only where offered |

**Why the bounds are enough to be interesting.** One place in the channel and
two tokens let the queue be full while another token arrives and let
recovery have more tokens than places. Two workers are the fewest that can hold
the same token. Two starts let a fault fall before, in and after a recovery;
`FaultyStarts = 2` lets them also fall into the second process, and a
third start gives the liveness properties a process without faults. The second
process is the first that has something to recover, so only then can a signal
find `main()` blocked on a full queue that the workers have left. One handler and
`main()` are two callers for one place, one with each kind of context.
`Limit 1` and `MaxBytes 2` give outputs below, at and above the limit, and
pipes of two bytes let a copier fill the buffer exactly and then write to the full one, or
read across the boundary in one piece. Symmetry
is used in `pool` only, the run without liveness that has sets of model
values; no definition distinguishes or orders them. Three boxes and workers let
two calls overlap while a third box is free or in the way. Two runs are the
fewest that can differ, and times and memories of 1 and 2 make average, sum,
latest and largest different. The files are the repository's five, of which the first
makes what the second and the third add; three processes let one win, one lose and one
come late, and two faults let a restarted process fail again. One field is enough,
because no code compares or combines two of them; with `Half` 8 and a unit of 2, limits
up to 3 fit, those from 4 wrap, and 0, 1, 3 and 6 as maxima are none, below, at and
beyond what fits. Two versions, each enabled or not and each the default or not, and
two catalogues in a row let the stored version appear and disappear. Three entries allow a pair that clashes and one
that does not, in every order, and the names meet on the disk in every way: as
the same path in two spellings, as a file where another needs a directory, as
the source file. Sizes up to 3 at a limit of 2 are below, at and above it. Four
rows with two creation times have ties on both sides of a page's end, and limits
of -1, 0, 1 and 3 are invalid, defaulted, taken and clamped. `MaxStarts` is a bound on the model, not on the
code: after the last start the model stops, which is why the life cycle is
checked without the deadlock check. The same holds for `WaitPoll` (all clients
answered), `Runner` (the run is over, or a program that never exits), `Engine`
and `AdditionalFiles` (the call has returned), `Listing` (every row is
finished and the client done), `Migrations` (all processes serve) and `Admission`. `MemoryQueue` and `BoxPool` are checked with the
deadlock check.

**Fairness.** Goroutines that can run do run, and every call returns, because
statements, callbacks and programs have time limits: weak fairness on the steps
of `main()`, of each handler and of each worker. `Start` is weakly fair because
the deployment restarts the process. No request has to come, no fault has to
happen, and no client has to disconnect. In `MemoryQueue` a send and a receive
are strongly fair: Go serves the goroutines that wait on a channel in the order
they came, and a `select` chooses among ready cases at random. In `Runner` the
copiers of the output, the watcher and `cmd.Wait` are weakly fair, and the wait delay
passes when it has begun; the *program* and whoever reads the input are not fair, and
the deadline need not come: `RunEnds` starts from the moment the program has
exited or the context has ended, and `OverflowStops` shows that an overflow
alone ends the program, also one that has left its process group. In `WorkerMonitor` a worker makes its mark. In `Migrations`
every statement ends and every process is started again; a process that loses a race
dies, so `EveryoneServes` is not obvious: it needs that the winner gets on. The other runs check no liveness: that a call of the isolate
driver gets a box is the safety property `NeverWaits`.

## 4. What is proved

TLAPS proves the following for all finite sets of tokens, workers and callers,
all capacities, limits and pipe sizes, all sets of boxes and of faults, any number of
clients, migrating processes and files, all archives, languages, times and memories, and
all configurations and catalogues, from the named assumptions on the constants and
nothing else. Every invariant and every action property that a run checks is now a
theorem, and so is the refinement of `SubmissionContract`. The type invariants are
proved too (`TypeCorrect`, `QueueTypeCorrect`, `RunnerTypeCorrect`, `PoolTypeCorrect`,
`WaitTypeCorrect`, or as a part of the inductive invariant) and need no run.

A proof module extends the modules it is about. `SandboxProofs` extends `Runner` and
`BoxPool`, `ExecutionProofs` extends `Engine` and `AdditionalFiles`, `RequestProofs`
extends `Admission` and `WaitPoll`: the two of a pair share no variable, and one of
them names its specification for itself (`PoolSpec`, `FilesSpec`, `WaitSpec`).

**DataLemmas.** What several proofs need to know about data: `Append` and `Tail` element
by element, sequences without repetitions, minimal sets, and the community modules' sum
of a function over a finite set. That sum chooses its elements with `CHOOSE`;
`SumTakesOut` says that any element may be taken out first. It needs an induction over
finite sets, which is done by hand: were there a set for which it is false, there would
be a smallest one (`WFMin` and the well-foundedness of the strict inclusion, from the
library).

**LifecycleProofs.** `SingleHolder` is not inductive: that `EnqueueRecovered`
does not duplicate a token depends on what the rows say about the other holders,
and that a recovered token has no holder depends on nothing being held while
`main()` is at `"recover"`. The inductive invariant `IInv` therefore has

- `TypeOK`;
- `WorkerControl`: a worker has a token exactly when it is busy, has a result
  when it is about to store one, and has an aborted result only when the context
  is cancelled, so that `StoreResult` fails;
- `MainControl`: nothing is held, and no request is in flight, before
  recovery has read the rows; only a `main()` that requeues has a backlog;
- `SingleHolder` and `HolderAgrees` themselves, which need each other: the
  row tells apart the places a token could be in;
- `NoAbortedResult`.

From it follow `OneHolder`, `RowsAgree`, `KilledRunsAreNotResults`,
`StoredResultsAreFinal` (an action property), `ContractKept` (the refinement:
initial states map to initial states, every step to a step of the contract or a
stutter) and, with the second invariant `CallbackInv` on posts and attempts,
`OneCallback`. `RecoveryIsOrdered` needs a third one, `OrderInv`: the order holds of the
channel followed by the backlog, which `EnqueueRecovered` leaves as it is, and nothing
in a process is newer than recovery before it serves. `RowsAgree` also shows that the branch of `process` that skips a
token whose row is not queued is never taken by the modelled system: it guards
against an assumption being broken. `RowsStep` is what the models of the readers of a row
(`Listing`, `WaitPoll`) rest on: one step moves one row by one status, forward, unless it
is the recovery statement of a process that does not serve yet.

**MemoryQueueProofs.** `QInv` is `TypeOK` with `CountsExact`; the work is in the
cardinalities of the sets of callers and workers in a given state.
`ZerosMeanIdle` follows from it. `AnswersAgree` is about `WorkerMonitor`, whose steps
are the queue's or leave the queue alone. `HalvesAgree` bounds the difference of two
numbers read at two times; what makes it inductive is the witness in `CountedThen`: some
set of workers has the size that was counted and differs from the busy ones of now only
in workers that have moved. With `MarksTell` (a worker's mark, once the one that is due
is made, says what the queue counts it as) the rest is arithmetic of cardinalities.
`MonitorRefines` says that `WorkerMonitor` implements `MemoryQueue` with its fairness, so
that `EnqueueReturns` need not be checked again there.

**SandboxProofs.** For a run, `RInv` joins `NoSilentDrop`, `OverflowIsReal` and
`VerdictIsFair` with two facts about control: `Causes` (whoever cancelled the
context has a reason: an overflow, a shutdown or the deadline; a kill has a
context that is done, and so has a watcher that missed the program) and `Reaped` (what
`cmd.Wait` reports agrees with how the program ended, with the watcher and with the
input: an `ErrWaitDelay` comes from input that was cut off or after a context that is
done). Without them the verdict could not be
traced back to the program.

`RunnerFitsDrivers` joins the two models of the direct driver. `Runner` has its steps;
`Drivers`, on which `Engine` stands, only a table of what can have happened
(`Possible`) and what the driver makes of it (`OfDirect`). When a run is judged, what has
happened is in the table, and the table gives the run's verdict. That an overflow
has cancelled the context by then needs `Reported`: each copier that met one has either
called `onLimit` or is about to, and `Run` judges after the copiers are done.

For the pool, `BInv` is `PoolTypeOK` with `PoolIsWhole` and `RunsInFreshBox`. That a
program runs in its own box follows because whoever initialises or cleans up a
box is its only user. `NeverWaits` is a counting argument: were no box free while
a worker wants one, the boxes would be held by the other workers, one each, and
there would be more workers than boxes, which `Config.Validate` excludes (the
assumption `BoxesAssumption`); a sequence without repetitions that lacks a box is shorter
than the pool.

**ExecutionProofs.** `StopsAtFirstFailure` speaks of all calls, the engine's code only of
the last one. `EngineInv` keeps, for each stage, how many calls there are and that those
before the last were good and right (`UnderWay`, `Ended`). `BlamesTheCause` needs no more
of the past than `LastCall`, that the flags of the last call are what its driver made of
what happened, and then a case analysis: what each of `OfDirect`, `OfDocker` and
`OfIsolate` says about its argument (`FlagsTell`), and in which order the engine asks.
`ReportsTheRuns` rests on `Aggregated`: during the repetition the aggregate holds the sum
of the times of the runs so far, their greatest memory and the last output. A run more
adds its time to the sum by `SumTakesOut`.

For the additional files, `DiskBounded` needs `DiskCounted` (what is written is what was
counted, or one more after a rejection) and again `SumTakesOut`. `ExtractedWhole` and
`JudgedAsAWhole` come from one invariant: while nothing is rejected, the files and
directories on the disk are exactly those that the entries so far name, and those above
them (`Tree`, `FilesNamed`, `DirsNamed`). Then each of the code's checks of an entry
against the disk is a check against the earlier entries or the source file, whichever of
the two came first (`ClashIsImproper`, `ConflictIsImproper`), and an entry that passes
them all clashes with none. What `Clean` computes plays no part.

**ListingProofs.** That pages neither overlap nor skip is a statement about two reads
between which rows came and changed. `Following` places the cursor: it is the oldest row
listed so far, and a row that is there keeps its place. `DueAhead` says that what is due
was listed or is older than the cursor. The rest is that `Newest` is what
`ORDER BY ... LIMIT` promises: its rows are newer than the rest (`NewestFirst`), no more
than the limit (`NewestBounded`, an injection into an interval), and as many as the limit
if any is left out (`NewestFull`, from a smallest set of predecessors). `Newer` is a total
order because tokens are unique.

**MigrationsProofs.** `InOrder` and `LedgerIsTrue` rest on `Control`: a transaction
that changed tables has the lock, a process comes to a file only when those before it
are recorded, and what it is about to commit is the next one. Then the ledger grows by
that one, and the file's changes with it.

**RequestProofs.** For the limits, the invariant says that the configuration and the
catalogue that serve are valid, that stored limits are not negative and that a stored
version resolves in an unchanged catalogue. `LimitsFit` is arithmetic: a stored number is
the standard's or at most the maximum, so its product is below `Half` and does not wrap.
`LimitsHold` follows from the two merges and the validation (`StoredLimits` for the
numbers, `StoredNetwork`).
For the clients that wait, `WaitInv` is `WaitTypeOK`, `AnswerTrue` and `SeenTrue`: what
the loop has read is not ahead of the row, and a row only gets on.

**Model-checked only.** Liveness under fairness (`UnfinishedFinishes`,
`CallbackRecorded`, `RecoveryEnds`, `ShutdownEnds`, `EnqueueReturns`,
`ShownStopped`, `WaitEnds`, `RunEnds`, `OverflowStops`, `EveryoneServes`) is out of this
prover's reach. The two violations are TLC's as well. That `Clean`, a
fold over the components of a name, computes what `path.Clean` does is not stated either:
the model takes it from the library's documented behaviour.

## 5. Findings

1. **A queued row that waits for nobody** (`QueuedIsWaiting`). `status.go:11`
   says a queued submission is waiting for a worker. When the client goes away
   between the insert and the enqueue, the row stays queued and in no queue
   until the next start.
2. **Output lost without a flag** (`TruncationIsFlagged`). `cmd.Wait` closes
   the pipes before the copiers are joined; what they have not read by then is
   lost while both truncation flags are false, and a correct program can be
   given `wrong_answer`. The documentation of `os/exec` says that it is
   incorrect to call `Wait` before all reads from the pipe have completed.

Smaller disagreements that the modules show in their actions, and that no run
is spent on:

- `docs/development.md:176` says that delivery is attempted once and recorded. A signal
  after `StoreResult` of `Lifecycle` fails the request and the record alike, both use
  the cancelled context, and recovery does not look at finished rows: such a callback
  is neither made nor recorded, by this process or a later one.
- `docs/development.md:95` promises the latest state with a 202. When the timeout
  falls into a read (`PollExpired` of `WaitPoll`), the answer is the submission that
  `Create` returned, queued, although the wait has read processing.
- `docs/development.md:252` caps `compile_output` like the other outputs. Each stream is
  capped, and `Joined` of `Engine` may be twice the cap and one byte, with
  `compile_output_truncated` false.
- `engine.go:249` says that the extracted content *exceeds* the limit. `RejectFile` of
  `AdditionalFiles` rejects every file, empty ones too, once nothing remains of the
  limit: an archive of exactly the limit is rejected when an empty file comes
  last and accepted when it comes first.
- `status.go:31` says that a sandbox error means that the sandbox failed before it produced
  a result. When a program has exited with 0 and a descendant keeps its input open with
  more of it unread than a pipe holds, `cmd.Wait` gives `exec.ErrWaitDelay` after two
  seconds, `direct.go:109` makes it the result's error, and the submission is a sandbox
  error although the program, its output and its exit code are there (`WaitDelay` and
  `Verdict` of `Runner`, `"delayed"` of `Drivers`; `VerdictIsFair` and `BlamesTheCause`
  name the case).
- `docs/development.md:248` says that languages may set default limits. The merge keeps a
  default for every number that a request leaves out, but `service.go:344` overwrites the
  network in any request that has limits: one that names only a time loses the network
  that its language has by default (`OfRequest` of `Admission`).
- `docs/development.md:152` says that `..` is rejected. A name is cleaned first
  (`Unsafe`), and `a/../b` is extracted as `b`.
- A default or a language's limit of 0, and a language's limit above the maximum, are
  accepted (`ValidDefaults`, `ValidCatalogue` of `Admission`): the maximum bounds what
  requests ask for, not what they get without asking. Limits that were stored are not
  compared with the maximum of a later process.
- Without a maximum a request may name a limit whose product wraps. A product that
  is not positive then stands for the fallback, another one for a limit nobody named.
  isolate's `wallTimeout` looks at the number before it multiplies: its manager's
  timeout may wrap to one that has passed, while isolate itself is told the number.
- A program that exits with 125 under docker is reported as a sandbox error
  (`OfDocker` of `Drivers`), because the client uses the same code for itself.
- docker's `inspectOOM` takes up to five seconds and comes before the look at the
  deadline: a program that ended in time can be judged to have exceeded it.
- When isolate's report or docker's inspection is lost, a program that was stopped for
  its time or its memory is reported as a runtime error.

## 6. What is left

**Not modelled.** HTTP routing, authentication and JSON translate one request or answer
at a time and keep nothing; the rest of the configuration is read once and checked one
variable at a time; scripts and container images are tools around the program. What a
statement whose caller gave up does later, to a row of the next process, is excluded by an
assumption of `Lifecycle`: nothing in the code prevents it. How docker's and isolate's
commands are killed and awaited is not modelled step by step: a kill reaches the client
only, `forceRemove` then removes the container, and without a wait delay `cmd.Wait` may
wait for the input as long as a descendant of a killed isolate holds it. Two processes on one database
are modelled for the migrations only.

**Next.** That `MemoryQueue` implements the one-step channel of `Lifecycle` as a
refinement, and the late statement as a fault kind of its own, with what it can and cannot
break.
