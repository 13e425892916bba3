------------------------------- MODULE Runner -------------------------------
(***************************************************************************)
(* One Runner.Run of the direct driver on Unix: the program, the pipes of  *)
(* its streams, the goroutines that copy its two outputs into capped       *)
(* buffers and the one of os/exec that copies its input, the run's context *)
(* with its deadline, the goroutine of os/exec that kills the program's    *)
(* process group when the context is done, cmd.Wait with its wait delay,   *)
(* and the verdict that the engine gives the result.                       *)
(*                                                                         *)
(* Output is counted in bytes.  A program's plan says how much it writes   *)
(* to each stream before it exits, with which code (1 stands for all but   *)
(* 0, and for a signal), whether all its input may be taken by somebody or *)
(* some is left over, more than a pipe holds, and what it leaves: nothing, *)
(* a descendant in its process group or one that escaped from it, which    *)
(* keeps the ends of all three pipes open, or its process group without    *)
(* anybody in it.  The expected output is what it writes to stdout.        *)
(*                                                                         *)
(* The wait delay (directWaitDelay, two seconds) may pass at any time once *)
(* it has begun.                                                           *)
(***************************************************************************)
EXTENDS Integers

CONSTANTS
    Streams,   \* stdout and stderr
    Stdout,    \* the one that is compared with the expected output
    Limit,     \* MaxOutputBytes(limits)
    PipeCap,   \* bytes a pipe holds
    MaxBytes   \* bound: bytes a program writes to a stream

ASSUME StreamsAssumption == Stdout \in Streams
ASSUME SizesAssumption ==
    /\ Limit \in Nat \ {0} /\ PipeCap \in Nat \ {0}
    /\ MaxBytes \in Nat

VARIABLES
    plan,      \* the program's plan
    program,   \* "running", "exited" by itself or "killed"
    written,   \* bytes the program wrote to each stream
    pipe,      \* bytes in each pipe
    closed,    \* cmd.Wait closed the read ends
    copier,    \* "read", "write", "limit" or "done"
    feeder,    \* the input is "copying", "done", or "cut" off by the wait delay
    hand,      \* bytes each copier has read and not yet stored
    buf,       \* bytes in each OutputBuffer
    exceeded,  \* each OutputBuffer's exceeded
    outer,     \* the worker's context is cancelled
    ctx,       \* the run's context: "live", "cancelled" or "deadline"
    watcher,   \* os/exec's goroutine: "watch", "signalled", "missed" (there was
               \* no process group to kill), "late" (with ErrWaitDelay) or "left"
    wait,      \* Run: "wait", "watcher", "input", "join" or "judged"
    waitErr,   \* of cmd.Wait: "none", "exit", "ctx" or "delay"
    verdict    \* the submission's status, "none" before the end

vars == <<plan, program, written, pipe, closed, feeder, copier, hand, buf,
          exceeded, outer, ctx, watcher, wait, waitErr, verdict>>
theProgram == <<plan, program, written>>
theEnds    == <<closed, feeder>>
theCopiers == <<copier, hand, buf, exceeded>>
theRun     == <<wait, waitErr, verdict>>

Plans == [bytes : [Streams -> 0..MaxBytes], code : {0, 1},
          input : {"taken", "unread"}, leaves : {"none", "moved", "group", "escaped"}]

\* Run has started the command, the copiers and, in cmd.Start, the watcher.
Init ==
    /\ plan \in Plans
    /\ program = "running"
    /\ written = [s \in Streams |-> 0]
    /\ pipe = [s \in Streams |-> 0]
    /\ closed = FALSE
    /\ feeder = "copying"
    /\ copier = [s \in Streams |-> "read"]
    /\ hand = [s \in Streams |-> 0]
    /\ buf = [s \in Streams |-> 0]
    /\ exceeded = [s \in Streams |-> FALSE]
    /\ outer = FALSE
    /\ ctx = "live"
    /\ watcher = "watch"
    /\ wait = "wait"
    /\ waitErr = "none"
    /\ verdict = "none"

-----------------------------------------------------------------------------
(* The program.  It may stop writing for ever, and it need not exit. *)

ProgramWrites(s) ==
    /\ program = "running"
    /\ written[s] < plan.bytes[s]
    /\ pipe[s] < PipeCap
    /\ written' = [written EXCEPT ![s] = @ + 1]
    /\ pipe' = [pipe EXCEPT ![s] = @ + 1]
    /\ UNCHANGED <<plan, program, theEnds, theCopiers, outer, ctx, watcher, theRun>>

ProgramExits ==
    /\ program = "running"
    /\ written = plan.bytes
    /\ program' = "exited"
    /\ UNCHANGED <<plan, written, pipe, theEnds, theCopiers, outer, ctx, watcher, theRun>>

-----------------------------------------------------------------------------
(* The copiers: io.Copy from a pipe into an OutputBuffer. *)

CopierReads(s) ==
    /\ copier[s] = "read"
    /\ ~closed
    /\ \E n \in 1..pipe[s] :
          /\ hand' = [hand EXCEPT ![s] = n]
          /\ pipe' = [pipe EXCEPT ![s] = @ - n]
    /\ copier' = [copier EXCEPT ![s] = "write"]
    /\ UNCHANGED <<theProgram, theEnds, buf, exceeded, outer, ctx, watcher, theRun>>

\* Nothing is left that could use the program's ends of the pipes.
HoldersGone ==
    \/ program # "running" /\ plan.leaves \in {"none", "moved"}
    \/ watcher = "signalled" /\ plan.leaves = "group"

\* The pipe is empty and its write ends are closed, or its read end is.
CopierEnds(s) ==
    /\ copier[s] = "read"
    /\ closed \/ (pipe[s] = 0 /\ HoldersGone)
    /\ copier' = [copier EXCEPT ![s] = "done"]
    /\ UNCHANGED <<theProgram, pipe, theEnds, hand, buf, exceeded, outer, ctx, watcher, theRun>>

\* The goroutine of os/exec has written all of the input, or nobody can read it
\* any more; neither is an error.
InputCopied ==
    /\ feeder = "copying"
    /\ plan.input = "taken" \/ HoldersGone
    /\ feeder' = "done"
    /\ UNCHANGED <<theProgram, pipe, closed, theCopiers, outer, ctx, watcher, theRun>>

\* OutputBuffer.Write stores what fits.  A buffer that takes a full one
\* for an exceeded one has OverflowsAtLimit, one that does not report what it drops
\* SilentOverflow.
Store(b, n)            == IF b + n <= Limit THEN b + n ELSE Limit
OverflowsAtLimit(b, n) == b + n >= Limit
SilentOverflow(b, n)   == b >= Limit
Overflows(b, n)        == b + n > Limit

CopierWrites(s) ==
    /\ copier[s] = "write"
    /\ buf' = [buf EXCEPT ![s] = Store(@, hand[s])]
    /\ hand' = [hand EXCEPT ![s] = 0]
    /\ exceeded' = [exceeded EXCEPT ![s] = @ \/ Overflows(buf[s], hand[s])]
    /\ copier' = [copier EXCEPT ![s] =
                     IF Overflows(buf[s], hand[s]) /\ ~exceeded[s] THEN "limit" ELSE "read"]
    /\ UNCHANGED <<theProgram, pipe, theEnds, outer, ctx, watcher, theRun>>

\* The buffer's onLimit is the cancel function of the run's context; a buffer
\* made without one has NoCancel.
NoCancel    == UNCHANGED ctx
LimitCancel == ctx' = IF ctx = "live" THEN "cancelled" ELSE ctx
CopierLimit(s) ==
    /\ copier[s] = "limit"
    /\ LimitCancel
    /\ copier' = [copier EXCEPT ![s] = "read"]
    /\ UNCHANGED <<theProgram, pipe, theEnds, hand, buf, exceeded, outer, watcher, theRun>>

-----------------------------------------------------------------------------
(* The context and the watcher. *)

Deadline ==
    /\ ctx = "live"
    /\ ctx' = "deadline"
    /\ UNCHANGED <<theProgram, pipe, theEnds, theCopiers, outer, watcher, theRun>>

\* The process shuts down.
Shutdown ==
    /\ ~outer
    /\ outer' = TRUE
    /\ ctx' = IF ctx = "live" THEN "cancelled" ELSE ctx
    /\ UNCHANGED <<theProgram, pipe, theEnds, theCopiers, watcher, theRun>>

\* kill(-pid) finds a process, be it the program that nobody has reaped yet.
GroupHeld == (wait = "wait" /\ plan.leaves # "moved") \/ plan.leaves = "group"

\* cmd.Cancel.
WatcherKills ==
    /\ watcher = "watch"
    /\ ctx # "live"
    /\ watcher' = IF GroupHeld THEN "signalled" ELSE "missed"
    /\ program' = IF program = "running" /\ GroupHeld THEN "killed" ELSE program
    /\ UNCHANGED <<plan, written, pipe, theEnds, theCopiers, outer, ctx, theRun>>

\* What os/exec closes at the end of the wait delay: the pipes, which ends the
\* copying of the input.
CutOff ==
    /\ feeder' = IF feeder = "copying" THEN "cut" ELSE feeder
    /\ closed' = (closed \/ feeder = "copying")

\* The wait delay passes before cmd.Wait asks for the watcher's result: it kills
\* the program itself, wherever that has moved, and cuts off the input.
WatcherExpires ==
    /\ watcher \in {"signalled", "missed"}
    /\ wait \in {"wait", "watcher"}
    /\ program' = IF program = "running" THEN "killed" ELSE program
    /\ CutOff
    /\ watcher' = CASE watcher = "signalled" -> "signalled"
                    [] watcher = "missed" /\ wait = "watcher" /\ feeder = "copying" -> "late"
                    [] watcher = "missed" /\ ~(wait = "watcher" /\ feeder = "copying") -> "left"
    /\ UNCHANGED <<plan, written, pipe, theCopiers, outer, ctx, theRun>>

-----------------------------------------------------------------------------
(* Run, after the start of the copiers. *)

\* cmd.Wait reaps the program ...
Reap ==
    /\ wait = "wait"
    /\ program # "running"
    /\ waitErr' = IF program = "killed" \/ plan.code # 0 THEN "exit" ELSE "none"
    /\ wait' = "watcher"
    /\ UNCHANGED <<theProgram, pipe, theEnds, theCopiers, outer, ctx, watcher, verdict>>

\* ... hears from the watcher what it has done ...
HearWatcher ==
    /\ wait = "watcher"
    /\ watcher' = IF watcher = "watch" THEN "left" ELSE watcher
    /\ waitErr' = CASE waitErr = "none" /\ watcher = "signalled" -> "ctx"
                    [] waitErr = "none" /\ watcher = "late"      -> "delay"
                    [] OTHER                                     -> waitErr
    /\ wait' = "input"
    /\ UNCHANGED <<theProgram, pipe, theEnds, theCopiers, outer, ctx, verdict>>

\* ... waits for the end of the copying of the input and closes the read ends,
\* whatever the copiers have left in the pipes ...
ClosePipes ==
    /\ wait = "input"
    /\ feeder # "copying"
    /\ closed' = TRUE
    /\ wait' = "join"
    /\ UNCHANGED <<theProgram, pipe, feeder, theCopiers, outer, ctx, watcher, waitErr,
                   verdict>>

\* ... or cuts it off with ErrWaitDelay, after a delay that began with the kill, if
\* there was one: it may then have passed when the copying ends.  A command without
\* a wait delay would have NoDelay.
NoDelay == FALSE
WaitDelay ==
    /\ wait = "input"
    /\ feeder = "copying" \/ watcher = "missed"
    /\ feeder' = IF feeder = "copying" THEN "cut" ELSE feeder
    /\ closed' = TRUE
    /\ waitErr' = IF waitErr = "none" THEN "delay" ELSE waitErr
    /\ wait' = "join"
    /\ UNCHANGED <<theProgram, pipe, theCopiers, outer, ctx, watcher, verdict>>

\* The flags of the result and their order in Engine.runSubmission.  The order
\* ExitFirst looks at the exit code before it looks at the limits.
OutputLimit == \E s \in Streams : exceeded[s]
Completed   == IF buf[Stdout] = plan.bytes[Stdout] THEN "accepted" ELSE "wrong_answer"
ExitFirst ==
    CASE waitErr = "exit"                 -> "runtime_error"
      [] waitErr # "exit" /\ OutputLimit  -> "output_limit_exceeded"
      [] waitErr # "exit" /\ ~OutputLimit -> Completed
Verdict ==
    CASE OutputLimit                                          -> "output_limit_exceeded"
      [] ~OutputLimit /\ ctx = "deadline"                     -> "time_limit_exceeded"
      [] ~OutputLimit /\ ctx # "deadline" /\ waitErr \in {"ctx", "delay"} -> "sandbox_error"
      [] ~OutputLimit /\ ctx # "deadline" /\ waitErr = "exit" -> "runtime_error"
      [] ~OutputLimit /\ ctx # "deadline" /\ waitErr = "none" -> Completed

\* wg.Wait returns; Run reads the buffers and then the context's error.
Judge ==
    /\ wait = "join"
    /\ \A s \in Streams : copier[s] = "done"
    /\ verdict' = Verdict
    /\ wait' = "judged"
    /\ UNCHANGED <<theProgram, pipe, theEnds, theCopiers, outer, ctx, watcher, waitErr>>

ProgramStep == ProgramExits \/ \E s \in Streams : ProgramWrites(s)
CopierStep(s) == CopierReads(s) \/ CopierEnds(s) \/ CopierWrites(s) \/ CopierLimit(s)
WatcherStep == WatcherKills \/ WatcherExpires
RunStep == Reap \/ HearWatcher \/ ClosePipes \/ WaitDelay \/ Judge

Next ==
    \/ ProgramStep
    \/ \E s \in Streams : CopierStep(s)
    \/ InputCopied
    \/ Deadline \/ Shutdown \/ WatcherStep
    \/ RunStep

Spec == Init /\ [][Next]_vars

\* The goroutines run and the wait delay passes; nothing is assumed of the program
\* and of who reads the input, and no deadline has to come.
FairSpec ==
    /\ Spec
    /\ \A s \in Streams : WF_vars(CopierStep(s))
    /\ WF_vars(WatcherKills) /\ WF_vars(WatcherExpires) /\ WF_vars(RunStep)

-----------------------------------------------------------------------------

Verdicts == {"accepted", "wrong_answer", "runtime_error", "time_limit_exceeded",
             "output_limit_exceeded", "sandbox_error"}

\* Every variable has its type, and no buffer is larger than the limit.
TypeOK ==
    /\ plan \in Plans
    /\ program \in {"running", "exited", "killed"}
    /\ written \in [Streams -> Nat]
    /\ pipe \in [Streams -> 0..PipeCap]
    /\ closed \in BOOLEAN
    /\ feeder \in {"copying", "done", "cut"}
    /\ copier \in [Streams -> {"read", "write", "limit", "done"}]
    /\ hand \in [Streams -> 0..PipeCap]
    /\ buf \in [Streams -> 0..Limit]
    /\ exceeded \in [Streams -> BOOLEAN]
    /\ outer \in BOOLEAN
    /\ ctx \in {"live", "cancelled", "deadline"}
    /\ watcher \in {"watch", "signalled", "missed", "late", "left"}
    /\ wait \in {"wait", "watcher", "input", "join", "judged"}
    /\ waitErr \in {"none", "exit", "ctx", "delay"}
    /\ verdict \in Verdicts \cup {"none"}

\* Output is dropped only where a buffer says so: until then every byte the
\* program wrote is in the pipe, with the copier or in the buffer
\* (OutputBuffer.Write and the copying goroutines).
NoSilentDrop ==
    \A s \in Streams :
        ~exceeded[s] => written[s] = buf[s] + hand[s] + pipe[s]

\* A buffer reports an overflow only when the program wrote more than the limit,
\* and it then holds the limit exactly (OutputBuffer.Exceeded).
OverflowIsReal ==
    \A s \in Streams : exceeded[s] => buf[s] = Limit /\ written[s] > Limit

\* A verdict blames the program only for what it did: however its exit, the
\* deadline, an overflow, a shutdown and the kill are interleaved, a run that
\* the runner killed for a limit is never a runtime or a sandbox error, and
\* those of a killed run imply a shutdown.  A program that exits with 0 is given a
\* sandbox error only if the wait delay has cut off its input, or a shutdown came
\* (Run, Engine.runSubmission).
VerdictIsFair ==
    /\ verdict = "output_limit_exceeded" => \E s \in Streams : written[s] > Limit
    /\ verdict = "time_limit_exceeded" => ctx = "deadline"
    /\ verdict = "runtime_error" => outer \/ (program = "exited" /\ plan.code # 0)
    /\ verdict = "sandbox_error" =>
          outer \/ (feeder = "cut" /\ program = "exited" /\ plan.code = 0)
    /\ verdict \in {"accepted", "wrong_answer"} => program = "exited" /\ plan.code = 0

\* docs/development.md: "Truncation sets stdout_truncated, stderr_truncated":
\* a run that ended by itself either has all its output or the flag.
TruncationIsFlagged ==
    wait = "judged" /\ program = "exited" =>
        \A s \in Streams : buf[s] = written[s] \/ exceeded[s]

\* A run ends with a verdict once its program has exited or its context is done,
\* whatever the program does and leaves behind: a descendant that keeps the input,
\* or a program that has left its process group, is waited for no longer than the
\* wait delay.
RunEnds == program # "running" \/ ctx # "live" ~> verdict # "none"

\* A program that writes more than the limit is stopped before its deadline.
OverflowStops == \A s \in Streams : exceeded[s] ~> program # "running"

=============================================================================
