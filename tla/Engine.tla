-------------------------------- MODULE Engine --------------------------------
(***************************************************************************)
(* Engine.Run: prepare a directory, compile, run the program as often as   *)
(* the limits say, and make one result of it, over each of the sandbox     *)
(* drivers and whatever happens to their calls.                            *)
(*                                                                         *)
(* The working directory is made by the preparation and removed on return; *)
(* no property is about it.  Outputs are lengths, those of one length      *)
(* equal up to trailing white space.                                       *)
(***************************************************************************)
EXTENDS Drivers, Sequences, SequencesExt, FiniteSetsExt

CONSTANTS
    Expected,  \* length of the expected output
    MaxRuns    \* bound on limits.runs

ASSUME EngineAssumption == Expected \in 0..Limit /\ MaxRuns \in Nat

VARIABLES
    driver,     \* the driver that main() chose
    sub,        \* what the submission asks for
    stage,      \* "prepare", "compile", "run" or "done"
    calls,      \* results of the driver's calls so far
    last,       \* what happened to the last one
    aggregate,  \* runAggregate
    result      \* what Run returns

vars == <<driver, sub, stage, calls, last, aggregate, result>>

Submissions == [compiled : BOOLEAN, runs : 0..MaxRuns, judged : BOOLEAN]

Nothing == [status |-> "none", stdout |-> 0, compile |-> 0, time |-> 0,
            memory |-> NotMeasured]

NoCall == [end |-> "none"]

NoRuns == [count |-> 0, stdout |-> 0, time |-> 0, memory |-> NotMeasured]

Init ==
    /\ driver \in Sandboxes
    /\ sub \in Submissions
    /\ stage = "prepare"
    /\ calls = <<>>
    /\ last = NoCall
    /\ aggregate = NoRuns
    /\ result = Nothing

\* The result without any call: the language is unknown or an argument is
\* invalid; the directory or a file cannot be made.
Refuse ==
    /\ stage = "prepare"
    /\ \E status \in {"internal_error", "sandbox_error"} :
          result' = [Nothing EXCEPT !.status = status]
    /\ stage' = "done"
    /\ UNCHANGED <<driver, sub, calls, last, aggregate>>

Prepare ==
    /\ stage = "prepare"
    /\ stage' = IF sub.compiled THEN "compile" ELSE "run"
    /\ UNCHANGED <<driver, sub, calls, last, aggregate, result>>

\* The first reason in this order decides; onExit is the status for an exit code
\* other than 0.  One that looks at the exit code first would be ExitFirst's.
ExitFirst(r, onExit) ==
    << <<r.flags.code # 0, onExit>>,
       <<r.flags.over,   "output_limit_exceeded">>,
       <<r.flags.timed,  "time_limit_exceeded">>,
       <<r.flags.oom,    "memory_limit_exceeded">>,
       <<r.flags.failed, "sandbox_error">> >>
Reasons(r, onExit) ==
    << <<r.flags.over,   "output_limit_exceeded">>,
       <<r.flags.timed,  "time_limit_exceeded">>,
       <<r.flags.oom,    "memory_limit_exceeded">>,
       <<r.flags.failed, "sandbox_error">>,
       <<r.flags.code # 0, onExit>> >>
Failure(r, onExit) ==
    LET reasons == Reasons(r, onExit)
        given   == {i \in DOMAIN reasons : reasons[i][1]}
    IN  IF given = {} THEN "none" ELSE reasons[Min(given)][2]

\* compileOutput joins the two streams, each capped, with a line break.
Joined(r) == r.stdout + r.stderr + (IF r.stdout > 0 /\ r.stderr > 0 THEN 1 ELSE 0)

FromSandbox(status, r, compile) ==
    [status |-> status, stdout |-> r.stdout, compile |-> compile,
     time |-> r.time, memory |-> r.memory]

\* What may happen to a call of this driver.
Events == {h \in Happenings : Possible(driver, h)}

Compile ==
    /\ stage = "compile"
    /\ \E h \in Events : \E r \in Results(driver, h) :
          LET failure == Failure(r, "compilation_error") IN
          /\ last' = h
          /\ calls' = Append(calls, r)
          /\ \/ /\ failure = "none"
                /\ stage' = "run"
                /\ UNCHANGED result
             \/ /\ failure # "none"
                /\ stage' = "done"
                /\ result' = FromSandbox(failure, r, Joined(r))
    /\ UNCHANGED <<driver, sub, aggregate>>

RunCount(s) == IF s.runs <= 0 THEN 1 ELSE s.runs

\* A run without a failure is compared with the expected output, if there is one.
RunFailure(r) ==
    LET failure == Failure(r, "runtime_error")
    IN  IF failure = "none" /\ sub.judged /\ r.stdout # Expected
        THEN "wrong_answer" ELSE failure

\* runAggregate.Add; one that takes the latest memory has AddLatest.
AddLatest(a, r) ==
    [count |-> a.count + 1, stdout |-> r.stdout, time |-> a.time + r.time,
     memory |-> r.memory]
Add(a, r) ==
    [count |-> a.count + 1, stdout |-> r.stdout, time |-> a.time + r.time,
     memory |-> IF r.memory # NotMeasured
                   /\ (a.memory = NotMeasured \/ r.memory > a.memory)
                THEN r.memory ELSE a.memory]

\* A loop that goes on after a wrong answer and keeps the other failures.
GoOn(r) ==
    /\ calls' = Append(calls, r)
    /\ \/ /\ RunFailure(r) \in {"none", "wrong_answer"}
          /\ aggregate' = Add(aggregate, r)
          /\ UNCHANGED <<stage, result>>
       \/ /\ RunFailure(r) \notin {"none", "wrong_answer"}
          /\ stage' = "done"
          /\ result' = FromSandbox(RunFailure(r), r, 0)
          /\ UNCHANGED aggregate

TakeRun(r) ==
    /\ calls' = Append(calls, r)
    /\ \/ /\ RunFailure(r) = "none"
          /\ aggregate' = Add(aggregate, r)
          /\ UNCHANGED <<stage, result>>
       \/ /\ RunFailure(r) # "none"
          /\ stage' = "done"
          /\ result' = FromSandbox(RunFailure(r), r, 0)
          /\ UNCHANGED aggregate

RunOnce ==
    /\ stage = "run"
    /\ aggregate.count < RunCount(sub)
    /\ \E h \in Events : \E r \in Results(driver, h) : last' = h /\ TakeRun(r)
    /\ UNCHANGED <<driver, sub>>

\* runAggregate.Result.
Accept ==
    /\ stage = "run"
    /\ aggregate.count = RunCount(sub)
    /\ stage' = "done"
    /\ result' = FromSandbox("accepted",
                     [aggregate EXCEPT !.time = aggregate.time \div aggregate.count], 0)
    /\ UNCHANGED <<driver, sub, calls, last, aggregate>>

Next == Refuse \/ Prepare \/ Compile \/ RunOnce \/ Accept

Spec == Init /\ [][Next]_vars

-----------------------------------------------------------------------------

\* The calls that ran the program.
Runs == IF sub.compiled /\ calls # <<>> THEN Tail(calls) ELSE calls

Good(r) == r.flags = Flags(FALSE, FALSE, FALSE, FALSE, 0)
Right(r) == Good(r) /\ (sub.judged => r.stdout = Expected)

\* docs/development.md: "limits.runs > 1 compiles once, runs repeatedly, and stops
\* on the first failed run": the driver is called only after good calls, at most
\* as often as asked, and accepted means that every run asked for was right.
StopsAtFirstFailure ==
    /\ \A i \in 1..(Len(calls) - 1) : Good(calls[i])
    /\ \A i \in 1..(Len(Runs) - 1) : Right(Runs[i])
    /\ Len(Runs) <= RunCount(sub)
    /\ result.status = "accepted" <=>
          /\ stage = "done"
          /\ Len(Runs) = RunCount(sub)
          /\ \A i \in DOMAIN calls : Good(calls[i])
          /\ \A i \in DOMAIN Runs : Right(Runs[i])

\* docs/development.md: "Successful repeated runs return the latest output, average
\* time fields, and maximum memory_kb"; a failing call is reported alone, and the
\* output of a compilation only if it failed: both its capped streams, joined.
ReportsTheRuns ==
    LET times  == SumFunction([i \in DOMAIN Runs |-> Runs[i].time])
        memory == Max({Runs[i].memory : i \in DOMAIN Runs})
    IN  stage = "done" /\ calls # <<>> =>
            /\ result.stdout = Last(calls).stdout
            /\ IF result.status = "accepted"
               THEN /\ result.time = times \div Len(Runs)
                    /\ result.memory = memory
               ELSE /\ result.time = Last(calls).time
                    /\ result.memory = Last(calls).memory
            /\ result.compile # 0 => Runs = <<>>
            /\ result.compile <= 2 * Limit + 1

\* The program ended by itself, and the driver heard of it.
ByItself == last.end \in {"code", "code125", "signal", "oom"}

\* The worker's context was cancelled, and not by an overflow: the worker then
\* discards the result.
Aborted == last.ctx = "cancelled" /\ ~last.over

\* The status blames what ended the last call, whichever driver made it, however
\* its limits, its kill and its reports met.  A program is accused of a failure
\* only if it failed, or if it was stopped at a limit and the report that says so
\* is lost; the sandbox only if it failed, with docker if the program exited with
\* the exit code that docker keeps for itself, or with the direct driver if it
\* exited with 0 and its input was not taken within the wait delay (the drivers'
\* Run, applyMeta, inspectOOM, Engine.Run).
BlamesTheCause ==
    stage = "done" /\ calls # <<>> =>
        CASE result.status = "output_limit_exceeded" -> last.over
          [] result.status = "time_limit_exceeded" ->
                ~last.over /\ (last.ctx = "deadline" \/ last.end = "limit")
          [] result.status = "memory_limit_exceeded" ->
                ~last.over /\ last.end = "oom" /\ driver # "direct" /\ last.report = "read"
          [] result.status \in {"runtime_error", "compilation_error"} ->
                /\ ~last.over /\ last.ctx # "deadline"
                /\ ByItself \/ Aborted \/ (last.end = "limit" /\ last.report = "lost")
                /\ last.end = "oom" => driver = "direct" \/ last.report = "lost"
          [] result.status = "sandbox_error" ->
                \/ last.end \in {"absent", "broken"} \/ last.report = "unreadable"
                \/ driver = "docker" /\ last.end = "code125"
                \/ driver = "direct" /\ last.end = "delayed"
                \/ Aborted
          [] result.status \in {"accepted", "wrong_answer"} ->
                last.end = "zero" /\ ~last.over /\ last.ctx # "deadline"

=============================================================================
