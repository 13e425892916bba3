-------------------------------- MODULE Drivers --------------------------------
(***************************************************************************)
(* The result that each sandbox driver makes of what happened to its       *)
(* command.  The direct driver starts the program itself, docker a client  *)
(* and isolate a supervisor, which tell of the program by their exit code  *)
(* and by a report: docker's inspect, isolate's meta file.  How the direct *)
(* driver starts, copies from, kills and awaits its command is Runner's.   *)
(***************************************************************************)
EXTENDS Integers

CONSTANTS
    Limit,     \* MaxOutputBytes(limits): the drivers cap both streams at it
    Times,     \* run times a driver reports
    Memories   \* memory that isolate reports

NotMeasured == -1

ASSUME DriversAssumption ==
    Limit \in Nat \ {0} /\ Times \subseteq Nat /\ Memories \subseteq Nat

Sandboxes == {"direct", "docker", "isolate"}

\* What can happen to a call: how the command or its program ended, why the run's
\* context was done when Run looked at it, whether an OutputBuffer overflowed,
\* and the report.  "zero" to "oom" are ends of the program (125 is one of its exit
\* codes); at "limit" isolate stopped it for its time; "killed" is os/exec's kill
\* for the context, "raced" one that met a command that had exited with 0; "delayed"
\* is an exit with 0 after which os/exec's wait delay passed before the input was
\* taken (exec.ErrWaitDelay).
Happenings ==
    [end : {"absent", "zero", "code", "code125", "signal", "oom", "limit", "killed",
            "raced", "delayed", "broken"},
     ctx : {"live", "deadline", "cancelled"}, over : BOOLEAN,
     report : {"read", "lost", "unreadable"}]

\* An overflow cancels the context, and only a context that is done kills.
\* The direct driver alone sets a wait delay (configureCommand).  The tools alone
\* have limits, reports and failures of their own, and isolate writes its report
\* after the program has ended.
Possible(d, h) ==
    /\ h.over \/ h.end \in {"killed", "raced"} => h.ctx # "live"
    /\ h.end = "absent" => ~h.over
    /\ h.end = "limit" => d = "isolate"
    /\ h.end = "delayed" => d = "direct"
    /\ h.end = "broken" => d # "direct"
    /\ h.end = "code125" => d = "docker"
    /\ h.report # "read" => d # "direct"
    /\ h.report = "unreadable" => d = "isolate"
    /\ h.end = "killed" /\ d = "isolate" => h.report # "read"

\* sandbox.Result: its flags, whether it has an error, and an exit code that is 0
\* when there is none.
Flags(over, timed, oom, failed, code) ==
    [over |-> over, timed |-> timed, oom |-> oom, failed |-> failed, code |-> code]

ExitCode(h) == IF h.end \in {"zero", "raced", "delayed", "absent"} THEN 0 ELSE 1

OfDirect(h) ==
    LET timed == h.ctx = "deadline"
    IN  Flags(h.over, timed, FALSE, ~timed /\ h.end \in {"raced", "delayed"},
              IF timed THEN 0 ELSE ExitCode(h))

\* docker run exits with 125 when it fails, and whatever the program exits with.
OfDocker(h) ==
    LET timed  == h.ctx = "deadline"
        failed == h.end \in {"raced", "broken", "code125"}
    IN  Flags(h.over, timed, h.end = "oom" /\ h.report = "read", ~timed /\ failed,
              IF timed \/ failed THEN 0 ELSE ExitCode(h))

\* applyMeta: what isolate's report says of a time limit, of memory and of a failure
\* of isolate itself; a report that was not written says nothing.
Meta(h) ==
    LET says(end) == h.report = "read" /\ h.end = end
    IN  [timed |-> says("limit"), oom |-> says("oom"), failed |-> says("broken")]

\* The report, and then the exit code of isolate: 0, 1 for a program that failed,
\* another one for its own failure or when it was killed.
OfIsolate(h) ==
    LET meta     == Meta(h)
        deadline == h.ctx = "deadline"
        internal == h.end \in {"raced", "broken", "killed"} \/ h.report = "unreadable"
        code     == IF h.report = "read" THEN ~meta.timed /\ ~meta.failed
                    ELSE ~deadline /\ ~internal
    IN  Flags(h.over, deadline \/ meta.timed, meta.oom,
              meta.failed \/ (~deadline /\ internal),
              IF code THEN ExitCode(h) ELSE 0)

Judged(d, h) ==
    IF h.end = "absent" THEN Flags(FALSE, FALSE, FALSE, TRUE, 0)
    ELSE CASE d = "direct"  -> OfDirect(h)
           [] d = "docker"  -> OfDocker(h)
           [] d = "isolate" -> OfIsolate(h)

\* The results of a call of Run that goes as h says.  A buffer that overflowed is
\* full; only isolate measures memory, and only in its report.
Results(d, h) ==
    IF h.end = "absent"
    THEN [stdout : {0}, stderr : {0}, time : {0}, memory : {NotMeasured}, flags : {Judged(d, h)}]
    ELSE {r \in [stdout : 0..Limit, stderr : 0..Limit, time : Times,
                 memory : IF d = "isolate" /\ h.report = "read" THEN Memories ELSE {NotMeasured},
                 flags : {Judged(d, h)}] :
             h.over => Limit \in {r.stdout, r.stderr}}

=============================================================================
