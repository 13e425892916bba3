---------------------------- MODULE SandboxProofs ----------------------------
(***************************************************************************)
(* Proofs about the sandbox drivers, which share no variable: a run, for   *)
(* every limit, pipe capacity and program (Runner); and the pool of boxes, *)
(* for every finite number of boxes and no more workers than boxes         *)
(* (BoxPool).                                                              *)
(***************************************************************************)
EXTENDS Runner, BoxPool, DataLemmas

-----------------------------------------------------------------------------
(* A run *)

(***************************************************************************)
(* Why the context ended and why the program did.  The runner cancels its  *)
(* context for an overflow only, a killed program was killed for a context *)
(* that is done, and the error of cmd.Wait tells the ends apart: ErrWait-  *)
(* Delay comes from input that was cut off or after a context that is done.*)
(***************************************************************************)
Causes ==
    /\ ctx = "cancelled" => outer \/ OutputLimit
    /\ program = "killed" \/ watcher \in {"signalled", "missed", "late"} => ctx # "live"
    /\ watcher = "late" => feeder = "cut"
    /\ \A s \in Streams : copier[s] = "limit" => exceeded[s]
    /\ \A s \in Streams : copier[s] # "write" => hand[s] = 0

Reaped ==
    /\ wait = "wait" => waitErr = "none"
    /\ wait # "wait" => program # "running"
    /\ waitErr = "exit" => program = "killed" \/ plan.code # 0
    /\ wait # "wait" /\ waitErr # "exit" => program = "exited" /\ plan.code = 0
    /\ waitErr = "ctx" => ctx # "live"
    /\ waitErr = "delay" => feeder = "cut" \/ ctx # "live"
    /\ verdict # "none" => wait = "judged"

RInv == TypeOK /\ NoSilentDrop /\ OverflowIsReal /\ Causes /\ Reaped /\ VerdictIsFair

-----------------------------------------------------------------------------

\* A run that has just started satisfies the invariant.
LEMMA RunnerInit == Init => RInv
<1>. SUFFICES ASSUME Init PROVE RInv
  OBVIOUS
<1>. USE DEF Init
<1>1. TypeOK
  <2>1. 0 \in Nat /\ 0 \in 0..PipeCap /\ 0 \in 0..Limit
    BY SizesAssumption
  <2>. QED
    BY <2>1 DEF TypeOK
<1>2. NoSilentDrop /\ OverflowIsReal /\ Causes
  BY DEF NoSilentDrop, OverflowIsReal, Causes
<1>3. Reaped /\ VerdictIsFair
  BY DEF Reaped, VerdictIsFair
<1>. QED
  BY <1>1, <1>2, <1>3 DEF RInv

\* Steps that touch neither the program's end nor the context nor Run keep
\* what the invariant says of them.
LEMMA OthersKeepVerdict ==
    ASSUME RInv, TypeOK', \A s \in Streams : exceeded[s] => exceeded'[s],
           \A s \in Streams : copier'[s] = "limit" => exceeded'[s],
           \A s \in Streams : copier'[s] # "write" => hand'[s] = 0,
           \A s \in Streams : written'[s] >= written[s],
           feeder = "cut" => feeder' = "cut",
           UNCHANGED <<plan, program, outer, ctx, watcher, wait, waitErr, verdict>>
    PROVE  Causes' /\ Reaped' /\ VerdictIsFair'
<1>1. Causes'
  BY DEF RInv, Causes, OutputLimit
<1>2. Reaped'
  BY DEF RInv, Reaped
<1>3. VerdictIsFair'
  <2>1. CASE verdict = "output_limit_exceeded"
    <3>1. PICK s \in Streams : written[s] > Limit
      BY <2>1 DEF RInv, VerdictIsFair
    <3>2. written[s] \in Nat /\ written'[s] \in Nat /\ Limit \in Nat
      BY SizesAssumption DEF RInv, TypeOK
    <3>. QED
      BY <2>1, <3>1, <3>2 DEF VerdictIsFair
  <2>2. CASE verdict # "output_limit_exceeded"
    BY <2>2 DEF RInv, VerdictIsFair
  <2>. QED
    BY <2>1, <2>2
<1>. QED
  BY <1>1, <1>2, <1>3

\* A byte that the program writes is in the pipe.
LEMMA WritesPreserves ==
    ASSUME NEW s \in Streams, RInv, ProgramWrites(s) PROVE RInv'
<1>. USE DEF ProgramWrites, theEnds, theCopiers, theRun
<1>1. TypeOK'
  BY SizesAssumption DEF RInv, TypeOK
<1>2. NoSilentDrop' /\ OverflowIsReal'
  BY SizesAssumption DEF RInv, TypeOK, NoSilentDrop, OverflowIsReal
<1>3. \A q \in Streams : written'[q] >= written[q]
  BY DEF RInv, TypeOK
<1>4. Causes' /\ Reaped' /\ VerdictIsFair'
  BY <1>1, <1>3, OthersKeepVerdict DEF RInv, Causes
<1>. QED
  BY <1>1, <1>2, <1>4 DEF RInv

\* The program exits by itself.
LEMMA ExitPreserves == RInv /\ ProgramExits => RInv'
<1>. SUFFICES ASSUME RInv, ProgramExits PROVE RInv'
  OBVIOUS
<1>. USE DEF ProgramExits, theEnds, theCopiers, theRun
<1>1. TypeOK' /\ NoSilentDrop' /\ OverflowIsReal'
  BY DEF RInv, TypeOK, NoSilentDrop, OverflowIsReal
<1>2. Causes' /\ Reaped'
  BY DEF RInv, Causes, Reaped, OutputLimit
<1>3. VerdictIsFair'
  BY DEF RInv, Reaped, VerdictIsFair
<1>. QED
  BY <1>1, <1>2, <1>3 DEF RInv

\* What a copier takes from the pipe it has in its hand.
LEMMA ReadsPreserves ==
    ASSUME NEW s \in Streams, RInv, CopierReads(s) PROVE RInv'
<1>. USE DEF CopierReads, theProgram, theEnds, theRun
<1>1. PICK n \in 1..pipe[s] : /\ hand' = [hand EXCEPT ![s] = n]
                              /\ pipe' = [pipe EXCEPT ![s] = @ - n]
  OBVIOUS
<1>2. /\ pipe[s] \in 0..PipeCap /\ PipeCap \in Nat
      /\ n \in 0..PipeCap /\ pipe[s] - n \in 0..PipeCap
  BY SizesAssumption DEF RInv, TypeOK
<1>3. TypeOK'
  BY <1>1, <1>2 DEF RInv, TypeOK
<1>4. NoSilentDrop' /\ OverflowIsReal'
  <2>1. hand[s] = 0
    BY DEF RInv, Causes
  <2>. QED
    BY <1>1, <1>2, <2>1 DEF RInv, TypeOK, NoSilentDrop, OverflowIsReal
<1>5. Causes' /\ Reaped' /\ VerdictIsFair'
  BY <1>3, OthersKeepVerdict DEF RInv, TypeOK, Causes
<1>. QED
  BY <1>3, <1>4, <1>5 DEF RInv

\* What Store and Overflows compute: the buffer takes all of a write or fills up.
LEMMA StoreFits ==
    ASSUME NEW b \in 0..Limit, NEW n \in Nat
    PROVE  /\ Store(b, n) \in 0..Limit
           /\ ~Overflows(b, n) => Store(b, n) = b + n
           /\ Overflows(b, n) => Store(b, n) = Limit
           /\ b = Limit => Store(b, n) = Limit
  BY SizesAssumption DEF Store, Overflows

\* What a copier has in its hand goes to the buffer, or the buffer says so.
LEMMA CopyPreserves ==
    ASSUME NEW s \in Streams, RInv, CopierWrites(s) PROVE RInv'
<1>0. /\ UNCHANGED <<plan, program, written, pipe, closed, feeder, outer, ctx, watcher>>
      /\ UNCHANGED <<wait, waitErr, verdict>>
  BY DEF CopierWrites, theProgram, theEnds, theRun
<1>1. /\ buf[s] \in 0..Limit /\ hand[s] \in Nat /\ Limit \in Nat
      /\ pipe[s] \in Nat /\ written[s] \in Nat
  BY SizesAssumption DEF RInv, TypeOK
<1>2. /\ buf'[s] = Store(buf[s], hand[s])
      /\ hand'[s] = 0
      /\ exceeded'[s] <=> exceeded[s] \/ Overflows(buf[s], hand[s])
      /\ copier'[s] = "limit" => Overflows(buf[s], hand[s])
  BY DEF CopierWrites, RInv, TypeOK
<1>3. \A q \in Streams \ {s} : /\ buf'[q] = buf[q] /\ hand'[q] = hand[q]
                               /\ exceeded'[q] <=> exceeded[q]
                               /\ copier'[q] = copier[q]
  BY DEF CopierWrites, RInv, TypeOK
<1>4. TypeOK'
  <2>0. 0 \in 0..PipeCap
    BY SizesAssumption
  <2>1. Store(buf[s], hand[s]) \in 0..Limit
    BY <1>1, StoreFits
  <2>2. buf' \in [Streams -> 0..Limit] /\ hand' \in [Streams -> 0..PipeCap]
    BY <2>0, <2>1 DEF CopierWrites, RInv, TypeOK
  <2>3. copier' \in [Streams -> {"read", "write", "limit", "done"}]
    BY DEF CopierWrites, RInv, TypeOK
  <2>4. exceeded' \in [Streams -> BOOLEAN]
    <3>1. exceeded \in [Streams -> BOOLEAN]
      BY DEF RInv, TypeOK
    <3>2. exceeded' = [exceeded EXCEPT ![s] = @ \/ Overflows(buf[s], hand[s])]
      BY DEF CopierWrites
    <3>3. (exceeded[s] \/ Overflows(buf[s], hand[s])) \in BOOLEAN
      OBVIOUS
    <3>. QED
      BY <3>1, <3>2, <3>3, Zenon
  <2>. QED
    BY <1>0, <2>2, <2>3, <2>4 DEF RInv, TypeOK
<1>5. NoSilentDrop'
  <2>1. ~exceeded'[s] => written'[s] = buf'[s] + hand'[s] + pipe'[s]
    <3>1. SUFFICES ASSUME ~exceeded'[s]
                   PROVE  written[s] = buf'[s] + 0 + pipe[s]
      BY <1>0, <1>2
    <3>2. ~exceeded[s] /\ ~Overflows(buf[s], hand[s])
      BY <3>1, <1>2
    <3>3. buf'[s] = buf[s] + hand[s]
      BY <3>2, <1>1, <1>2, StoreFits
    <3>4. written[s] = buf[s] + hand[s] + pipe[s]
      BY <3>2 DEF RInv, NoSilentDrop
    <3>. QED
      BY <3>3, <3>4, <1>1
  <2>2. \A q \in Streams \ {s} :
           ~exceeded'[q] => written'[q] = buf'[q] + hand'[q] + pipe'[q]
    BY <1>0, <1>3 DEF RInv, NoSilentDrop
  <2>. QED
    BY <2>1, <2>2 DEF NoSilentDrop
<1>6. OverflowIsReal'
  <2>1. exceeded'[s] => buf'[s] = Limit
    BY <1>1, <1>2, StoreFits DEF RInv, OverflowIsReal
  <2>2. exceeded'[s] => written'[s] > Limit
    BY <1>0, <1>1, <1>2 DEF RInv, OverflowIsReal, NoSilentDrop, Overflows
  <2>. QED
    BY <1>0, <1>3, <2>1, <2>2 DEF RInv, OverflowIsReal
<1>7. Causes' /\ Reaped' /\ VerdictIsFair'
  <2>1. /\ \A q \in Streams : exceeded[q] => exceeded'[q]
        /\ \A q \in Streams : copier'[q] = "limit" => exceeded'[q]
        /\ \A q \in Streams : copier'[q] # "write" => hand'[q] = 0
    BY <1>2, <1>3 DEF RInv, Causes
  <2>2. \A q \in Streams : written'[q] >= written[q]
    BY <1>0 DEF RInv, TypeOK
  <2>. QED
    BY <1>0, <1>4, <2>1, <2>2, OthersKeepVerdict
<1>. QED
  BY <1>4, <1>5, <1>6, <1>7 DEF RInv

\* The other steps of a copier.
LEMMA CopierPreserves ==
    ASSUME NEW s \in Streams, RInv, CopierStep(s) PROVE RInv'
<1>1. CASE CopierReads(s)
  BY <1>1, ReadsPreserves
<1>2. CASE CopierWrites(s)
  BY <1>2, CopyPreserves
<1>3. CASE CopierEnds(s)
  <2>. USE <1>3 DEF CopierEnds, theProgram, theEnds, theRun
  <2>1. TypeOK' /\ NoSilentDrop' /\ OverflowIsReal'
    BY DEF RInv, TypeOK, NoSilentDrop, OverflowIsReal
  <2>2. Causes' /\ Reaped' /\ VerdictIsFair'
    BY DEF RInv, TypeOK, Causes, Reaped, VerdictIsFair, OutputLimit
  <2>. QED
    BY <2>1, <2>2 DEF RInv
<1>4. CASE CopierLimit(s)
  <2>. USE <1>4 DEF CopierLimit, LimitCancel, theProgram, theEnds, theRun
  <2>1. TypeOK' /\ NoSilentDrop' /\ OverflowIsReal'
    BY DEF RInv, TypeOK, NoSilentDrop, OverflowIsReal
  <2>2. OutputLimit
    BY DEF RInv, Causes, OutputLimit
  <2>3. Causes' /\ Reaped' /\ VerdictIsFair'
    BY <2>2 DEF RInv, TypeOK, Causes, Reaped, VerdictIsFair, OutputLimit
  <2>. QED
    BY <2>1, <2>3 DEF RInv
<1>. QED
  BY <1>1, <1>2, <1>3, <1>4 DEF CopierStep

\* The deadline, a shutdown and the kill that follows one of them.
LEMMA ContextPreserves == RInv /\ (Deadline \/ Shutdown \/ WatcherKills) => RInv'
<1>. SUFFICES ASSUME RInv, Deadline \/ Shutdown \/ WatcherKills PROVE RInv'
  OBVIOUS
<1>. USE DEF Deadline, Shutdown, WatcherKills, theProgram, theEnds, theCopiers, theRun
<1>1. NoSilentDrop' /\ OverflowIsReal' /\ TypeOK'
  <2>1. UNCHANGED <<plan, written, pipe, closed, feeder, theCopiers, theRun>>
    OBVIOUS
  <2>2. /\ program' \in {"running", "exited", "killed"}
        /\ ctx' \in {"live", "cancelled", "deadline"}
        /\ watcher' \in {"watch", "signalled", "missed", "late", "left"}
    BY DEF RInv, TypeOK
  <2>3. outer' \in BOOLEAN
    BY DEF RInv, TypeOK
  <2>4. TypeOK'
    BY <2>1, <2>2, <2>3 DEF RInv, TypeOK
  <2>. QED
    BY <2>1, <2>4 DEF RInv, NoSilentDrop, OverflowIsReal
<1>2. Causes'
  BY DEF RInv, TypeOK, Causes, OutputLimit
<1>3. Reaped'
  BY DEF RInv, TypeOK, Reaped
<1>4. VerdictIsFair'
  BY DEF RInv, Reaped, VerdictIsFair
<1>. QED
  BY <1>1, <1>2, <1>3, <1>4 DEF RInv

\* The input is copied, or the watcher's delay passes: what the watcher then kills
\* or cuts off it does for a context that is done, and no verdict has been given.
LEMMA InputPreserves == RInv /\ (InputCopied \/ WatcherExpires) => RInv'
<1>. SUFFICES ASSUME RInv, InputCopied \/ WatcherExpires PROVE RInv'
  OBVIOUS
<1>1. /\ UNCHANGED <<plan, written, pipe, copier, hand, buf, exceeded, outer, ctx>>
      /\ UNCHANGED <<wait, waitErr, verdict>>
  BY DEF InputCopied, WatcherExpires, theProgram, theCopiers, theRun
<1>2. CASE InputCopied
  <2>1. feeder = "copying" /\ feeder' = "done" /\ UNCHANGED <<program, closed, watcher>>
    BY <1>2 DEF InputCopied, theProgram
  <2>2. TypeOK' /\ NoSilentDrop' /\ OverflowIsReal'
    BY <1>1, <2>1 DEF RInv, TypeOK, NoSilentDrop, OverflowIsReal
  <2>3. Causes' /\ Reaped' /\ VerdictIsFair'
    BY <1>1, <2>1 DEF RInv, TypeOK, Causes, Reaped, VerdictIsFair, OutputLimit
  <2>. QED
    BY <2>2, <2>3 DEF RInv
<1>3. CASE WatcherExpires
  <2>1. /\ watcher \in {"signalled", "missed"} /\ wait \in {"wait", "watcher"}
        /\ program' = IF program = "running" THEN "killed" ELSE program
        /\ feeder' = IF feeder = "copying" THEN "cut" ELSE feeder
        /\ closed' = (closed \/ feeder = "copying")
    BY <1>3 DEF WatcherExpires, CutOff
  <2>2. /\ watcher' \in {"signalled", "late", "left"}
        /\ watcher' = "late" => feeder' = "cut"
    BY <1>3, <2>1 DEF WatcherExpires
  <2>3. ctx # "live"
    BY <2>1 DEF RInv, Causes
  <2>4. TypeOK' /\ NoSilentDrop' /\ OverflowIsReal'
    <3>1. closed' \in BOOLEAN
      BY <2>1
    <3>2. /\ program' \in {"running", "exited", "killed"}
          /\ feeder' \in {"copying", "done", "cut"}
      BY <2>1 DEF RInv, TypeOK
    <3>. QED
      BY <1>1, <2>2, <3>1, <3>2 DEF RInv, TypeOK, NoSilentDrop, OverflowIsReal
  <2>5. Causes'
    BY <1>1, <2>2, <2>3 DEF RInv, Causes, OutputLimit
  <2>6. wait = "wait" \/ program' = program
    BY <2>1 DEF RInv, Reaped
  <2>7. Reaped'
    BY <1>1, <2>3, <2>6 DEF RInv, Reaped
  <2>8. verdict = "none"
    BY <2>1 DEF RInv, Reaped
  <2>9. VerdictIsFair'
    BY <1>1, <2>8 DEF VerdictIsFair
  <2>. QED
    BY <2>4, <2>5, <2>7, <2>9 DEF RInv
<1>. QED
  BY <1>2, <1>3

\* The verdict is fair when it is given.
LEMMA JudgePreserves == RInv /\ Judge => RInv'
<1>. SUFFICES ASSUME RInv, Judge PROVE RInv'
  OBVIOUS
<1>. USE DEF Judge, theProgram, theEnds, theCopiers
<1>1. verdict' \in Verdicts
  <2>1. waitErr \in {"none", "exit", "ctx", "delay"}
    BY DEF RInv, TypeOK
  <2>2. Completed \in Verdicts
    BY DEF Completed, Verdicts
  <2>3. CASE OutputLimit
    BY <2>3 DEF Verdict, Verdicts
  <2>4. CASE ~OutputLimit
    BY <2>1, <2>2, <2>4 DEF Verdict, Verdicts
  <2>. QED
    BY <2>3, <2>4
<1>2. TypeOK' /\ NoSilentDrop' /\ OverflowIsReal'
  BY <1>1 DEF RInv, TypeOK, NoSilentDrop, OverflowIsReal
<1>3. Causes' /\ Reaped'
  BY DEF RInv, Causes, Reaped, OutputLimit
<1>4. VerdictIsFair'
  <2>1. CASE OutputLimit
    BY <2>1 DEF Verdict, OutputLimit, RInv, OverflowIsReal, VerdictIsFair
  <2>2. CASE ~OutputLimit /\ ctx = "deadline"
    BY <2>2 DEF Verdict, VerdictIsFair
  <2>3. CASE ~OutputLimit /\ ctx # "deadline" /\ waitErr \in {"ctx", "delay"}
    BY <2>3 DEF Verdict, VerdictIsFair, RInv, TypeOK, Causes, Reaped
  <2>4. CASE ~OutputLimit /\ ctx # "deadline" /\ waitErr = "exit"
    BY <2>4 DEF Verdict, VerdictIsFair, RInv, TypeOK, Causes, Reaped
  <2>5. CASE ~OutputLimit /\ ctx # "deadline" /\ waitErr = "none"
    BY <2>5 DEF Verdict, Completed, VerdictIsFair, RInv, Reaped
  <2>. QED
    BY <2>1, <2>2, <2>3, <2>4, <2>5 DEF RInv, TypeOK
<1>. QED
  BY <1>2, <1>3, <1>4 DEF RInv

\* cmd.Wait keeps the invariant.
LEMMA WaitPreserves == RInv /\ (Reap \/ HearWatcher \/ ClosePipes \/ WaitDelay) => RInv'
<1>. SUFFICES ASSUME RInv, Reap \/ HearWatcher \/ ClosePipes \/ WaitDelay PROVE RInv'
  OBVIOUS
<1>. USE DEF Reap, HearWatcher, ClosePipes, WaitDelay, theProgram, theEnds, theCopiers
<1>1. TypeOK' /\ NoSilentDrop' /\ OverflowIsReal'
  <2>1. /\ UNCHANGED <<plan, program, written, pipe, copier, hand, buf, exceeded, outer>>
        /\ UNCHANGED <<ctx, verdict>>
    OBVIOUS
  <2>2. closed' \in BOOLEAN /\ feeder' \in {"copying", "done", "cut"}
    BY DEF RInv, TypeOK
  <2>3. /\ watcher' \in {"watch", "signalled", "missed", "late", "left"}
        /\ waitErr' \in {"none", "exit", "ctx", "delay"}
        /\ wait' \in {"wait", "watcher", "input", "join", "judged"}
    BY DEF RInv, TypeOK
  <2>. QED
    BY <2>1, <2>2, <2>3 DEF RInv, TypeOK, NoSilentDrop, OverflowIsReal
<1>2. Causes'
  BY DEF RInv, TypeOK, Causes, OutputLimit
<1>3. Reaped'
  BY DEF RInv, TypeOK, Causes, Reaped, Plans
<1>4. VerdictIsFair'
  BY DEF RInv, Reaped, VerdictIsFair
<1>. QED
  BY <1>1, <1>2, <1>3, <1>4 DEF RInv

\* Every step keeps the invariant.
LEMMA RunnerNext == RInv /\ [Next]_vars => RInv'
<1>. SUFFICES ASSUME RInv, [Next]_vars PROVE RInv'
  OBVIOUS
<1>1. CASE UNCHANGED vars
  BY <1>1 DEF vars, RInv, TypeOK, NoSilentDrop, OverflowIsReal, Causes, Reaped,
              VerdictIsFair, OutputLimit
<1>2. CASE ProgramStep
  BY <1>2, WritesPreserves, ExitPreserves DEF ProgramStep
<1>3. CASE \E s \in Streams : CopierStep(s)
  BY <1>3, CopierPreserves
<1>4. CASE Deadline \/ Shutdown \/ WatcherStep \/ InputCopied
  BY <1>4, ContextPreserves, InputPreserves DEF WatcherStep
<1>5. CASE RunStep
  BY <1>5, WaitPreserves, JudgePreserves DEF RunStep
<1>. QED
  BY <1>1, <1>2, <1>3, <1>4, <1>5 DEF Next

-----------------------------------------------------------------------------

\* RInv holds in every reachable state of a run.
THEOREM RunnerInvariance == Spec => []RInv
  BY RunnerInit, RunnerNext, PTL DEF Spec

\* No byte of the output is dropped by the copiers unless the buffer reports an
\* overflow.
THEOREM OutputIsConserved == Spec => []NoSilentDrop
<1>1. RInv => NoSilentDrop
  BY DEF RInv
<1>. QED
  BY RunnerInvariance, <1>1, PTL

\* A reported overflow is one, and the buffer holds exactly the limit.
THEOREM OverflowsAreReal == Spec => []OverflowIsReal
<1>1. RInv => OverflowIsReal
  BY DEF RInv
<1>. QED
  BY RunnerInvariance, <1>1, PTL

\* The verdict on a run blames the program only for what the program did.
THEOREM VerdictsAreFair == Spec => []VerdictIsFair
<1>1. RInv => VerdictIsFair
  BY DEF RInv
<1>. QED
  BY RunnerInvariance, <1>1, PTL

\* Every variable keeps its type.
THEOREM RunnerTypeCorrect == Spec => []TypeOK
<1>1. RInv => TypeOK
  BY DEF RInv
<1>. QED
  BY <1>1, RunnerInvariance, PTL

-----------------------------------------------------------------------------
(* A run is what Drivers takes it for *)

Ways == INSTANCE Drivers WITH Times <- Nat, Memories <- {}

\* How the run went, in the words of Drivers.
End ==
    CASE waitErr = "none"                        -> "zero"
      [] waitErr = "ctx"                         -> "raced"
      [] waitErr = "delay"                       -> "delayed"
      [] waitErr = "exit" /\ program = "killed" -> "killed"
      [] waitErr = "exit" /\ program # "killed" -> "code"
Way == [end |-> End, ctx |-> ctx, over |-> OutputLimit, report |-> "read"]

\* The order in which Engine.runSubmission looks at the flags of a result.
StatusOf(flags) ==
    CASE flags.over                                                    -> "output_limit_exceeded"
      [] ~flags.over /\ flags.timed                                    -> "time_limit_exceeded"
      [] ~flags.over /\ ~flags.timed /\ flags.failed                   -> "sandbox_error"
      [] ~flags.over /\ ~flags.timed /\ ~flags.failed /\ flags.code # 0 -> "runtime_error"
      [] ~flags.over /\ ~flags.timed /\ ~flags.failed /\ flags.code = 0 -> Completed

\* When Run judges, what has happened is one of the happenings that Drivers
\* lets the direct driver meet, and the verdict is the one Drivers makes of it.
JudgesAsDrivers ==
    [][Judge => /\ Way \in Ways!Happenings /\ Ways!Possible("direct", Way)
                /\ verdict' = StatusOf(Ways!Judged("direct", Way))]_vars

\* An overflow that its copier has reported has ended the context.
Reported == \A s \in Streams : exceeded[s] /\ copier[s] # "limit" => ctx # "live"

\* Reported holds at the start and every step keeps it.
LEMMA ReportedInit == Init => Reported
  BY DEF Init, Reported

LEMMA ReportedNext == RInv /\ Reported /\ [Next]_vars => Reported'
<1>. SUFFICES ASSUME RInv, Reported, [Next]_vars PROVE Reported'
  OBVIOUS
<1>1. ASSUME UNCHANGED <<exceeded, copier>>, ctx # "live" => ctx' # "live"
      PROVE  Reported'
  BY <1>1 DEF Reported
<1>2. CASE \/ ProgramStep \/ InputCopied \/ Deadline \/ Shutdown \/ WatcherStep
           \/ RunStep \/ UNCHANGED vars
  <2>1. UNCHANGED <<exceeded, copier>> /\ (ctx # "live" => ctx' # "live")
    BY <1>2 DEF ProgramStep, ProgramExits, ProgramWrites, InputCopied, Deadline, Shutdown,
                WatcherStep, WatcherKills, WatcherExpires, RunStep, Reap, HearWatcher,
                ClosePipes, WaitDelay, Judge, vars, theCopiers
  <2>. QED
    BY <1>1, <2>1
<1>3. ASSUME NEW s \in Streams, CopierStep(s) PROVE Reported'
  <2>1. CASE CopierReads(s) \/ CopierEnds(s)
    <3>1. /\ UNCHANGED <<exceeded, ctx>>
          /\ \A q \in Streams : copier'[q] # "limit" => copier[q] # "limit"
      BY <2>1 DEF CopierReads, CopierEnds, theRun, RInv, TypeOK
    <3>. QED
      BY <3>1 DEF Reported
  <2>2. CASE CopierWrites(s)
    <3>1. /\ ctx' = ctx /\ copier[s] = "write"
          /\ exceeded'[s] /\ copier'[s] # "limit" => exceeded[s]
      BY <2>2 DEF CopierWrites, RInv, TypeOK
    <3>2. \A q \in Streams \ {s} : /\ exceeded'[q] <=> exceeded[q]
                                   /\ copier'[q] = copier[q]
      BY <2>2 DEF CopierWrites, RInv, TypeOK
    <3>. QED
      BY <3>1, <3>2 DEF Reported
  <2>3. CASE CopierLimit(s)
    BY <2>3 DEF CopierLimit, LimitCancel, Reported
  <2>. QED
    BY <1>3, <2>1, <2>2, <2>3 DEF CopierStep
<1>. QED
  BY <1>2, <1>3 DEF Next

\* Of the ways that Drivers knows for a command to end, a run of the direct driver
\* has gone one that Drivers calls possible, and both give it the same verdict: what
\* the runs of Engine show of the direct driver rests on the steps of Runner.
THEOREM RunnerFitsDrivers == Spec => JudgesAsDrivers
<1>1. ASSUME RInv, Reported, Judge
      PROVE  /\ Way \in Ways!Happenings /\ Ways!Possible("direct", Way)
             /\ verdict' = StatusOf(Ways!Judged("direct", Way))
  <2>. USE <1>1
  <2>1. /\ waitErr \in {"none", "exit", "ctx", "delay"}
        /\ ctx \in {"live", "cancelled", "deadline"}
        /\ OutputLimit \in BOOLEAN
    BY DEF RInv, TypeOK, OutputLimit
  <2>2. End \in {"zero", "raced", "delayed", "killed", "code"}
    BY <2>1 DEF End
  <2>3. Way \in Ways!Happenings
    BY <2>1, <2>2 DEF Way, Ways!Happenings
  <2>4. OutputLimit => ctx # "live"
    BY DEF Judge, Reported, OutputLimit
  <2>5. End \in {"killed", "raced"} => ctx # "live"
    BY <2>1 DEF End, RInv, Causes, Reaped
  <2>6. Ways!Possible("direct", Way)
    BY <2>2, <2>4, <2>5 DEF Way, Ways!Possible
  <2>7. Ways!Judged("direct", Way) = Ways!OfDirect(Way)
    BY <2>2 DEF Way, Ways!Judged
  <2>8. Verdict = StatusOf(Ways!OfDirect(Way))
    <3>1. CASE waitErr = "none"
      BY <2>1, <3>1 DEF Verdict, StatusOf, Ways!OfDirect, Ways!Flags, Ways!ExitCode, Way, End
    <3>2. CASE waitErr = "ctx"
      BY <2>1, <3>2 DEF Verdict, StatusOf, Ways!OfDirect, Ways!Flags, Ways!ExitCode, Way, End
    <3>3. CASE waitErr = "delay"
      BY <2>1, <3>3 DEF Verdict, StatusOf, Ways!OfDirect, Ways!Flags, Ways!ExitCode, Way, End
    <3>4. CASE waitErr = "exit"
      <4>1. End \in {"killed", "code"}
        BY <3>4 DEF End
      <4>2. Ways!ExitCode(Way) = 1 /\ Way.end \notin {"raced", "delayed"}
        BY <4>1 DEF Ways!ExitCode, Way
      <4>3. /\ Ways!OfDirect(Way).over <=> OutputLimit
            /\ Ways!OfDirect(Way).timed <=> ctx = "deadline"
            /\ ~Ways!OfDirect(Way).failed
            /\ ctx # "deadline" => Ways!OfDirect(Way).code = 1
        BY <4>2 DEF Ways!OfDirect, Ways!Flags, Way
      <4>. QED
        BY <3>4, <4>3 DEF Verdict, StatusOf
    <3>. QED
      BY <2>1, <3>1, <3>2, <3>3, <3>4
  <2>. QED
    BY <2>3, <2>6, <2>7, <2>8 DEF Judge
<1>2. RInv /\ Reported =>
        [Judge => /\ Way \in Ways!Happenings /\ Ways!Possible("direct", Way)
                  /\ verdict' = StatusOf(Ways!Judged("direct", Way))]_vars
  BY <1>1
<1>3. Spec => []Reported
  BY RunnerInvariance, ReportedInit, ReportedNext, PTL DEF Spec
<1>. QED
  BY RunnerInvariance, <1>2, <1>3, PTL DEF Spec, JudgesAsDrivers

-----------------------------------------------------------------------------
(* The pool of boxes *)

\* That a box runs what it was initialised for needs that nobody else has it,
\* and that nobody else has it needs that free boxes have no user.
BInv == PoolTypeOK /\ PoolIsWhole /\ RunsInFreshBox

\* The pool starts with every id once.
LEMMA PoolStarts == PoolInit => BInv
<1>. SUFFICES ASSUME PoolInit PROVE BInv
  OBVIOUS
<1>1. Capacity \in Nat
  BY BoxesAssumption, FS_CardinalityType DEF Capacity
<1>2. boxes \in Seq(Boxes) /\ IsInjective(boxes) /\ Range(boxes) = Boxes
  BY <1>1 DEF PoolInit, Bijection, Injection, Surjection, Range
<1>3. PoolTypeOK
  BY <1>2, BoxesAssumption DEF PoolInit, PoolTypeOK
<1>4. PoolIsWhole
  BY <1>2, BoxesAssumption DEF PoolInit, PoolIsWhole, Users
<1>5. RunsInFreshBox
  BY DEF PoolInit, RunsInFreshBox
<1>. QED
  BY <1>3, <1>4, <1>5 DEF BInv

\* Calls that keep their boxes keep the pool whole.
LEMMA PoolUntouched ==
    ASSUME BInv, UNCHANGED <<boxes, box>>
    PROVE  PoolIsWhole'
  BY DEF BInv, PoolIsWhole, Users

\* A box that a call has is nobody else's.
LEMMA BoxIsOwn ==
    ASSUME BInv, NEW w \in Workers, pc[w] \notin {"idle", "acquire"}
    PROVE  /\ box[w] \in Boxes
           /\ box[w] \notin Range(boxes)
           /\ \A v \in Workers \ {w} : box[v] # box[w]
<1>1. box[w] \in Boxes
  BY DEF BInv, PoolTypeOK
<1>. QED
  BY <1>1, BoxesAssumption DEF BInv, PoolIsWhole, Users

\* Taking the first free box.
LEMMA AcquirePreserves ==
    ASSUME BInv, NEW w \in Workers, AcquireBox(w)
    PROVE  BInv'
<1>. USE DEF AcquireBox, GoTo
<1>1. /\ Head(boxes) \in Boxes /\ Tail(boxes) \in Seq(Boxes)
      /\ IsInjective(Tail(boxes))
      /\ Range(Tail(boxes)) = Range(boxes) \ {Head(boxes)}
      /\ Head(boxes) \in Range(boxes)
  BY PopElements, TailIsPop DEF BInv, PoolTypeOK, PoolIsWhole
<1>2. PoolTypeOK'
  BY <1>1, BoxesAssumption DEF BInv, PoolTypeOK
<1>3. \A v \in Workers : box[v] # Head(boxes)
  BY <1>1 DEF BInv, PoolIsWhole, Users
<1>4. box[w] = NoBox /\ box \in [Workers -> Boxes \cup {NoBox}]
  BY DEF BInv, PoolTypeOK
<1>5. PoolIsWhole'
  <2>1. \A u, v \in Workers : box'[u] = box'[v] /\ box'[u] # NoBox => u = v
    BY <1>3, <1>4 DEF BInv, PoolIsWhole
  <2>2. ASSUME NEW b \in Boxes
        PROVE  b \in Range(boxes') <=> \A v \in Workers : box'[v] # b
    <3>1. CASE b = Head(boxes)
      BY <1>1, <1>4, <3>1
    <3>2. CASE b # Head(boxes)
      <4>1. b \in Range(boxes') <=> b \in Range(boxes)
        BY <1>1, <3>2
      <4>2. b \in Range(boxes) <=> \A v \in Workers : box[v] # b
        BY DEF BInv, PoolIsWhole, Users
      <4>3. (\A v \in Workers : box'[v] # b) <=> (\A v \in Workers : box[v] # b)
        BY <1>4, <3>2, BoxesAssumption
      <4>. QED
        BY <4>1, <4>2, <4>3
    <3>. QED
      BY <3>1, <3>2
  <2>. QED
    BY <1>1, <2>1, <2>2 DEF PoolIsWhole, Users
<1>6. RunsInFreshBox'
  BY <1>4 DEF BInv, PoolTypeOK, RunsInFreshBox
<1>. QED
  BY <1>2, <1>5, <1>6 DEF BInv

\* Giving a box back.
LEMMA ReleasePreserves ==
    ASSUME BInv, NEW w \in Workers, ReleaseBox(w)
    PROVE  BInv'
<1>. USE DEF ReleaseBox, GoTo
<1>1. /\ box[w] \in Boxes /\ box[w] \notin Range(boxes)
      /\ \A v \in Workers \ {w} : box[v] # box[w]
  BY BoxIsOwn
<1>2. /\ boxes' \in Seq(Boxes) /\ IsInjective(boxes')
      /\ Range(boxes') = Range(boxes) \cup {box[w]}
  BY <1>1, PushElements, AppendIsPush DEF BInv, PoolTypeOK, PoolIsWhole
<1>3. PoolTypeOK'
  BY <1>2, BoxesAssumption DEF BInv, PoolTypeOK
<1>4. box \in [Workers -> Boxes \cup {NoBox}]
  BY DEF BInv, PoolTypeOK
<1>5. PoolIsWhole'
  <2>1. \A u, v \in Workers : box'[u] = box'[v] /\ box'[u] # NoBox => u = v
    BY <1>4 DEF BInv, PoolIsWhole
  <2>2. ASSUME NEW b \in Boxes
        PROVE  b \in Range(boxes') <=> \A v \in Workers : box'[v] # b
    <3>1. CASE b = box[w]
      BY <1>1, <1>2, <1>4, <3>1, BoxesAssumption
    <3>2. CASE b # box[w]
      <4>1. b \in Range(boxes') <=> b \in Range(boxes)
        BY <1>2, <3>2
      <4>2. b \in Range(boxes) <=> \A v \in Workers : box[v] # b
        BY DEF BInv, PoolIsWhole, Users
      <4>3. (\A v \in Workers : box'[v] # b) <=> (\A v \in Workers : box[v] # b)
        BY <1>4, <3>2, BoxesAssumption
      <4>. QED
        BY <4>1, <4>2, <4>3
    <3>. QED
      BY <3>1, <3>2
  <2>. QED
    BY <1>2, <2>1, <2>2 DEF PoolIsWhole, Users
<1>6. RunsInFreshBox'
  BY <1>4 DEF BInv, PoolTypeOK, RunsInFreshBox
<1>. QED
  BY <1>3, <1>5, <1>6 DEF BInv

\* init and cleanup change no box but the caller's own.
LEMMA SitePreserves ==
    ASSUME BInv, NEW w \in Workers,
           InitBox(w) \/ InitFails(w) \/ CleanupBox(w)
    PROVE  BInv'
<1>. USE DEF InitBox, InitFails, CleanupBox, GoTo
<1>1. /\ box[w] \in Boxes
      /\ \A v \in Workers \ {w} : box[v] # box[w]
  BY BoxIsOwn
<1>2. PICK s \in {"empty", "left"} \cup Workers :
         /\ site' = [site EXCEPT ![box[w]] = s]
         /\ InitBox(w) => s = w
  BY <1>1 DEF BInv, PoolTypeOK
<1>3. PICK p \in {"run", "release"} :
         /\ pc' = [pc EXCEPT ![w] = p]
         /\ p = "run" => InitBox(w)
  OBVIOUS
<1>4. pc[w] \in {"init", "cleanup"} /\ UNCHANGED <<boxes, box, cancelled>>
  OBVIOUS
<1>. HIDE DEF InitBox, InitFails, CleanupBox, GoTo
<1>5. PoolTypeOK'
  BY <1>1, <1>2, <1>3, <1>4 DEF BInv, PoolTypeOK
<1>6. PoolIsWhole'
  BY <1>4, PoolUntouched
<1>7. RunsInFreshBox'
  BY <1>1, <1>2, <1>3, <1>4 DEF BInv, PoolTypeOK, RunsInFreshBox
<1>. QED
  BY <1>5, <1>6, <1>7 DEF BInv

\* A call that only moves on.
LEMMA MovePreserves ==
    ASSUME BInv, NEW w \in Workers,
           Call(w) \/ AcquireCancelled(w) \/ RunReturns(w)
    PROVE  BInv'
<1>. USE DEF Call, AcquireCancelled, RunReturns, GoTo
<1>1. PoolTypeOK'
  BY DEF BInv, PoolTypeOK
<1>2. PoolIsWhole'
  BY PoolUntouched
<1>3. RunsInFreshBox'
  BY DEF BInv, PoolTypeOK, RunsInFreshBox
<1>. QED
  BY <1>1, <1>2, <1>3 DEF BInv

\* The invariant is inductive.
LEMMA NextPreserves == BInv /\ [PoolNext]_poolVars => BInv'
<1>. SUFFICES ASSUME BInv, [PoolNext]_poolVars PROVE BInv'
  OBVIOUS
<1>1. CASE Cancel \/ UNCHANGED poolVars
  <2>1. UNCHANGED <<boxes, pc, box, site>> /\ cancelled' \in BOOLEAN
    BY <1>1 DEF Cancel, poolVars, BInv, PoolTypeOK
  <2>2. PoolTypeOK' /\ RunsInFreshBox'
    BY <2>1 DEF BInv, PoolTypeOK, RunsInFreshBox
  <2>. QED
    BY <2>1, <2>2, PoolUntouched DEF BInv
<1>2. ASSUME NEW w \in Workers, Call(w) \/ CallStep(w)
      PROVE  BInv'
  BY <1>2, AcquirePreserves, ReleasePreserves, SitePreserves, MovePreserves
  DEF CallStep
<1>. QED
  BY <1>1, <1>2 DEF PoolNext

\* Counting: a worker that has no box leaves one free, and a box that is in use
\* leaves room for its return.
LEMMA Counted == BInv => NeverWaits
<1>. SUFFICES ASSUME BInv, NEW w \in Workers
              PROVE  /\ pc[w] = "acquire" => boxes # <<>>
                     /\ pc[w] = "release" => Len(boxes) < Capacity
  BY DEF NeverWaits
<1>1. /\ Cardinality(Boxes) \in Nat /\ Cardinality(Workers) \in Nat
      /\ IsFiniteSet(Boxes) /\ IsFiniteSet(Workers)
      /\ Cardinality(Workers) <= Cardinality(Boxes)
  BY BoxesAssumption, FS_CardinalityType
<1>2. ASSUME pc[w] = "acquire", boxes = <<>>
      PROVE  FALSE
  <2>1. \A b \in Boxes : \E v \in Workers : box[v] = b
    BY <1>2 DEF BInv, PoolIsWhole, Users, Range
  <2>2. box[w] = NoBox
    BY <1>2 DEF BInv, PoolTypeOK
  <2>. DEFINE user == [b \in Boxes |-> CHOOSE v \in Workers : box[v] = b]
  <2>3. \A b \in Boxes : user[b] \in Workers \ {w} /\ box[user[b]] = b
    BY <2>1, <2>2, BoxesAssumption
  <2>4. user \in Injection(Boxes, Workers \ {w})
    <3>1. user \in [Boxes -> Workers \ {w}]
      BY <2>3
    <3>2. IsInjective(user)
      BY <2>3 DEF IsInjective
    <3>. QED
      BY <3>1, <3>2 DEF Injection
  <2>5. /\ IsFiniteSet(Workers \ {w})
        /\ Cardinality(Workers \ {w}) = Cardinality(Workers) - 1
    BY <1>1, FS_RemoveElement
  <2>6. Cardinality(Boxes) <= Cardinality(Workers \ {w})
    BY <2>4, <2>5, FS_Injection
  <2>. QED
    BY <1>1, <2>5, <2>6
<1>3. ASSUME pc[w] = "release"
      PROVE  Len(boxes) < Capacity
  <2>1. box[w] \in Boxes /\ box[w] \notin Range(boxes)
    BY <1>3, BoxIsOwn
  <2>2. boxes \in Seq(Boxes \ {box[w]}) /\ IsInjective(boxes)
    BY <2>1 DEF BInv, PoolTypeOK, PoolIsWhole, Range
  <2>3. /\ IsFiniteSet(Boxes \ {box[w]})
        /\ Cardinality(Boxes \ {box[w]}) = Cardinality(Boxes) - 1
    BY <1>1, <2>1, FS_RemoveElement
  <2>4. Len(boxes) <= Cardinality(Boxes \ {box[w]})
    BY <2>2, <2>3, DistinctIsShort
  <2>5. Len(boxes) \in Nat
    BY <2>2
  <2>. QED
    BY <1>1, <2>3, <2>4, <2>5 DEF Capacity
<1>. QED
  BY <1>2, <1>3

-----------------------------------------------------------------------------

\* The inductive invariant holds in every reachable state of the driver.
THEOREM PoolInvariance == PoolSpec => []BInv
<1>. QED
  BY PoolStarts, NextPreserves, PTL DEF PoolSpec

\* Every box is free once or used by one call, and none is lost.
THEOREM NoBoxIsLost == PoolSpec => []PoolIsWhole
<1>1. BInv => PoolIsWhole
  BY DEF BInv
<1>. QED
  BY <1>1, PoolInvariance, PTL

\* A program runs in the box that was initialised for it.
THEOREM BoxesAreFresh == PoolSpec => []RunsInFreshBox
<1>1. BInv => RunsInFreshBox
  BY DEF BInv
<1>. QED
  BY <1>1, PoolInvariance, PTL

\* No worker waits for a box or to give one back.
THEOREM NobodyWaits == PoolSpec => []NeverWaits
<1>. QED
  BY Counted, PoolInvariance, PTL

\* Every variable keeps its type.
THEOREM PoolTypeCorrect == PoolSpec => []PoolTypeOK
<1>1. BInv => PoolTypeOK
  BY DEF BInv
<1>. QED
  BY <1>1, PoolInvariance, PTL

=============================================================================
