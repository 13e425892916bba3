--------------------------- MODULE ExecutionProofs ---------------------------
(***************************************************************************)
(* Proofs about one execution, whose two parts share no variable:          *)
(* Engine.Run over its driver, for every number of runs, limit, time and   *)
(* memory (Engine); and the extraction of the additional files, for every  *)
(* set of entries, limit and size (AdditionalFiles).                       *)
(***************************************************************************)
EXTENDS Engine, AdditionalFiles, DataLemmas, SequenceTheorems

-----------------------------------------------------------------------------
(* What a driver's result makes of a call *)

FlagSets == [over : BOOLEAN, timed : BOOLEAN, oom : BOOLEAN, failed : BOOLEAN, code : {0, 1}]

CallResults ==
    [stdout : Int, stderr : Int, time : Times \cup {0},
     memory : Memories \cup {NotMeasured}, flags : FlagSets]

\* Whatever happens, a driver sets five flags.
LEMMA JudgedType ==
    ASSUME NEW d \in Sandboxes, NEW h \in Happenings
    PROVE  Judged(d, h) \in FlagSets
<1>1. h.over \in BOOLEAN /\ ExitCode(h) \in {0, 1}
  BY DEF Happenings, ExitCode
<1>2. d \in {"direct", "docker", "isolate"}
  BY DEF Sandboxes
<1>3. OfDirect(h) \in FlagSets /\ OfDocker(h) \in FlagSets
  BY <1>1 DEF OfDirect, OfDocker, Flags, FlagSets
<1>4. OfIsolate(h) \in FlagSets
  BY <1>1 DEF OfIsolate, Meta, Flags, FlagSets
<1>5. Flags(FALSE, FALSE, FALSE, TRUE, 0) \in FlagSets
  BY DEF Flags, FlagSets
<1>. QED
  BY <1>2, <1>3, <1>4, <1>5 DEF Judged

\* A driver's result has them, and numbers.
LEMMA ResultsType ==
    ASSUME NEW d \in Sandboxes, NEW h \in Happenings, NEW r \in Results(d, h)
    PROVE  r \in CallResults /\ r.flags = Judged(d, h)
<1>1. Judged(d, h) \in FlagSets
  BY JudgedType
<1>2. CASE h.end = "absent"
  BY <1>1, <1>2 DEF Results, CallResults
<1>3. CASE h.end # "absent"
  BY <1>1, <1>3 DEF Results, CallResults
<1>. QED
  BY <1>2, <1>3

\* The least of a set that has one.
LEMMA MinIs ==
    ASSUME NEW S \in SUBSET Int, NEW m \in S, \A x \in S : m <= x
    PROVE  Min(S) = m
<1>1. \A x \in S : (\A y \in S : x <= y) => x = m
  OBVIOUS
<1>. QED
  BY <1>1 DEF Min

\* The statuses of a failure.
LEMMA FailureIs ==
    ASSUME NEW r, r.flags \in FlagSets, NEW onExit
    PROVE  Failure(r, onExit) =
               IF r.flags.over THEN "output_limit_exceeded"
               ELSE IF r.flags.timed THEN "time_limit_exceeded"
               ELSE IF r.flags.oom THEN "memory_limit_exceeded"
               ELSE IF r.flags.failed THEN "sandbox_error"
               ELSE IF r.flags.code # 0 THEN onExit ELSE "none"
<1> DEFINE reasons == Reasons(r, onExit)
           given   == {i \in DOMAIN reasons : reasons[i][1]}
<1>1. /\ DOMAIN reasons = {1, 2, 3, 4, 5}
      /\ reasons[1] = <<r.flags.over, "output_limit_exceeded">>
      /\ reasons[2] = <<r.flags.timed, "time_limit_exceeded">>
      /\ reasons[3] = <<r.flags.oom, "memory_limit_exceeded">>
      /\ reasons[4] = <<r.flags.failed, "sandbox_error">>
      /\ reasons[5] = <<r.flags.code # 0, onExit>>
  BY DEF Reasons
<1>2. Failure(r, onExit) = IF given = {} THEN "none" ELSE reasons[Min(given)][2]
  BY DEF Failure
<1> HIDE DEF reasons
<1>3. /\ given \in SUBSET Int
      /\ given \subseteq {1, 2, 3, 4, 5}
      /\ 1 \in given <=> r.flags.over
      /\ 2 \in given <=> r.flags.timed
      /\ 3 \in given <=> r.flags.oom
      /\ 4 \in given <=> r.flags.failed
      /\ 5 \in given <=> r.flags.code # 0
  <2>1. /\ reasons[1][1] = r.flags.over /\ reasons[2][1] = r.flags.timed
        /\ reasons[3][1] = r.flags.oom /\ reasons[4][1] = r.flags.failed
        /\ reasons[5][1] = (r.flags.code # 0)
    BY <1>1
  <2>2. given \in SUBSET Int /\ given \subseteq {1, 2, 3, 4, 5}
    BY <1>1
  <2>3. \A i \in {1, 2, 3, 4, 5} : i \in given <=> reasons[i][1]
    BY <1>1
  <2>. QED
    BY <2>1, <2>2, <2>3
<1>4. /\ reasons[1][2] = "output_limit_exceeded" /\ reasons[2][2] = "time_limit_exceeded"
      /\ reasons[3][2] = "memory_limit_exceeded" /\ reasons[4][2] = "sandbox_error"
      /\ reasons[5][2] = onExit
  BY <1>1
<1> HIDE DEF given
<1>5. CASE r.flags.over
  <2>1. Min(given) = 1
    BY <1>3, <1>5, MinIs
  <2>. QED
    BY <1>2, <1>3, <1>4, <1>5, <2>1
<1>6. CASE ~r.flags.over /\ r.flags.timed
  <2>1. Min(given) = 2
    BY <1>3, <1>6, MinIs
  <2>. QED
    BY <1>2, <1>3, <1>4, <1>6, <2>1
<1>7. CASE ~r.flags.over /\ ~r.flags.timed /\ r.flags.oom
  <2>1. Min(given) = 3
    BY <1>3, <1>7, MinIs
  <2>. QED
    BY <1>2, <1>3, <1>4, <1>7, <2>1
<1>8. CASE ~r.flags.over /\ ~r.flags.timed /\ ~r.flags.oom /\ r.flags.failed
  <2>1. Min(given) = 4
    BY <1>3, <1>8, MinIs
  <2>. QED
    BY <1>2, <1>3, <1>4, <1>8, <2>1
<1>9. CASE ~r.flags.over /\ ~r.flags.timed /\ ~r.flags.oom /\ ~r.flags.failed
  <2>1. CASE r.flags.code # 0
    <3>1. Min(given) = 5
      BY <1>3, <1>9, <2>1, MinIs
    <3>. QED
      BY <1>2, <1>3, <1>4, <1>9, <2>1, <3>1
  <2>2. CASE r.flags.code = 0
    <3>1. given = {}
      BY <1>3, <1>9, <2>2
    <3>. QED
      BY <1>2, <1>9, <2>2, <3>1
  <2>. QED
    BY <2>1, <2>2
<1>. QED
  BY <1>5, <1>6, <1>7, <1>8, <1>9

\* A call has no failure exactly if it is good.
LEMMA GoodIsNoFailure ==
    ASSUME NEW r, r.flags \in FlagSets, NEW onExit, onExit # "none"
    PROVE  Failure(r, onExit) = "none" <=> Good(r)
<1>1. Good(r) <=> /\ ~r.flags.over /\ ~r.flags.timed /\ ~r.flags.oom /\ ~r.flags.failed
                    /\ r.flags.code = 0
  <2>1. r.flags = [over |-> r.flags.over, timed |-> r.flags.timed, oom |-> r.flags.oom,
                   failed |-> r.flags.failed, code |-> r.flags.code]
    BY DEF FlagSets
  <2>2. /\ r.flags.over \in BOOLEAN /\ r.flags.timed \in BOOLEAN /\ r.flags.oom \in BOOLEAN
        /\ r.flags.failed \in BOOLEAN
    BY DEF FlagSets
  <2>3. ASSUME Good(r)
        PROVE  /\ ~r.flags.over /\ ~r.flags.timed /\ ~r.flags.oom /\ ~r.flags.failed
               /\ r.flags.code = 0
    BY <2>3 DEF Good, Flags
  <2>4. ASSUME ~r.flags.over, ~r.flags.timed, ~r.flags.oom, ~r.flags.failed, r.flags.code = 0
        PROVE  Good(r)
    BY <2>1, <2>2, <2>4 DEF Good, Flags
  <2>. QED
    BY <2>3, <2>4
<1>. QED
  BY <1>1, FailureIs

\* ... and a run exactly if it is right.
LEMMA RightIsNoFailure ==
    ASSUME NEW r, r.flags \in FlagSets, sub.judged \in BOOLEAN
    PROVE  /\ RunFailure(r) = "none" <=> Right(r)
           /\ RunFailure(r) # "accepted"
  BY GoodIsNoFailure, FailureIs DEF RunFailure, Right

-----------------------------------------------------------------------------

\* How many calls come before the runs.
Compilations == IF sub.compiled THEN 1 ELSE 0

RightCall(i) == Good(calls[i]) /\ (i > Compilations => Right(calls[i]))

EngineTypes ==
    /\ driver \in Sandboxes /\ sub \in Submissions
    /\ stage \in {"prepare", "compile", "run", "done"}
    /\ calls \in Seq(CallResults)
    /\ aggregate.count \in Nat

\* Before the end every call was right, and the aggregate counts the runs.
UnderWay ==
    /\ stage # "done" => result.status = "none"
    /\ stage \in {"prepare", "compile"} => calls = <<>> /\ aggregate.count = 0
    /\ stage = "compile" => sub.compiled
    /\ stage = "run" =>
          /\ Len(calls) = Compilations + aggregate.count
          /\ aggregate.count <= RunCount(sub)
          /\ \A i \in 1..Len(calls) : RightCall(i)

\* At the end all calls but the last one were.
Ended ==
    stage = "done" =>
        /\ \A i \in 1..(Len(calls) - 1) : RightCall(i)
        /\ Len(calls) <= Compilations + RunCount(sub)
        /\ result.status = "accepted" <=>
              /\ Len(calls) = Compilations + RunCount(sub)
              /\ \A i \in 1..Len(calls) : RightCall(i)

\* The inductive invariant.
EngineInv == EngineTypes /\ UnderWay /\ Ended

\* At least one run is asked for.
LEMMA RunCountType ==
    ASSUME sub \in Submissions
    PROVE  RunCount(sub) \in Nat \ {0} /\ Compilations \in {0, 1}
  BY DEF RunCount, Submissions, Compilations

\* The runs are the calls after the compilation.
LEMMA RunsAre ==
    ASSUME EngineTypes
    PROVE  /\ calls = <<>> => Runs = <<>>
           /\ calls # <<>> =>
                 /\ Len(Runs) = Len(calls) - Compilations
                 /\ DOMAIN Runs = 1..Len(Runs)
                 /\ \A i \in 1..Len(Runs) : Runs[i] = calls[i + Compilations]
<1>1. calls \in Seq(CallResults) /\ sub.compiled \in BOOLEAN
  BY DEF EngineTypes, Submissions
<1>2. CASE sub.compiled /\ calls # <<>>
  <2>1. Runs = Tail(calls) /\ Compilations = 1
    BY <1>2 DEF Runs, Compilations
  <2>2. /\ Tail(calls) \in Seq(CallResults) /\ Len(Tail(calls)) = Len(calls) - 1
        /\ \A i \in 1..Len(Tail(calls)) : Tail(calls)[i] = calls[i + 1]
    BY <1>1, <1>2, HeadTailProperties
  <2>3. DOMAIN Tail(calls) = 1..Len(Tail(calls))
    BY <2>2, LenProperties
  <2>. QED
    BY <1>2, <2>1, <2>2, <2>3
<1>3. CASE ~sub.compiled
  BY <1>1, <1>3 DEF Runs, Compilations
<1>4. CASE calls = <<>>
  BY <1>4 DEF Runs
<1>. QED
  BY <1>2, <1>3, <1>4

\* The invariant says what the property says.
LEMMA EngineStops == EngineInv => StopsAtFirstFailure
<1>. SUFFICES ASSUME EngineInv PROVE StopsAtFirstFailure
  OBVIOUS
<1> DEFINE n == Len(calls)
<1>1. /\ EngineTypes /\ n \in Nat /\ DOMAIN calls = 1..n
      /\ RunCount(sub) \in Nat \ {0} /\ Compilations \in {0, 1}
      /\ stage \in {"prepare", "compile", "run", "done"}
  BY RunCountType DEF EngineInv, EngineTypes
<1>2. /\ \A i \in 1..(n - 1) : RightCall(i)
      /\ n <= Compilations + RunCount(sub)
  <2>1. CASE stage \in {"prepare", "compile"}
    <3>1. n = 0
      BY <2>1 DEF EngineInv, UnderWay
    <3>. QED
      BY <1>1, <3>1
  <2>2. CASE stage = "run"
    <3>1. n = Compilations + aggregate.count /\ aggregate.count <= RunCount(sub)
      BY <2>2 DEF EngineInv, UnderWay
    <3>. QED
      BY <1>1, <2>2, <3>1 DEF EngineInv, UnderWay, EngineTypes
  <2>3. CASE stage = "done"
    BY <2>3 DEF EngineInv, Ended
  <2>. QED
    BY <1>1, <2>1, <2>2, <2>3
<1>3. result.status = "accepted" <=>
          /\ stage = "done"
          /\ n = Compilations + RunCount(sub)
          /\ \A i \in 1..n : RightCall(i)
  BY DEF EngineInv, UnderWay, Ended
<1>4. CASE calls = <<>>
  <2>1. Runs = <<>> /\ n = 0
    BY <1>1, <1>4, RunsAre
  <2>. QED
    BY <1>1, <1>3, <1>4, <2>1 DEF StopsAtFirstFailure
<1>5. CASE calls # <<>>
  <2> DEFINE m == Len(Runs)
  <2>1. /\ m = n - Compilations /\ DOMAIN Runs = 1..m
        /\ \A i \in 1..m : Runs[i] = calls[i + Compilations]
    BY <1>1, <1>5, RunsAre
  <2>2. \A k \in Int : k \in 1..(m - 1) => RightCall(k + Compilations)
    BY <1>1, <1>2, <2>1
  <2>3. \A i \in 1..(m - 1) : Right(Runs[i])
    BY <1>1, <2>1, <2>2 DEF RightCall
  <2>4. (\A i \in 1..n : RightCall(i)) <=>
            (\A i \in 1..n : Good(calls[i])) /\ (\A i \in 1..m : Right(Runs[i]))
    <3>1. ASSUME \A i \in 1..n : RightCall(i), NEW i \in 1..m
          PROVE  Right(Runs[i])
      <4>1. i + Compilations \in 1..n /\ i + Compilations > Compilations
        BY <1>1, <2>1
      <4>. QED
        BY <2>1, <3>1, <4>1 DEF RightCall
    <3>2. ASSUME \A i \in 1..n : Good(calls[i]), \A i \in 1..m : Right(Runs[i]),
                 NEW i \in 1..n
          PROVE  RightCall(i)
      <4>1. i > Compilations => i - Compilations \in 1..m /\ (i - Compilations) + Compilations = i
        BY <1>1, <2>1
      <4>. QED
        BY <2>1, <3>2, <4>1 DEF RightCall
    <3>. QED
      BY <3>1, <3>2 DEF RightCall
  <2>. QED
    BY <1>1, <1>2, <1>3, <2>1, <2>3, <2>4 DEF StopsAtFirstFailure, RightCall
<1>. QED
  BY <1>4, <1>5

\* Before any call.
LEMMA EngineInit == Init => EngineInv
<1>. SUFFICES ASSUME Init PROVE EngineInv
  OBVIOUS
<1>. USE DEF Init
<1>1. EngineTypes
  BY DEF EngineTypes, NoRuns
<1>2. UnderWay
  BY DEF UnderWay, NoRuns, Nothing
<1>3. Ended
  BY DEF Ended
<1>. QED
  BY <1>1, <1>2, <1>3 DEF EngineInv

\* A call is appended.
LEMMA Called ==
    ASSUME EngineTypes, NEW r \in CallResults, calls' = Append(calls, r), sub' = sub
    PROVE  /\ calls' \in Seq(CallResults)
           /\ Len(calls') = Len(calls) + 1 /\ Len(calls) \in Nat
           /\ calls'[Len(calls')] = r
           /\ \A i \in 1..Len(calls) : calls'[i] = calls[i] /\ (RightCall(i) => RightCall(i)')
<1>1. /\ calls \in Seq(CallResults)
      /\ Append(calls, r) \in Seq(CallResults)
      /\ Len(Append(calls, r)) = Len(calls) + 1 /\ Len(calls) \in Nat
      /\ Append(calls, r)[Len(calls) + 1] = r
      /\ \A i \in 1..Len(calls) : Append(calls, r)[i] = calls[i]
  BY AppendProperties DEF EngineTypes
<1>. QED
  BY <1>1 DEF RightCall, Compilations, Right, Good

\* The compilation, good or not.
LEMMA CompileStops == EngineInv /\ Compile => EngineInv'
<1>. SUFFICES ASSUME EngineInv, Compile PROVE EngineInv'
  OBVIOUS
<1>1. PICK h \in Events : \E r \in Results(driver, h) :
          /\ calls' = Append(calls, r)
          /\ \/ /\ Failure(r, "compilation_error") = "none"
                /\ stage' = "run" /\ UNCHANGED result
             \/ /\ Failure(r, "compilation_error") # "none"
                /\ stage' = "done"
                /\ result' = FromSandbox(Failure(r, "compilation_error"), r, Joined(r))
  BY DEF Compile
<1>2. PICK r \in Results(driver, h) :
          /\ calls' = Append(calls, r)
          /\ \/ /\ Failure(r, "compilation_error") = "none"
                /\ stage' = "run" /\ UNCHANGED result
             \/ /\ Failure(r, "compilation_error") # "none"
                /\ stage' = "done"
                /\ result' = FromSandbox(Failure(r, "compilation_error"), r, Joined(r))
  BY <1>1
<1>3. /\ stage = "compile" /\ UNCHANGED <<driver, sub, aggregate>>
      /\ EngineTypes /\ calls = <<>> /\ aggregate.count = 0 /\ sub.compiled
      /\ Compilations = 1 /\ Compilations' = 1
      /\ RunCount(sub) \in Nat \ {0} /\ result.status = "none"
  BY RunCountType DEF Compile, EngineInv, UnderWay, EngineTypes, Compilations
<1>4. r \in CallResults /\ r.flags \in FlagSets
  BY <1>3, ResultsType DEF Events, EngineTypes, CallResults
<1>5. /\ calls' \in Seq(CallResults) /\ Len(calls') = 1 /\ calls'[1] = r
  BY <1>2, <1>3, <1>4
<1>6. EngineTypes'
  BY <1>2, <1>3, <1>5 DEF EngineTypes
<1>7. RightCall(1)' <=> Failure(r, "compilation_error") = "none"
  <2>1. RightCall(1)' <=> Good(r)
    BY <1>3, <1>5 DEF RightCall, Good
  <2>. QED
    BY <1>4, <2>1, GoodIsNoFailure
<1>8. UnderWay'
  BY <1>2, <1>3, <1>5, <1>7 DEF UnderWay, RunCount
<1>9. Ended'
  <2>. SUFFICES ASSUME stage' = "done" PROVE Ended'
    BY DEF Ended
  <2>1. /\ Failure(r, "compilation_error") # "none"
        /\ result'.status = Failure(r, "compilation_error")
    BY <1>2 DEF FromSandbox
  <2>2. result'.status # "accepted"
    BY <1>4, <2>1, FailureIs
  <2>3. RunCount(sub') \in Nat \ {0}
    BY <1>3
  <2>. QED
    BY <1>3, <1>5, <1>7, <2>1, <2>2, <2>3 DEF Ended
<1>. QED
  BY <1>6, <1>8, <1>9 DEF EngineInv

\* A run, right or not.
LEMMA RunStops == EngineInv /\ RunOnce => EngineInv'
<1>. SUFFICES ASSUME EngineInv, RunOnce PROVE EngineInv'
  OBVIOUS
<1>1. PICK h \in Events : \E r \in Results(driver, h) : TakeRun(r)
  BY DEF RunOnce
<1>2. PICK r \in Results(driver, h) : TakeRun(r)
  BY <1>1
<1>0. PICK n \in Nat : n = Len(calls)
  <2>1. calls \in Seq(CallResults)
    BY DEF EngineInv, EngineTypes
  <2>. QED
    BY <2>1
<1>3. /\ stage = "run" /\ UNCHANGED <<driver, sub>> /\ EngineTypes
      /\ aggregate.count < RunCount(sub) /\ aggregate.count \in Nat
      /\ Compilations \in {0, 1} /\ Compilations' = Compilations
      /\ RunCount(sub) \in Nat \ {0} /\ RunCount(sub') = RunCount(sub)
      /\ sub.judged \in BOOLEAN /\ result.status = "none"
      /\ n = Compilations + aggregate.count
      /\ \A i \in 1..n : RightCall(i)
  BY <1>0, RunCountType
     DEF RunOnce, EngineInv, UnderWay, EngineTypes, Compilations, Submissions
<1>4. r \in CallResults /\ r.flags \in FlagSets
  BY <1>3, ResultsType DEF Events, EngineTypes, CallResults
<1>5. /\ calls' \in Seq(CallResults) /\ Len(calls') = n + 1 /\ n \in Nat
      /\ calls'[n + 1] = r /\ \A i \in 1..n : RightCall(i)'
  <2>1. calls' = Append(calls, r)
    BY <1>2 DEF TakeRun
  <2>. QED
    BY <1>0, <1>3, <1>4, <2>1, Called
<1>6. RightCall(n + 1)' <=> RunFailure(r) = "none"
  <2>1. Right(r)' <=> Right(r)
    BY <1>3 DEF Right, Good
  <2>2. Right(r) => Good(r)
    BY DEF Right
  <2>3. (n + 1 > Compilations)
    BY <1>3, <1>5
  <2>4. RightCall(n + 1)' <=> Right(r)
    <3>1. RightCall(n + 1)' <=> Good(r) /\ Right(r)'
      BY <1>3, <1>5, <2>3 DEF RightCall, Good, Right
    <3>. QED
      BY <2>1, <2>2, <3>1
  <2>. QED
    BY <1>3, <1>4, <2>4, RightIsNoFailure
<1>7. CASE /\ RunFailure(r) = "none" /\ aggregate' = Add(aggregate, r)
           /\ UNCHANGED <<stage, result>>
  <2>1. aggregate'.count = aggregate.count + 1
    BY <1>7 DEF Add
  <2>2. EngineTypes'
    BY <1>3, <1>5, <1>7, <2>1 DEF EngineTypes
  <2>3. \A i \in 1..Len(calls') : RightCall(i)'
    <3>1. \A i \in 1..Len(calls') : i \in 1..n \/ i = n + 1
      BY <1>5
    <3>. QED
      BY <1>5, <1>6, <1>7, <3>1
  <2>4. UnderWay'
    BY <1>3, <1>5, <1>7, <2>1, <2>3 DEF UnderWay
  <2>5. Ended'
    BY <1>3, <1>7 DEF Ended
  <2>. QED
    BY <2>2, <2>4, <2>5 DEF EngineInv
<1>8. CASE /\ RunFailure(r) # "none" /\ stage' = "done"
           /\ result' = FromSandbox(RunFailure(r), r, 0) /\ UNCHANGED aggregate
  <2>1. EngineTypes'
    BY <1>3, <1>5, <1>8 DEF EngineTypes
  <2>2. result'.status # "accepted"
    BY <1>3, <1>4, <1>8, RightIsNoFailure DEF FromSandbox
  <2>3. ~ \A i \in 1..Len(calls') : RightCall(i)'
    BY <1>5, <1>6, <1>8
  <2>4. UnderWay'
    BY <1>8 DEF UnderWay
  <2>5. Ended'
    <3>1. \A i \in 1..(Len(calls') - 1) : RightCall(i)'
      BY <1>5
    <3>2. Len(calls') <= Compilations + RunCount(sub)
      BY <1>3, <1>5
    <3>. QED
      BY <1>3, <2>2, <2>3, <3>1, <3>2 DEF Ended
  <2>. QED
    BY <2>1, <2>4, <2>5 DEF EngineInv
<1>. QED
  BY <1>2, <1>7, <1>8 DEF TakeRun

\* The steps that call no driver.
LEMMA OtherStops ==
    EngineInv /\ (Refuse \/ Prepare \/ Accept \/ UNCHANGED vars) => EngineInv'
<1>. SUFFICES ASSUME EngineInv, Refuse \/ Prepare \/ Accept \/ UNCHANGED vars
              PROVE  EngineInv'
  OBVIOUS
<1>1. /\ UNCHANGED <<driver, sub, calls, aggregate>> /\ EngineTypes
      /\ Compilations \in {0, 1} /\ Compilations' = Compilations
      /\ RunCount(sub) \in Nat \ {0} /\ RunCount(sub') = RunCount(sub)
  BY RunCountType DEF Refuse, Prepare, Accept, vars, EngineInv, EngineTypes, Compilations
<1>2. \A i \in 1..Len(calls) : RightCall(i)' <=> RightCall(i)
  BY <1>1 DEF RightCall, Right, Good
<1>3. CASE Refuse
  <2>1. calls = <<>> /\ Len(calls) = 0 /\ stage' = "done" /\ result'.status # "accepted"
    BY <1>3 DEF Refuse, Nothing, EngineInv, UnderWay
  <2>. QED
    BY <1>1, <2>1 DEF EngineInv, EngineTypes, UnderWay, Ended
<1>4. CASE Prepare
  <2>1. /\ calls = <<>> /\ Len(calls) = 0 /\ aggregate.count = 0 /\ result' = result
        /\ stage' = IF sub.compiled THEN "compile" ELSE "run"
        /\ stage = "prepare" /\ result.status = "none"
    BY <1>4 DEF Prepare, EngineInv, UnderWay
  <2>. QED
    BY <1>1, <2>1 DEF EngineInv, EngineTypes, UnderWay, Ended, Compilations
<1>5. CASE Accept
  <2>1. /\ stage' = "done" /\ result'.status = "accepted" /\ stage = "run"
        /\ aggregate.count = RunCount(sub)
    BY <1>5 DEF Accept, FromSandbox
  <2>2. Len(calls) = Compilations + RunCount(sub) /\ \A i \in 1..Len(calls) : RightCall(i)
    BY <2>1 DEF EngineInv, UnderWay
  <2>3. Len(calls) \in Nat
    BY <1>1 DEF EngineTypes
  <2>4. \A i \in 1..Len(calls') : RightCall(i)'
    BY <1>1, <1>2, <2>2
  <2>5. EngineTypes' /\ UnderWay'
    BY <1>1, <2>1 DEF EngineTypes, UnderWay
  <2>6. Ended'
    BY <1>1, <2>1, <2>2, <2>3, <2>4 DEF Ended
  <2>. QED
    BY <2>5, <2>6 DEF EngineInv
<1>6. CASE UNCHANGED vars
  <2>1. UNCHANGED <<driver, sub, stage, calls, aggregate, result>>
    BY <1>6 DEF vars
  <2>. QED
    BY <1>1, <1>2, <2>1 DEF EngineInv, EngineTypes, UnderWay, Ended
<1>. QED
  BY <1>3, <1>4, <1>5, <1>6

\* The inductive invariant of StopsAtFirstFailure holds in every reachable state.
THEOREM EngineInvariance == Spec => []EngineInv
<1>1. EngineInv /\ [Next]_vars => EngineInv'
  BY CompileStops, RunStops, OtherStops DEF Next
<1>. QED
  BY EngineInit, <1>1, PTL DEF Spec

\* Engine.Run compiles once, runs as often as asked and stops at the first call that
\* fails; accepted means that all were made and right.
THEOREM FirstFailureStops == Spec => []StopsAtFirstFailure
  BY EngineInvariance, EngineStops, PTL

-----------------------------------------------------------------------------

\* What a driver's flags say of what happened to its call.
Tells(f, d, h) ==
    /\ f.over <=> h.over
    /\ f.timed /\ ~f.over => h.ctx = "deadline" \/ h.end = "limit"
    /\ f.oom => h.end = "oom" /\ d # "direct" /\ h.report = "read"
    /\ f.failed /\ ~f.over /\ ~f.timed /\ ~f.oom =>
          \/ h.end \in {"absent", "broken"} \/ h.report = "unreadable"
          \/ d = "docker" /\ h.end = "code125"
          \/ d = "direct" /\ h.end = "delayed"
          \/ h.ctx = "cancelled"
    /\ f.code # 0 /\ ~f.over /\ ~f.timed /\ ~f.oom /\ ~f.failed =>
          /\ h.ctx # "deadline"
          /\ \/ h.end \in {"code", "code125", "signal", "oom"} \/ h.ctx = "cancelled"
             \/ h.end = "limit" /\ h.report = "lost"
          /\ h.end = "oom" => d = "direct" \/ h.report = "lost"
    /\ f.code = 0 /\ ~f.over /\ ~f.timed /\ ~f.oom /\ ~f.failed =>
          h.end = "zero" /\ h.ctx # "deadline"

\* Whichever driver made them.
LEMMA FlagsTell ==
    ASSUME NEW d \in Sandboxes, NEW h \in Happenings, Possible(d, h)
    PROVE  Tells(Judged(d, h), d, h)
<1> USE DEF Possible, Flags, Tells
<1>1. /\ h.over \in BOOLEAN
      /\ h.end \in {"absent", "zero", "code", "code125", "signal", "oom", "limit", "killed",
                    "raced", "delayed", "broken"}
      /\ h.ctx \in {"live", "deadline", "cancelled"}
      /\ h.report \in {"read", "lost", "unreadable"}
  BY DEF Happenings
<1>2. CASE h.end = "absent"
  BY <1>1, <1>2 DEF Judged
<1> DEFINE f        == Judged(d, h)
           read     == h.report = "read"
           deadline == h.ctx = "deadline"
<1>3. CASE h.end # "absent" /\ d = "direct"
  <2> DEFINE broken == h.end \in {"raced", "delayed"}
  <2>1. f = [over |-> h.over, timed |-> deadline, oom |-> FALSE,
             failed |-> ~deadline /\ broken,
             code |-> IF deadline THEN 0 ELSE ExitCode(h)]
    BY <1>3 DEF Judged, OfDirect
  <2>2. /\ f.over <=> h.over
        /\ f.timed <=> deadline
        /\ ~f.oom
        /\ f.failed <=> ~deadline /\ broken
        /\ f.code = IF deadline THEN 0 ELSE ExitCode(h)
    <3>. HIDE DEF f, deadline, broken
    <3>. QED
      BY <2>1, Zenon
  <2>3. Tells(f, d, h)
    <3>. HIDE DEF f
    <3>. QED
      BY <1>1, <1>3, <2>2 DEF ExitCode
  <2>. QED
    BY <2>3
<1>4. CASE h.end # "absent" /\ d = "docker"
  <2> DEFINE broken == h.end \in {"raced", "broken", "code125"}
  <2>1. f = [over |-> h.over, timed |-> deadline, oom |-> h.end = "oom" /\ read,
             failed |-> ~deadline /\ broken,
             code |-> IF deadline \/ broken THEN 0 ELSE ExitCode(h)]
    BY <1>4 DEF Judged, OfDocker
  <2>2. /\ f.over <=> h.over
        /\ f.timed <=> deadline
        /\ f.oom <=> h.end = "oom" /\ read
        /\ f.failed <=> ~deadline /\ broken
        /\ f.code = IF deadline \/ broken THEN 0 ELSE ExitCode(h)
    <3>. HIDE DEF f, read, deadline, broken
    <3>. QED
      BY <2>1, Zenon
  <2>3. Tells(f, d, h)
    <3>. HIDE DEF f
    <3>. QED
      BY <1>1, <1>4, <2>2 DEF ExitCode
  <2>. QED
    BY <2>3
<1>5. CASE h.end # "absent" /\ d = "isolate"
  <2> DEFINE internal == h.end \in {"raced", "broken", "killed"} \/ h.report = "unreadable"
             code     == IF read THEN ~(read /\ h.end = "limit") /\ ~(read /\ h.end = "broken")
                         ELSE ~deadline /\ ~internal
  <2>1. f = [over |-> h.over, timed |-> deadline \/ (read /\ h.end = "limit"),
             oom |-> read /\ h.end = "oom",
             failed |-> (read /\ h.end = "broken") \/ (~deadline /\ internal),
             code |-> IF code THEN ExitCode(h) ELSE 0]
    BY <1>5 DEF Judged, OfIsolate, Meta
  <2>2. /\ f.over <=> h.over
        /\ f.timed <=> deadline \/ (read /\ h.end = "limit")
        /\ f.oom <=> read /\ h.end = "oom"
        /\ f.failed <=> (read /\ h.end = "broken") \/ (~deadline /\ internal)
        /\ f.code = IF code THEN ExitCode(h) ELSE 0
    <3>. HIDE DEF f, read, deadline, internal, code
    <3>. QED
      BY <2>1, Zenon
  <2>3. Tells(f, d, h)
    <3>. HIDE DEF f
    <3>. QED
      BY <1>1, <1>5, <2>2 DEF ExitCode
  <2>. QED
    BY <2>3
<1>. QED
  BY <1>2, <1>3, <1>4, <1>5 DEF Sandboxes

\* The flags of the last call are those of what happened last.
LastCall ==
    calls # <<>> =>
        /\ last \in Happenings /\ Possible(driver, last)
        /\ calls[Len(calls)].flags = Judged(driver, last)

\* That a call is blamed rests on the flags of the last one.
BlameInv == EngineInv /\ LastCall /\ BlamesTheCause

\* A call that ends everything is blamed for what happened to it.
LEMMA CallIsBlamed ==
    ASSUME driver \in Sandboxes, NEW h \in Happenings, Possible(driver, h),
           NEW r, r.flags = Judged(driver, h),
           NEW onExit \in {"runtime_error", "compilation_error"},
           last' = h, driver' = driver,
           \/ result'.status = Failure(r, onExit)
           \/ Failure(r, onExit) = "none" /\ result'.status \in {"wrong_answer", "accepted"},
           result'.status # "none"
    PROVE  BlamesTheCause'
<1> DEFINE f == Judged(driver, h)
<1>1. f \in FlagSets /\ Tells(f, driver, h)
  BY JudgedType, FlagsTell
<1>2. Failure(r, onExit) =
               IF f.over THEN "output_limit_exceeded"
               ELSE IF f.timed THEN "time_limit_exceeded"
               ELSE IF f.oom THEN "memory_limit_exceeded"
               ELSE IF f.failed THEN "sandbox_error"
               ELSE IF f.code # 0 THEN onExit ELSE "none"
  BY <1>1, FailureIs
<1>3. h.over \in BOOLEAN
  BY DEF Happenings
<1> HIDE DEF f
<1>4. CASE f.over
  BY <1>1, <1>2, <1>4 DEF Tells, BlamesTheCause
<1>5. CASE ~f.over /\ f.timed
  BY <1>1, <1>2, <1>5 DEF Tells, BlamesTheCause
<1>6. CASE ~f.over /\ ~f.timed /\ f.oom
  BY <1>1, <1>2, <1>6 DEF Tells, BlamesTheCause
<1>7. CASE ~f.over /\ ~f.timed /\ ~f.oom /\ f.failed
  BY <1>1, <1>2, <1>7 DEF Tells, BlamesTheCause, Aborted
<1>8. CASE ~f.over /\ ~f.timed /\ ~f.oom /\ ~f.failed /\ f.code # 0
  BY <1>1, <1>2, <1>8 DEF Tells, BlamesTheCause, Aborted, ByItself
<1>9. CASE ~f.over /\ ~f.timed /\ ~f.oom /\ ~f.failed /\ f.code = 0
  BY <1>1, <1>2, <1>9 DEF Tells, BlamesTheCause
<1>. QED
  BY <1>4, <1>5, <1>6, <1>7, <1>8, <1>9

\* No call, nobody to blame.
LEMMA BlameInit == Init => BlameInv
<1>. SUFFICES ASSUME Init PROVE BlameInv
  OBVIOUS
<1>1. EngineInv
  BY EngineInit
<1>2. LastCall /\ BlamesTheCause
  BY DEF Init, LastCall, BlamesTheCause
<1>. QED
  BY <1>1, <1>2 DEF BlameInv

\* The steps that call a driver.
LEMMA CallsAreBlamed == BlameInv /\ (Compile \/ RunOnce) => LastCall' /\ BlamesTheCause'
<1>. SUFFICES ASSUME BlameInv, Compile \/ RunOnce PROVE LastCall' /\ BlamesTheCause'
  OBVIOUS
<1>1. EngineTypes /\ driver' = driver /\ sub' = sub
  BY DEF BlameInv, EngineInv, Compile, RunOnce
<1>2. PICK h \in Events : \E r \in Results(driver, h) :
          /\ last' = h /\ calls' = Append(calls, r)
          /\ \/ stage' # "done"
             \/ result'.status = Failure(r, "compilation_error") /\ result'.status # "none"
             \/ result'.status = RunFailure(r) /\ result'.status # "none"
  <2>1. CASE Compile
    BY <2>1 DEF Compile, FromSandbox
  <2>2. CASE RunOnce
    BY <2>2 DEF RunOnce, TakeRun, FromSandbox
  <2>. QED
    BY <2>1, <2>2
<1>3. PICK r \in Results(driver, h) :
          /\ last' = h /\ calls' = Append(calls, r)
          /\ \/ stage' # "done"
             \/ result'.status = Failure(r, "compilation_error") /\ result'.status # "none"
             \/ result'.status = RunFailure(r) /\ result'.status # "none"
  BY <1>2
<1>4. /\ driver \in Sandboxes /\ h \in Happenings /\ Possible(driver, h)
      /\ r \in CallResults /\ r.flags = Judged(driver, h)
  BY <1>1, ResultsType DEF Events, EngineTypes
<1>5. LastCall'
  <2>1. calls'[Len(calls')] = r
    BY <1>1, <1>3, <1>4, Called
  <2>. QED
    BY <1>1, <1>3, <1>4, <2>1 DEF LastCall
<1>6. BlamesTheCause'
  <2>1. CASE stage' # "done"
    BY <2>1 DEF BlamesTheCause
  <2>2. CASE result'.status = Failure(r, "compilation_error") /\ result'.status # "none"
    BY <1>1, <1>3, <1>4, <2>2, CallIsBlamed
  <2>3. CASE result'.status = RunFailure(r) /\ result'.status # "none"
    <3>1. \/ result'.status = Failure(r, "runtime_error")
          \/ Failure(r, "runtime_error") = "none" /\ result'.status = "wrong_answer"
      BY <2>3 DEF RunFailure
    <3>. QED
      BY <1>1, <1>3, <1>4, <2>3, <3>1, CallIsBlamed
  <2>. QED
    BY <1>3, <2>1, <2>2, <2>3
<1>. QED
  BY <1>5, <1>6

\* Those that call none.
LEMMA OthersAreBlamed ==
    BlameInv /\ (Refuse \/ Prepare \/ Accept \/ UNCHANGED vars)
        => LastCall' /\ BlamesTheCause'
<1>. SUFFICES ASSUME BlameInv, Refuse \/ Prepare \/ Accept \/ UNCHANGED vars
              PROVE  LastCall' /\ BlamesTheCause'
  OBVIOUS
<1>1. UNCHANGED <<driver, calls, last>> /\ EngineTypes
  BY DEF Refuse, Prepare, Accept, vars, BlameInv, EngineInv
<1>2. LastCall'
  BY <1>1 DEF BlameInv, LastCall
<1>3. CASE Refuse \/ Prepare
  <2>1. calls' = <<>>
    BY <1>1, <1>3 DEF Refuse, Prepare, BlameInv, EngineInv, UnderWay
  <2>. QED
    BY <1>2, <2>1 DEF BlamesTheCause
<1>4. CASE Accept
  <2>. SUFFICES ASSUME calls # <<>> PROVE BlamesTheCause'
    BY <1>1, <1>2 DEF BlamesTheCause
  <2>1. /\ last \in Happenings /\ Possible(driver, last)
        /\ calls[Len(calls)].flags = Judged(driver, last) /\ driver \in Sandboxes
    BY <1>1 DEF BlameInv, LastCall, EngineTypes
  <2>2. Good(calls[Len(calls)])
    <3>1. \A i \in 1..Len(calls) : RightCall(i)
      BY <1>4 DEF Accept, BlameInv, EngineInv, UnderWay
    <3>2. Len(calls) \in 1..Len(calls)
      BY <1>1 DEF EngineTypes
    <3>. QED
      BY <3>1, <3>2 DEF RightCall
  <2>3. Failure(calls[Len(calls)], "runtime_error") = "none"
    BY <2>1, <2>2, JudgedType, GoodIsNoFailure
  <2>4. result'.status = "accepted"
    BY <1>4 DEF Accept, FromSandbox
  <2>. QED
    BY <1>1, <2>1, <2>3, <2>4, CallIsBlamed
<1>5. CASE UNCHANGED vars
  <2>1. UNCHANGED <<driver, stage, calls, last, result>>
    BY <1>5 DEF vars
  <2>2. BlamesTheCause
    BY DEF BlameInv
  <2>. QED
    BY <1>2, <2>1, <2>2 DEF BlamesTheCause, Aborted, ByItself
<1>. QED
  BY <1>2, <1>3, <1>4, <1>5

\* The status blames what ended the last call, whichever driver made it and however
\* its limits, its kill and its reports met.
THEOREM CausesAreBlamed == Spec => []BlamesTheCause
<1>1. BlameInv /\ [Next]_vars => BlameInv'
  BY CompileStops, RunStops, OtherStops, CallsAreBlamed, OthersAreBlamed
     DEF Next, BlameInv
<1>2. BlameInv => BlamesTheCause
  BY DEF BlameInv
<1>. QED
  BY BlameInit, <1>1, <1>2, PTL DEF Spec

-----------------------------------------------------------------------------

\* The library's sum of a function is that over its domain.
LEMMA SumsAre ==
    ASSUME NEW f
    PROVE  SumFunction(f) = SumFunctionOnSet(f, DOMAIN f)
  BY DEF SumFunction

\* A run more adds its time.
LEMMA SumAppends ==
    ASSUME NEW n \in Nat, NEW f, NEW g, DOMAIN f = 1..n, DOMAIN g = 1..(n + 1),
           \A i \in 1..n : f[i] \in Int /\ g[i] = f[i], g[n + 1] \in Int
    PROVE  SumFunction(g) = SumFunction(f) + g[n + 1]
<1>1. IsFiniteSet(1..(n + 1)) /\ IsFiniteSet(1..n)
  BY FS_Interval
<1>2. (1..(n + 1)) \ {n + 1} = 1..n
  OBVIOUS
<1>3. \A i \in 1..(n + 1) : g[i] \in Int
  OBVIOUS
<1>4. SumFunctionOnSet(g, 1..(n + 1)) = g[n + 1] + SumFunctionOnSet(g, 1..n)
  BY <1>1, <1>2, <1>3, SumTakesOut
<1>5. SumFunctionOnSet(g, 1..n) = SumFunctionOnSet(f, 1..n)
  BY <1>1, SumSame
<1>6. SumFunctionOnSet(f, 1..n) \in Int
  BY <1>1, SumStep
<1>. QED
  BY <1>4, <1>5, <1>6, SumsAre

\* The greatest of a set that has one.
LEMMA MaxIs ==
    ASSUME NEW S \in SUBSET Int, NEW m \in S, \A x \in S : x <= m
    PROVE  Max(S) = m
<1>1. \A x \in S : (\A y \in S : x >= y) => x = m
  OBVIOUS
<1>. QED
  BY <1>1 DEF Max

\* The runs of a sequence of calls, with or without a compilation.
LEMMA RunsOf ==
    ASSUME NEW c \in Seq(CallResults), c # <<>>, NEW k \in {0, 1}, NEW R,
           R = IF k = 1 THEN Tail(c) ELSE c
    PROVE  /\ R \in Seq(CallResults) /\ Len(R) = Len(c) - k
           /\ DOMAIN R = 1..Len(R)
           /\ \A i \in 1..Len(R) : R[i] = c[i + k]
<1>1. CASE k = 1
  <2>1. /\ Tail(c) \in Seq(CallResults) /\ Len(Tail(c)) = Len(c) - 1
        /\ \A i \in 1..Len(Tail(c)) : Tail(c)[i] = c[i + 1]
    BY HeadTailProperties
  <2>2. DOMAIN Tail(c) = 1..Len(Tail(c))
    BY <2>1, LenProperties
  <2>. QED
    BY <1>1, <2>1, <2>2
<1>2. CASE k = 0
  BY <1>2
<1>. QED
  BY <1>1, <1>2

\* The aggregate of the runs so far.
TimesOf(R)    == SumFunction([i \in DOMAIN R |-> R[i].time])
MemoriesOf(R) == {R[i].memory : i \in DOMAIN R}

Aggregated ==
    /\ aggregate = [count |-> aggregate.count, stdout |-> aggregate.stdout,
                    time |-> aggregate.time, memory |-> aggregate.memory]
    /\ stage # "done" /\ aggregate.count = 0 =>
          aggregate.time = 0 /\ aggregate.memory = NotMeasured
    /\ stage = "run" => aggregate.time = TimesOf(Runs)
    /\ stage = "run" /\ aggregate.count > 0 =>
          /\ aggregate.stdout = calls[Len(calls)].stdout
          /\ aggregate.memory \in MemoriesOf(Runs)
          /\ \A m \in MemoriesOf(Runs) : m <= aggregate.memory

\* What is reported at the end was kept in the aggregate.
ReportInv == EngineInv /\ Aggregated /\ ReportsTheRuns

\* No run has no time.
LEMMA NoTime == ASSUME NEW R, R = <<>> PROVE TimesOf(R) = 0
<1>1. DOMAIN [i \in DOMAIN R |-> R[i].time] = {}
  OBVIOUS
<1>2. IsFiniteSet({}) /\ \A f : \A x \in {} : f[x] \in Int
  BY FS_EmptySet
<1>3. SumFunctionOnSet([i \in DOMAIN R |-> R[i].time], {}) = 0
  BY <1>2, SumStep
<1>. QED
  BY <1>1, <1>3, SumsAre DEF TimesOf

\* What the drivers' assumption says of a call's result.
LEMMA Measured ==
    ASSUME NEW r \in CallResults
    PROVE  r.time \in Nat /\ r.memory \in Int /\ r.memory >= NotMeasured
           /\ Limit \in Nat
<1>1. r.time \in Times \cup {0} /\ r.memory \in Memories \cup {NotMeasured}
  BY DEF CallResults
<1>2. Limit \in Nat /\ Times \subseteq Nat /\ Memories \subseteq Nat
  BY DriversAssumption
<1>3. r.time \in Nat
  <2>1. \A t \in Times \cup {0} : t \in Nat
    BY <1>2
  <2>. QED
    BY <1>1, <2>1
<1>4. r.memory \in Nat \/ r.memory = NotMeasured
  BY <1>1, <1>2
<1>. QED
  BY <1>2, <1>3, <1>4 DEF NotMeasured

\* The aggregate is kept by a run.
LEMMA AddAggregates ==
    ASSUME NEW R \in Seq(CallResults), NEW S \in Seq(CallResults),
           NEW a, NEW r \in CallResults,
           Len(S) = Len(R) + 1, \A i \in 1..Len(R) : S[i] = R[i], S[Len(R) + 1] = r,
           a.count = Len(R), a.time = TimesOf(R),
           a.count = 0 => a.memory = NotMeasured,
           a.count > 0 => /\ a.memory \in MemoriesOf(R)
                          /\ \A m \in MemoriesOf(R) : m <= a.memory
    PROVE  /\ Add(a, r).count = Len(S) /\ Add(a, r).time = TimesOf(S)
           /\ Add(a, r).stdout = r.stdout
           /\ Add(a, r).memory \in MemoriesOf(S)
           /\ \A m \in MemoriesOf(S) : m <= Add(a, r).memory
<1> DEFINE n == Len(R)
           f == [i \in DOMAIN R |-> R[i].time]
           g == [i \in DOMAIN S |-> S[i].time]
<1>1. n \in Nat /\ DOMAIN R = 1..n /\ DOMAIN S = 1..(n + 1)
  OBVIOUS
<1>2. /\ \A i \in 1..n : R[i] \in CallResults
      /\ \A i \in 1..(n + 1) : S[i] \in CallResults
  BY <1>1
<1>3. \A i \in 1..n : R[i].time \in Int /\ R[i].memory \in Int /\ R[i].memory >= -1
  BY <1>2, Measured DEF NotMeasured
<1>4. r.time \in Int /\ r.memory \in Int /\ r.memory >= -1
  BY Measured DEF NotMeasured
<1>5. TimesOf(S) = TimesOf(R) + r.time
  <2>1. DOMAIN f = 1..n /\ DOMAIN g = 1..(n + 1)
    BY <1>1
  <2>2. \A i \in 1..n : f[i] \in Int /\ g[i] = f[i]
    BY <1>1, <1>3
  <2>3. g[n + 1] = r.time
    BY <1>1
  <2>4. SumFunction(g) = SumFunction(f) + g[n + 1]
    <3>. HIDE DEF f, g, n
    <3>. QED
      BY <1>1, <1>4, <2>1, <2>2, <2>3, SumAppends
  <2>. QED
    BY <2>3, <2>4 DEF TimesOf
<1>6. Add(a, r).count = n + 1 /\ Add(a, r).time = TimesOf(S) /\ Add(a, r).stdout = r.stdout
  BY <1>5 DEF Add
<1>7. MemoriesOf(S) = MemoriesOf(R) \cup {r.memory}
  <2>1. \A i \in DOMAIN S : i \in DOMAIN R \/ i = n + 1
    BY <1>1
  <2>2. \A i \in DOMAIN R : i \in DOMAIN S /\ S[i] = R[i]
    BY <1>1
  <2>3. n + 1 \in DOMAIN S
    BY <1>1
  <2>. QED
    BY <2>1, <2>2, <2>3 DEF MemoriesOf
<1>8. \A m \in MemoriesOf(R) : m \in Int /\ m >= -1
  BY <1>1, <1>3 DEF MemoriesOf
<1>9. Add(a, r).memory = IF r.memory # -1 /\ (a.memory = -1 \/ r.memory > a.memory)
                           THEN r.memory ELSE a.memory
  BY DEF Add, NotMeasured
<1>10. CASE n = 0
  <2>1. MemoriesOf(R) = {} /\ a.memory = -1
    BY <1>1, <1>10 DEF MemoriesOf, NotMeasured
  <2>. QED
    BY <1>4, <1>6, <1>7, <1>9, <2>1
<1>11. CASE n # 0
  <2>1. a.memory \in MemoriesOf(R) /\ \A m \in MemoriesOf(R) : m <= a.memory
    BY <1>1, <1>11
  <2>. QED
    BY <1>4, <1>6, <1>7, <1>8, <1>9, <2>1
<1>. QED
  BY <1>10, <1>11

\* The initial states have no call.
LEMMA ReportInit == Init => ReportInv
<1>. SUFFICES ASSUME Init PROVE ReportInv
  OBVIOUS
<1>1. EngineInv
  BY EngineInit
<1>2. Aggregated /\ ReportsTheRuns
  BY DEF Init, NoRuns, Aggregated, ReportsTheRuns
<1>. QED
  BY <1>1, <1>2 DEF ReportInv

\* The last call, as the property names it.
LEMMA LastIs == ASSUME NEW c PROVE Last(c) = c[Len(c)]
  BY DEF Last

\* What a call that ends everything is reported with.
LEMMA FailureReported ==
    ASSUME NEW r, NEW status, status # "accepted", NEW compile \in 0..(2 * Limit + 1),
           calls'[Len(calls')] = r, compile # 0 => (Runs)' = <<>>,
           result' = FromSandbox(status, r, compile)
    PROVE  ReportsTheRuns'
<1>1. /\ result'.status = status /\ result'.stdout = r.stdout /\ result'.time = r.time
      /\ result'.memory = r.memory /\ result'.compile = compile
  BY DEF FromSandbox
<1>2. Last(calls') = r
  BY LastIs
<1>. QED
  BY <1>1, <1>2 DEF ReportsTheRuns

\* The compilation.
LEMMA CompileReported ==
    ReportInv /\ Compile => Aggregated' /\ ReportsTheRuns'
<1>. SUFFICES ASSUME ReportInv, Compile
              PROVE  Aggregated' /\ ReportsTheRuns'
  OBVIOUS
<1>1. PICK h \in Events : \E r \in Results(driver, h) :
          /\ calls' = Append(calls, r)
          /\ \/ stage' = "run"
             \/ /\ stage' = "done"
                /\ result' = FromSandbox(Failure(r, "compilation_error"), r, Joined(r))
  BY DEF Compile
<1>2. PICK r \in Results(driver, h) :
          /\ calls' = Append(calls, r)
          /\ \/ stage' = "run"
             \/ /\ stage' = "done"
                /\ result' = FromSandbox(Failure(r, "compilation_error"), r, Joined(r))
  BY <1>1
<1>3. /\ UNCHANGED <<driver, sub, aggregate>> /\ EngineTypes /\ EngineInv'
      /\ calls = <<>> /\ aggregate.count = 0 /\ sub.compiled
  BY CompileStops DEF Compile, ReportInv, EngineInv, UnderWay
<1>4. r \in CallResults /\ r.flags \in FlagSets
  BY <1>3, ResultsType DEF Events, EngineTypes, CallResults
<1>5. calls' = <<r>>
  BY <1>2, <1>3
<1>6. (Runs)' = <<>>
  BY <1>3, <1>5 DEF Runs
<1>7. ASSUME stage' = "run" PROVE Aggregated' /\ ReportsTheRuns'
  <2>1. TimesOf(Runs)' = 0
    BY <1>6, NoTime DEF TimesOf
  <2>2. /\ aggregate.time = 0 /\ aggregate.memory = NotMeasured
        /\ aggregate = [count |-> aggregate.count, stdout |-> aggregate.stdout,
                        time |-> aggregate.time, memory |-> aggregate.memory]
    BY <1>3 DEF Compile, ReportInv, Aggregated
  <2>3. Aggregated'
    BY <1>3, <1>7, <2>1, <2>2 DEF Aggregated, NotMeasured
  <2>. QED
    BY <1>7, <2>3 DEF ReportsTheRuns
<1>8. ASSUME stage' = "done" PROVE Aggregated' /\ ReportsTheRuns'
  <2>1. Joined(r) \in 0..(2 * Limit + 1)
    <3>1. Limit \in Nat
      BY <1>4, Measured
    <3>2. r.stdout \in 0..Limit /\ r.stderr \in 0..Limit
      <4>1. CASE h.end = "absent"
        BY <3>1, <4>1 DEF Results
      <4>2. CASE h.end # "absent"
        BY <4>2 DEF Results
      <4>. QED
        BY <4>1, <4>2
    <3>. QED
      BY <3>1, <3>2 DEF Joined
  <2>2. Failure(r, "compilation_error") # "accepted"
    BY <1>4, FailureIs
  <2>3. /\ calls'[Len(calls')] = r
        /\ result' = FromSandbox(Failure(r, "compilation_error"), r, Joined(r))
    BY <1>2, <1>5, <1>8
  <2>. QED
    BY <1>3, <1>6, <1>8, <2>1, <2>2, <2>3, FailureReported DEF ReportInv, Aggregated
<1>. QED
  BY <1>2, <1>7, <1>8

\* A run.
LEMMA RunReported ==
    ReportInv /\ RunOnce => Aggregated' /\ ReportsTheRuns'
<1>. SUFFICES ASSUME ReportInv, RunOnce
              PROVE  Aggregated' /\ ReportsTheRuns'
  OBVIOUS
<1>1. PICK h \in Events : \E r \in Results(driver, h) : TakeRun(r)
  BY DEF RunOnce
<1>2. PICK r \in Results(driver, h) : TakeRun(r)
  BY <1>1
<1>3. /\ UNCHANGED <<driver, sub>> /\ EngineTypes /\ stage = "run"
      /\ Compilations \in {0, 1} /\ sub.judged \in BOOLEAN
      /\ aggregate.count \in Nat /\ Len(calls) = Compilations + aggregate.count
      /\ Aggregated
  BY RunCountType DEF RunOnce, ReportInv, EngineInv, UnderWay, EngineTypes, Submissions
<1>4. r \in CallResults /\ r.flags \in FlagSets
  BY <1>3, ResultsType DEF Events, EngineTypes, CallResults
<1>5. /\ calls \in Seq(CallResults) /\ calls' \in Seq(CallResults) /\ calls' # <<>>
      /\ Len(calls') = Len(calls) + 1 /\ calls'[Len(calls')] = r
      /\ \A i \in 1..Len(calls) : calls'[i] = calls[i]
  <2>1. calls' = Append(calls, r)
    BY <1>2 DEF TakeRun
  <2>. QED
    BY <1>3, <1>4, <2>1, Called DEF EngineTypes
<1> DEFINE R == Runs
           S == IF sub.compiled THEN Tail(calls') ELSE calls'
           k == Compilations
<1>6. /\ R \in Seq(CallResults) /\ Len(R) = Len(calls) - k
      /\ \A i \in 1..Len(R) : R[i] = calls[i + k]
  <2>1. CASE calls = <<>>
    <3>1. R = <<>> /\ Len(calls) = 0 /\ k = 0
      BY <1>3, <2>1 DEF Runs
    <3>. QED
      BY <3>1
  <2>2. CASE calls # <<>>
    <3>1. R = IF k = 1 THEN Tail(calls) ELSE calls
      BY <2>2 DEF Runs, Compilations
    <3>. HIDE DEF R, k
    <3>. QED
      BY <1>3, <1>5, <2>2, <3>1, RunsOf DEF k
  <2>. QED
    BY <2>1, <2>2
<1>7. /\ S \in Seq(CallResults) /\ Len(S) = Len(calls') - k
      /\ \A i \in 1..Len(S) : S[i] = calls'[i + k]
  <2>1. S = IF k = 1 THEN Tail(calls') ELSE calls'
    BY DEF Compilations
  <2>. HIDE DEF S, k
  <2>. QED
    BY <1>3, <1>5, <2>1, RunsOf DEF k
<1>8. (Runs)' = S
  BY <1>3, <1>5 DEF Runs
<1>9. CASE /\ RunFailure(r) = "none" /\ aggregate' = Add(aggregate, r)
           /\ UNCHANGED <<stage, result>>
  <2> HIDE DEF R, S, k
  <2>0. /\ Len(R) \in Nat /\ Len(calls) \in Nat /\ k \in {0, 1}
        /\ Len(R) = Len(calls) - k /\ Len(S) = Len(calls') - k
    BY <1>3, <1>5, <1>6, <1>7 DEF k
  <2>1. Len(R) = aggregate.count /\ Len(S) = Len(R) + 1
    BY <1>3, <1>5, <2>0 DEF k
  <2>2. \A i \in 1..Len(R) : S[i] = R[i]
    <3>1. \A i \in 1..Len(R) : i \in 1..Len(S) /\ i + k \in 1..Len(calls)
      BY <1>5, <2>0, <2>1
    <3>. QED
      BY <1>5, <1>6, <1>7, <3>1
  <2>3. S[Len(R) + 1] = r
    <3>1. Len(R) + 1 \in 1..Len(S) /\ (Len(R) + 1) + k = Len(calls')
      BY <1>5, <2>0, <2>1
    <3>. QED
      BY <1>5, <1>7, <3>1
  <2>4. /\ aggregate.time = TimesOf(R)
        /\ aggregate.count = 0 => aggregate.memory = NotMeasured
        /\ aggregate.count > 0 => /\ aggregate.memory \in MemoriesOf(R)
                                  /\ \A m \in MemoriesOf(R) : m <= aggregate.memory
    BY <1>3 DEF Aggregated, R
  <2>5. /\ aggregate'.count = Len(S) /\ aggregate'.time = TimesOf(S)
        /\ aggregate'.stdout = r.stdout
        /\ aggregate'.memory \in MemoriesOf(S)
        /\ \A m \in MemoriesOf(S) : m <= aggregate'.memory
    BY <1>4, <1>6, <1>7, <1>9, <2>1, <2>2, <2>3, <2>4, AddAggregates
  <2>6. TimesOf(Runs)' = TimesOf(S) /\ MemoriesOf(Runs)' = MemoriesOf(S)
    BY <1>8 DEF TimesOf, MemoriesOf
  <2>7. Len(S) \in Nat /\ Len(S) # 0
    BY <1>6, <1>7, <2>1
  <2>8. aggregate' = [count |-> aggregate'.count, stdout |-> aggregate'.stdout,
                      time |-> aggregate'.time, memory |-> aggregate'.memory]
    BY <1>9 DEF Add
  <2>9. Aggregated'
    BY <1>5, <2>5, <2>6, <2>7, <2>8 DEF Aggregated
  <2>. QED
    BY <1>3, <1>9, <2>9 DEF ReportsTheRuns
<1>10. CASE /\ RunFailure(r) # "none" /\ stage' = "done"
            /\ result' = FromSandbox(RunFailure(r), r, 0) /\ UNCHANGED aggregate
  <2>1. RunFailure(r) # "accepted"
    BY <1>3, <1>4, RightIsNoFailure
  <2>2. 0 \in 0..(2 * Limit + 1)
    BY <1>4, Measured
  <2>3. ReportsTheRuns'
    BY <1>5, <1>10, <2>1, <2>2, FailureReported
  <2>. QED
    BY <1>3, <1>10, <2>3 DEF Aggregated
<1>. QED
  BY <1>2, <1>9, <1>10 DEF TakeRun

\* The steps that call no driver: the averages and the maximum are reported.
LEMMA OthersReport ==
    ReportInv /\ (Refuse \/ Prepare \/ Accept \/ UNCHANGED vars)
        => Aggregated' /\ ReportsTheRuns'
<1>. SUFFICES ASSUME ReportInv,
                     Refuse \/ Prepare \/ Accept \/ UNCHANGED vars
              PROVE  Aggregated' /\ ReportsTheRuns'
  OBVIOUS
<1>1. UNCHANGED <<sub, calls, aggregate>> /\ EngineTypes /\ Aggregated
  BY DEF Refuse, Prepare, Accept, vars, ReportInv, EngineInv
<1>2. (Runs)' = Runs
  BY <1>1 DEF Runs
<1>3. CASE Refuse
  <2>1. calls' = <<>> /\ stage' = "done"
    BY <1>1, <1>3 DEF Refuse, ReportInv, EngineInv, UnderWay
  <2>. QED
    BY <1>1, <2>1 DEF Aggregated, ReportsTheRuns
<1>4. CASE Prepare
  <2>1. /\ calls = <<>> /\ aggregate.count = 0 /\ stage' # "done"
        /\ aggregate.time = 0 /\ aggregate.memory = NotMeasured
    BY <1>1, <1>4 DEF Prepare, ReportInv, EngineInv, UnderWay, Aggregated
  <2>2. TimesOf(Runs)' = 0
    BY <1>1, <2>1, NoTime DEF Runs, TimesOf
  <2>. QED
    BY <1>1, <2>1, <2>2 DEF Aggregated, NotMeasured, ReportsTheRuns
<1>5. CASE Accept
  <2>1. /\ stage = "run" /\ stage' = "done" /\ aggregate.count = RunCount(sub)
        /\ aggregate.count \in Nat \ {0} /\ Compilations \in {0, 1}
        /\ Len(calls) = Compilations + aggregate.count
    BY <1>1, <1>5, RunCountType DEF Accept, ReportInv, EngineInv, UnderWay, EngineTypes
  <2>2. /\ result'.status = "accepted" /\ result'.stdout = aggregate.stdout
        /\ result'.time = aggregate.time \div aggregate.count
        /\ result'.memory = aggregate.memory /\ result'.compile = 0
    <3> DEFINE a == [aggregate EXCEPT !.time = aggregate.time \div aggregate.count]
    <3>1. /\ a.stdout = aggregate.stdout /\ a.memory = aggregate.memory
          /\ a.time = aggregate.time \div aggregate.count
      BY <1>1 DEF Aggregated
    <3>2. result' = FromSandbox("accepted", a, 0)
      BY <1>5 DEF Accept
    <3>. HIDE DEF a
    <3>. QED
      BY <3>1, <3>2 DEF FromSandbox
  <2>3. calls # <<>> /\ Len(Runs) = aggregate.count
    <3>1. calls # <<>>
      BY <1>1, <2>1 DEF EngineTypes
    <3>. QED
      BY <1>1, <2>1, <3>1, RunsAre
  <2>4. /\ aggregate.time = TimesOf(Runs)
        /\ aggregate.stdout = Last(calls).stdout
        /\ aggregate.memory = Max(MemoriesOf(Runs))
    <3>1. /\ aggregate.time = TimesOf(Runs) /\ aggregate.stdout = calls[Len(calls)].stdout
          /\ aggregate.memory \in MemoriesOf(Runs)
          /\ \A m \in MemoriesOf(Runs) : m <= aggregate.memory
      BY <1>1, <2>1 DEF Aggregated
    <3>2. MemoriesOf(Runs) \in SUBSET Int
      <4>1. /\ calls \in Seq(CallResults) /\ DOMAIN Runs = 1..Len(Runs)
            /\ \A i \in 1..Len(Runs) :
                  i + Compilations \in 1..Len(calls) /\ Runs[i] = calls[i + Compilations]
        BY <1>1, <2>1, <2>3, RunsAre DEF EngineTypes
      <4>2. \A i \in DOMAIN Runs : Runs[i] \in CallResults
        BY <4>1
      <4>. QED
        BY <4>2, Measured DEF MemoriesOf
    <3>3. Max(MemoriesOf(Runs)) = aggregate.memory
      BY <3>1, <3>2, MaxIs
    <3>. QED
      BY <3>1, <3>3, LastIs
  <2>. QED
    <3>1. Last(calls') = Last(calls) /\ calls' = calls
      BY <1>1
    <3>2. Limit \in Nat
      BY DriversAssumption
    <3>3. Aggregated'
      BY <1>1, <2>1 DEF Aggregated
    <3>4. TimesOf(Runs)' = TimesOf(Runs) /\ MemoriesOf(Runs)' = MemoriesOf(Runs)
      BY <1>2 DEF TimesOf, MemoriesOf
    <3>5. /\ result'.stdout = Last(calls').stdout
          /\ result'.time = TimesOf(Runs)' \div Len((Runs)')
          /\ result'.memory = Max(MemoriesOf(Runs)')
          /\ 0 <= 2 * Limit + 1
      BY <1>2, <2>2, <2>3, <2>4, <3>1, <3>2, <3>4
    <3>6. ReportsTheRuns'
      BY <2>2, <3>5 DEF ReportsTheRuns, TimesOf, MemoriesOf
    <3>. QED
      BY <3>3, <3>6
<1>6. CASE UNCHANGED vars
  <2>1. UNCHANGED <<stage, calls, aggregate, result>> /\ ReportsTheRuns
    BY <1>6 DEF vars, ReportInv
  <2>. QED
    BY <1>1, <1>2, <2>1 DEF Aggregated, ReportsTheRuns, TimesOf, MemoriesOf
<1>. QED
  BY <1>3, <1>4, <1>5, <1>6

\* The latest output, the average time and the maximum memory of the runs are
\* reported, or the call that failed.
THEOREM RunsAreReported == Spec => []ReportsTheRuns
<1>1. ReportInv /\ [Next]_vars => ReportInv'
  BY CompileStops, RunStops, OtherStops, CompileReported, RunReported, OthersReport
     DEF Next, ReportInv
<1>2. ReportInv => ReportsTheRuns
  BY DEF ReportInv
<1>. QED
  BY ReportInit, <1>1, <1>2, PTL DEF Spec

-----------------------------------------------------------------------------
(* The additional files *)

\* The path that an entry names, and what it is to be.
Path(i)   == Clean(archive[i].name)
IsFile(i) == archive[i].kind = "file"
IsDir(i)  == archive[i].kind = "dir"

\* The archive is read up to its end, if it is read at all.
ArchiveRead ==
    /\ count \in Nat /\ archive \in Seq(Entries)
    /\ Len(archive) <= count
    /\ archive # <<>> => count <= MaxEntries

\* What is written, and where.
Sizes   == [p \in DOMAIN files |-> files[p].size]
Written == SumFunction(Sizes)

DiskCounted ==
    /\ IsFiniteSet(DOMAIN files)
    /\ \A p \in DOMAIN files : files[p].size \in Nat
    /\ Cardinality(DOMAIN files) <= Len(archive) + 1
    /\ bytes \in 0..MaxBytes /\ Written <= MaxBytes + 1
    /\ outcome \in {"none", "ok"} => Written = bytes

-----------------------------------------------------------------------------

\* The source file is written before the archive is opened.
LEMMA SourceInit == FilesInit => SourceIntact
  BY DEF FilesInit, SourceIntact

\* No entry is written where there is something.
LEMMA SourceNext == SourceIntact /\ [FilesNext]_filesVars => SourceIntact'
<1>. SUFFICES ASSUME SourceIntact, [FilesNext]_filesVars PROVE SourceIntact'
  OBVIOUS
<1>1. CASE UNCHANGED filesVars
  BY <1>1 DEF filesVars, SourceIntact
<1>2. CASE RejectArchive \/ Finish
  BY <1>2 DEF RejectArchive, Finish, SourceIntact
<1>3. ASSUME NEW e \in Entries, Extract(e) PROVE SourceIntact'
  <2>1. CASE WriteFile(e)
    BY <2>1 DEF WriteFile, SourceIntact, Free
  <2>2. CASE ~WriteFile(e)
    <3>1. files' = files
      BY <1>3, <2>2 DEF Extract, RejectName, RejectDuplicate, RejectKind, MakeDir,
                        RejectFile
    <3>. QED
      BY <3>1 DEF SourceIntact
  <2>. QED
    BY <2>1, <2>2
<1>. QED
  BY <1>1, <1>2, <1>3 DEF FilesNext

\* Whatever an archive names, the source file stays the submission's.
THEOREM SourceStays == FilesSpec => []SourceIntact
  BY SourceInit, SourceNext, PTL DEF FilesSpec

\* An entry more is read.
LEMMA EntryRead ==
    ASSUME ArchiveRead, NEW e \in Entries, Read(e)
    PROVE  /\ Len(archive) \in Nat /\ Len(archive') = Len(archive) + 1
           /\ DOMAIN archive = 1..Len(archive) /\ DOMAIN archive' = 1..(Len(archive) + 1)
           /\ archive'[Len(archive) + 1] = e
           /\ \A i \in DOMAIN archive : archive'[i] = archive[i]
           /\ outcome = "none" /\ Len(archive) < count /\ ~(count > MaxEntries)
           /\ archive' \in Seq(Entries) /\ count' = count
<1>1. archive \in Seq(Entries) /\ archive' = Append(archive, e)
  BY DEF ArchiveRead, Read
<1>2. /\ archive' \in Seq(Entries) /\ Len(archive) \in Nat
      /\ Len(archive') = Len(archive) + 1 /\ archive'[Len(archive) + 1] = e
      /\ \A i \in 1..Len(archive) : archive'[i] = archive[i]
  BY <1>1, AppendProperties
<1>3. DOMAIN archive = 1..Len(archive) /\ DOMAIN archive' = 1..(Len(archive) + 1)
  BY <1>1, <1>2, LenProperties
<1>. QED
  BY <1>2, <1>3 DEF Read, TooMany

\* Every step that reads an entry reads one.
LEMMA ExtractReads == ASSUME NEW e, Extract(e) PROVE Read(e)
  BY DEF Extract, RejectName, RejectDuplicate, RejectKind, MakeDir, RejectFile,
         WriteFile, ReadNew

\* Nothing is read yet.
LEMMA ArchiveInit == FilesInit => ArchiveRead
<1>. SUFFICES ASSUME FilesInit PROVE ArchiveRead
  OBVIOUS
<1>1. archive = <<>> /\ count \in 0..(MaxEntries + 1) /\ MaxEntries \in Nat
  BY FilesAssumption DEF FilesInit
<1>. QED
  BY <1>1 DEF ArchiveRead

\* No step reads beyond the end, or an archive with too many entries.
LEMMA ArchiveNext ==
    ArchiveRead /\ [FilesNext]_filesVars => ArchiveRead'
<1>. SUFFICES ASSUME ArchiveRead, [FilesNext]_filesVars PROVE ArchiveRead'
  OBVIOUS
<1>1. CASE UNCHANGED <<count, archive>>
  BY <1>1 DEF ArchiveRead
<1>2. ASSUME NEW e \in Entries, Extract(e) PROVE ArchiveRead'
  <2>1. MaxEntries \in Nat /\ count \in Nat
    BY FilesAssumption DEF ArchiveRead
  <2>. QED
    BY <1>2, <2>1, ExtractReads, EntryRead DEF ArchiveRead
<1>. QED
  BY <1>1, <1>2 DEF FilesNext, filesVars, RejectArchive, Finish

-----------------------------------------------------------------------------

\* The source file is alone, and not counted.
LEMMA DiskInit == FilesInit => DiskCounted
<1>. SUFFICES ASSUME FilesInit PROVE DiskCounted
  OBVIOUS
<1>1. /\ DOMAIN files = {Source} /\ files[Source].size = 0 /\ archive = <<>> /\ bytes = 0
      /\ MaxBytes \in Nat
  BY FilesAssumption DEF FilesInit
<1>2. IsFiniteSet({Source}) /\ Cardinality({Source}) = 1 /\ {Source} \ {Source} = {}
  BY FS_Singleton
<1>3. Written = 0
  <2>1. DOMAIN Sizes = {Source} /\ Sizes[Source] = 0
    BY <1>1 DEF Sizes
  <2>2. SumFunctionOnSet(Sizes, {}) = 0
    BY FS_EmptySet, SumStep
  <2>3. SumFunctionOnSet(Sizes, {Source}) = Sizes[Source] + SumFunctionOnSet(Sizes, {})
    <3>. HIDE DEF Sizes
    <3>. QED
      BY <1>2, <2>1, SumTakesOut
  <2>. QED
    BY <2>1, <2>2, <2>3, SumsAre DEF Written
<1>. QED
  BY <1>1, <1>2, <1>3 DEF DiskCounted

\* Where nothing is written and nothing accepted.
LEMMA DiskKept ==
    ASSUME DiskCounted, ArchiveRead, UNCHANGED <<files, bytes>>,
           Len(archive') \in Nat, Len(archive') >= Len(archive),
           outcome' \in {"none", "ok"} => outcome \in {"none", "ok"}
    PROVE  DiskCounted'
<1>1. Written' = Written
  BY DEF Written, Sizes
<1>2. Cardinality(DOMAIN files) \in Nat
  BY FS_CardinalityType DEF DiskCounted
<1>3. Len(archive) \in Nat
  BY DEF ArchiveRead
<1>. QED
  BY <1>1, <1>2, <1>3 DEF DiskCounted

\* One more than what remains at most.
LEMMA ReadsAre ==
    ASSUME NEW size \in Nat, bytes \in 0..MaxBytes, MaxBytes \in Nat
    PROVE  /\ Reads(size) \in Nat
           /\ Reads(size) <= Remaining + 1
           /\ Reads(size) <= Remaining => Reads(size) = size
<1> DEFINE S == {size, Remaining + 1}
<1>1. Remaining \in Nat
  BY DEF Remaining
<1>2. PICK m \in S : \A x \in S : m <= x
  BY <1>1
<1>3. \A x \in S : (\A y \in S : x <= y) => x = m
  BY <1>1, <1>2
<1>4. Min(S) = m
  BY <1>2, <1>3 DEF Min
<1>. QED
  BY <1>1, <1>2, <1>4 DEF Reads

\* A file more is one more, and its size is added.
LEMMA DiskWritten ==
    ASSUME ArchiveRead, DiskCounted, NEW e \in Entries, WriteFile(e)
    PROVE  DiskCounted'
<1> DEFINE path == Clean(e.name)
<1>1. Read(e) /\ path \notin DOMAIN files
  BY DEF WriteFile, ReadNew, Free
<1>2. PICK written \in 0..Reads(e.size) :
          /\ files' = [p \in DOMAIN files \cup {path} |->
                          IF p = path THEN [size |-> written, entry |-> Len(archive) + 1]
                          ELSE files[p]]
          /\ \/ /\ outcome' = "failed"
                /\ UNCHANGED bytes
             \/ /\ outcome' = "too_large"
                /\ UNCHANGED bytes
             \/ /\ written = Reads(e.size) /\ written <= Remaining
                /\ bytes' = bytes + written
                /\ UNCHANGED outcome
  BY DEF WriteFile
<1>3. /\ bytes \in 0..MaxBytes /\ MaxBytes \in Nat /\ e.size \in Nat
      /\ IsFiniteSet(DOMAIN files) /\ \A p \in DOMAIN files : files[p].size \in Nat
      /\ Cardinality(DOMAIN files) <= Len(archive) + 1
      /\ Written <= MaxBytes + 1 /\ outcome = "none" /\ Written = bytes
      /\ Len(archive) \in Nat /\ Len(archive') = Len(archive) + 1
  BY <1>1, EntryRead, FilesAssumption DEF DiskCounted
<1>4. written \in Nat /\ written <= Remaining + 1 /\ Remaining = MaxBytes - bytes
  <2>1. Reads(e.size) \in Nat /\ Reads(e.size) <= Remaining + 1
    BY <1>3, ReadsAre
  <2>2. Remaining = MaxBytes - bytes
    BY DEF Remaining
  <2>3. written \in 0..Reads(e.size)
    OBVIOUS
  <2>. QED
    BY <1>3, <2>1, <2>2, <2>3
<1> HIDE DEF path
<1>5. /\ DOMAIN files' = DOMAIN files \cup {path} /\ files'[path].size = written
      /\ \A p \in DOMAIN files : files'[p] = files[p]
  BY <1>1, <1>2
<1>6. /\ IsFiniteSet(DOMAIN files') /\ Cardinality(DOMAIN files') = Cardinality(DOMAIN files) + 1
      /\ Cardinality(DOMAIN files) \in Nat
  BY <1>1, <1>3, <1>5, FS_AddElement, FS_CardinalityType
<1>7. \A p \in DOMAIN files' : files'[p].size \in Nat
  BY <1>3, <1>4, <1>5
<1>8. Written' = Written + written
  <2> DEFINE f == Sizes
             g == [p \in DOMAIN files' |-> files'[p].size]
             D == DOMAIN files
             G == DOMAIN files'
  <2>1. Written = SumFunctionOnSet(f, D) /\ Written' = SumFunctionOnSet(g, G)
    BY SumsAre DEF Written, Sizes
  <2>2. G \ {path} = D /\ path \in G
    BY <1>1, <1>5
  <2>3. /\ \A p \in G : g[p] \in Int
        /\ \A p \in D : f[p] \in Int /\ g[p] = f[p]
        /\ g[path] = written
    BY <1>3, <1>5, <1>7 DEF Sizes
  <2>4. IsFiniteSet(G) /\ IsFiniteSet(D)
    BY <1>3, <1>6
  <2> HIDE DEF f, g, D, G
  <2>5. SumFunctionOnSet(g, G) = g[path] + SumFunctionOnSet(g, D)
    BY <2>2, <2>3, <2>4, SumTakesOut
  <2>6. SumFunctionOnSet(g, D) = SumFunctionOnSet(f, D)
    BY <2>3, <2>4, SumSame
  <2>7. SumFunctionOnSet(f, D) \in Int
    BY <2>3, <2>4, SumStep
  <2>. QED
    BY <1>4, <2>1, <2>3, <2>5, <2>6, <2>7
<1>. QED
  BY <1>2, <1>3, <1>4, <1>6, <1>7, <1>8 DEF DiskCounted

\* Only a file that is written counts.
LEMMA DiskNext ==
    ArchiveRead /\ DiskCounted /\ [FilesNext]_filesVars => DiskCounted'
<1>. SUFFICES ASSUME ArchiveRead, DiskCounted, [FilesNext]_filesVars
              PROVE  DiskCounted'
  OBVIOUS
<1>0. Len(archive) \in Nat
  BY DEF ArchiveRead
<1>1. CASE UNCHANGED filesVars
  BY <1>0, <1>1, DiskKept DEF filesVars
<1>2. CASE RejectArchive \/ Finish
  BY <1>0, <1>2, DiskKept DEF RejectArchive, Finish
<1>3. ASSUME NEW e \in Entries, Extract(e) PROVE DiskCounted'
  <2>1. CASE WriteFile(e)
    BY <2>1, DiskWritten
  <2>2. CASE ~WriteFile(e)
    <3>1. UNCHANGED <<files, bytes>>
      BY <1>3, <2>2 DEF Extract, RejectName, RejectDuplicate, RejectKind, MakeDir,
                        RejectFile
    <3>2. Len(archive') = Len(archive) + 1 /\ outcome = "none"
      BY <1>3, ExtractReads, EntryRead
    <3>. QED
      BY <1>0, <3>1, <3>2, DiskKept
  <2>. QED
    BY <2>1, <2>2
<1>. QED
  BY <1>1, <1>2, <1>3 DEF FilesNext

\* The limits bound the bytes written, up to the one by which the excess is noticed,
\* and the number of files (extractZipFile, extractAdditionalFiles).
THEOREM DiskIsBounded == FilesSpec => []DiskBounded
<1>1. FilesInit => ArchiveRead /\ DiskCounted
  BY ArchiveInit, DiskInit
<1>2. ArchiveRead /\ DiskCounted /\ [FilesNext]_filesVars => (ArchiveRead /\ DiskCounted)'
  BY ArchiveNext, DiskNext
<1>3. ArchiveRead /\ DiskCounted => DiskBounded
  <2>. SUFFICES ASSUME ArchiveRead, DiskCounted PROVE DiskBounded
    OBVIOUS
  <2>1. Cardinality(DOMAIN files) <= MaxEntries + 1
    <3>1. Len(archive) \in Nat /\ MaxEntries \in Nat /\ Cardinality(DOMAIN files) \in Nat
      BY FS_CardinalityType, FilesAssumption DEF ArchiveRead, DiskCounted
    <3>2. Len(archive) <= MaxEntries
      <4>1. CASE archive = <<>>
        BY <3>1, <4>1
      <4>2. CASE archive # <<>>
        BY <3>1, <4>2 DEF ArchiveRead
      <4>. QED
        BY <4>1, <4>2
    <3>. QED
      BY <3>1, <3>2 DEF DiskCounted
  <2>. QED
    BY <2>1 DEF DiskCounted, DiskBounded, Written, Sizes
<1>. QED
  BY <1>1, <1>2, <1>3, PTL DEF FilesSpec

-----------------------------------------------------------------------------

\* While nothing is rejected: the entries read are proper and their paths
\* differ; what is on the disk is what they name and what is above it; and no
\* path is a file and a directory.
Tree ==
    /\ \A i \in DOMAIN archive : ~Unsafe(archive[i]) /\ (IsFile(i) \/ IsDir(i))
    /\ seen = {Path(i) : i \in DOMAIN archive}
    /\ \A i, j \in DOMAIN archive : i # j => Path(i) # Path(j)
    /\ dirs \cap DOMAIN files = {}

FilesNamed ==
    /\ \A i \in DOMAIN archive : IsFile(i) =>
          /\ Path(i) \in DOMAIN files /\ Path(i) # Source
          /\ files[Path(i)] = [size |-> archive[i].size, entry |-> i]
    /\ \A p \in DOMAIN files :
          /\ p = Source \/ \E i \in DOMAIN archive : IsFile(i) /\ p = Path(i)
          /\ files[p].entry \in {0} \cup DOMAIN archive

DirsNamed ==
    /\ \A i \in DOMAIN archive :
          Above(Path(i)) \subseteq dirs /\ (IsDir(i) => Path(i) \in dirs)
    /\ \A d \in dirs : \E i \in DOMAIN archive : d = Path(i) \/ d \in Above(Path(i))

Extracted == outcome \in {"none", "ok"} => Tree /\ FilesNamed /\ DirsNamed

\* What is rejected for its names is improper.
Rejected == outcome \in {"unsafe", "duplicate", "kind", "conflict"} => Improper

\* What the judgement of an entry rests on.
JudgeInv == ArchiveRead /\ SourceIntact /\ Extracted /\ Rejected

\* A path is not above itself.
LEMMA AboveIsOther == ASSUME NEW p PROVE p \notin Above(p)
<1>. SUFFICES ASSUME NEW k \in 1..(Len(p) - 1), p = SubSeq(p, 1, k) PROVE FALSE
  BY DEF Above
<1>1. k \in Nat /\ 1 <= k /\ 1 \in Int /\ k \in Int
  OBVIOUS
<1>2. Len(SubSeq(p, 1, k)) = k
  <2>1. \A i \in 1..k : p[i] \in {p[j] : j \in 1..k}
    OBVIOUS
  <2>2. Len(SubSeq(p, 1, k)) = IF 1 <= k THEN k - 1 + 1 ELSE 0
    BY <1>1, <2>1, SubSeqProperties
  <2>. QED
    BY <1>1, <2>2
<1>3. Len(p) = k
  BY <1>2
<1>. QED
  BY <1>1, <1>3

\* ... and nothing is above the source file, which lies in the working directory.
LEMMA NoneAboveSource == Above(Source) = {}
<1>1. Len(Source) = 1
  BY FilesAssumption
<1>. QED
  BY <1>1 DEF Above

\* No entry is read, and the source file is the only one.
LEMMA JudgeInit == FilesInit => Extracted /\ Rejected
<1>. SUFFICES ASSUME FilesInit PROVE Extracted /\ Rejected
  OBVIOUS
<1>1. /\ DOMAIN archive = {} /\ DOMAIN files = {Source} /\ files[Source].entry = 0
      /\ dirs = {} /\ seen = {} /\ outcome = "none"
  BY DEF FilesInit
<1>. QED
  BY <1>1 DEF Extracted, Rejected, Tree, FilesNamed, DirsNamed

\* What the entries are after one more was read.
LEMMA EntryNamed ==
    ASSUME ArchiveRead, NEW e \in Entries, Read(e), NEW n, n = Len(archive)
    PROVE  /\ n \in Nat /\ n + 1 \notin DOMAIN archive
           /\ DOMAIN archive' = DOMAIN archive \cup {n + 1}
           /\ archive'[n + 1] = e
           /\ Path(n + 1)' = Clean(e.name)
           /\ IsFile(n + 1)' <=> e.kind = "file"
           /\ IsDir(n + 1)' <=> e.kind = "dir"
           /\ \A i \in DOMAIN archive :
                 /\ archive'[i] = archive[i] /\ Path(i)' = Path(i)
                 /\ IsFile(i)' <=> IsFile(i)
                 /\ IsDir(i)' <=> IsDir(i)
<1>1. /\ n \in Nat /\ DOMAIN archive = 1..n /\ DOMAIN archive' = 1..(n + 1)
      /\ archive'[n + 1] = e /\ \A i \in DOMAIN archive : archive'[i] = archive[i]
  BY EntryRead
<1>2. DOMAIN archive' = DOMAIN archive \cup {n + 1} /\ n + 1 \notin DOMAIN archive
  BY <1>1
<1>. QED
  BY <1>1, <1>2 DEF Path, IsFile, IsDir

\* The entries stay proper.
LEMMA TreeGrows ==
    ASSUME ArchiveRead, Tree, NEW e \in Entries, ReadNew(e), e.kind \in {"file", "dir"},
           dirs' \cap DOMAIN files' = {}
    PROVE  Tree'
<1>1. Read(e) /\ ~Unsafe(e) /\ Clean(e.name) \notin seen /\ seen' = seen \cup {Clean(e.name)}
  BY DEF ReadNew, Seen
<1>2. PICK n : n = Len(archive)
  OBVIOUS
<1>3. /\ n + 1 \notin DOMAIN archive
      /\ DOMAIN archive' = DOMAIN archive \cup {n + 1} /\ archive'[n + 1] = e
      /\ Path(n + 1)' = Clean(e.name)
      /\ IsFile(n + 1)' \/ IsDir(n + 1)'
      /\ \A i \in DOMAIN archive :
            /\ archive'[i] = archive[i] /\ Path(i)' = Path(i)
            /\ IsFile(i)' <=> IsFile(i)
            /\ IsDir(i)' <=> IsDir(i)
  BY <1>1, <1>2, EntryNamed
<1>4. \A i \in DOMAIN archive' : ~Unsafe(archive'[i]) /\ (IsFile(i)' \/ IsDir(i)')
  BY <1>1, <1>3 DEF Tree
<1>5. seen' = {Path(i)' : i \in DOMAIN archive'}
  <2>1. \A p \in seen : \E i \in DOMAIN archive' : p = Path(i)'
    BY <1>3 DEF Tree
  <2>2. \A i \in DOMAIN archive' : Path(i)' \in seen'
    BY <1>1, <1>3 DEF Tree
  <2>. QED
    BY <1>1, <1>3, <2>1, <2>2
<1>6. \A i, j \in DOMAIN archive' : i # j => Path(i)' # Path(j)'
  <2>1. \A i \in DOMAIN archive : Path(i)' # Path(n + 1)'
    BY <1>1, <1>3 DEF Tree
  <2>. QED
    BY <1>3, <2>1 DEF Tree
<1>. QED
  BY <1>4, <1>5, <1>6 DEF Tree

\* A directory is made.
LEMMA DirExtracted ==
    ASSUME JudgeInv, NEW e \in Entries, MakeDir(e), outcome' = outcome
    PROVE  Tree' /\ FilesNamed' /\ DirsNamed'
<1> DEFINE path == Clean(e.name)
           made == Above(path) \cup {path}
<1>1. /\ ReadNew(e) /\ Read(e) /\ e.kind = "dir" /\ outcome = "none"
      /\ dirs' = dirs \cup made /\ made \cap DOMAIN files = {} /\ files' = files
      /\ ArchiveRead /\ Tree /\ FilesNamed /\ DirsNamed
  BY DEF MakeDir, ReadNew, Read, Blocked, JudgeInv, Extracted
<1> HIDE DEF made
<1>2. PICK n : n = Len(archive)
  OBVIOUS
<1>3. /\ n + 1 \notin DOMAIN archive
      /\ DOMAIN archive' = DOMAIN archive \cup {n + 1}
      /\ Path(n + 1)' = path /\ ~IsFile(n + 1)' /\ IsDir(n + 1)'
      /\ \A i \in DOMAIN archive :
            /\ archive'[i] = archive[i] /\ Path(i)' = Path(i)
            /\ IsFile(i)' <=> IsFile(i)
            /\ IsDir(i)' <=> IsDir(i)
  BY <1>1, <1>2, EntryNamed
<1> HIDE DEF path
<1>4. Tree'
  <2>1. dirs' \cap DOMAIN files' = {}
    BY <1>1 DEF Tree
  <2>. QED
    BY <1>1, <2>1, TreeGrows
<1>5. FilesNamed'
  BY <1>1, <1>3 DEF FilesNamed
<1>6. DirsNamed'
  <2>1. made = Above(path) \cup {path}
    BY DEF made
  <2>2. ASSUME NEW i \in DOMAIN archive'
        PROVE  Above(Path(i)') \subseteq dirs' /\ (IsDir(i)' => Path(i)' \in dirs')
    BY <1>1, <1>3, <2>1 DEF DirsNamed
  <2>3. ASSUME NEW d \in dirs'
        PROVE  \E i \in DOMAIN archive' : d = Path(i)' \/ d \in Above(Path(i)')
    <3>1. CASE d \in dirs
      BY <1>1, <1>3, <3>1 DEF DirsNamed
    <3>2. CASE d \in made
      BY <1>3, <2>1, <3>2
    <3>. QED
      BY <1>1, <3>1, <3>2
  <2>. QED
    BY <2>2, <2>3 DEF DirsNamed
<1>. QED
  BY <1>4, <1>5, <1>6

\* A file is written completely.
LEMMA FileExtracted ==
    ASSUME DiskCounted, JudgeInv, NEW e \in Entries, WriteFile(e),
           outcome' = outcome
    PROVE  Tree' /\ FilesNamed' /\ DirsNamed'
<1> DEFINE path == Clean(e.name)
<1>1. /\ ReadNew(e) /\ Read(e) /\ e.kind = "file" /\ outcome = "none"
      /\ dirs' = dirs \cup Above(path) /\ Above(path) \cap DOMAIN files = {}
      /\ path \notin dirs /\ path \notin DOMAIN files
      /\ ArchiveRead /\ Tree /\ FilesNamed /\ DirsNamed
  BY DEF WriteFile, ReadNew, Read, Blocked, Free, JudgeInv, Extracted
<1>2. PICK n : n = Len(archive)
  OBVIOUS
<1>3. /\ n + 1 \notin DOMAIN archive
      /\ DOMAIN archive' = DOMAIN archive \cup {n + 1} /\ archive'[n + 1] = e
      /\ Path(n + 1)' = path /\ IsFile(n + 1)' /\ ~IsDir(n + 1)'
      /\ \A i \in DOMAIN archive :
            /\ archive'[i] = archive[i] /\ Path(i)' = Path(i)
            /\ IsFile(i)' <=> IsFile(i)
            /\ IsDir(i)' <=> IsDir(i)
  BY <1>1, <1>2, EntryNamed
<1>4. /\ DOMAIN files' = DOMAIN files \cup {path}
      /\ files'[path] = [size |-> e.size, entry |-> n + 1]
      /\ \A p \in DOMAIN files : files'[p] = files[p]
  <2>1. PICK written \in 0..Reads(e.size) :
          /\ files' = [p \in DOMAIN files \cup {path} |->
                          IF p = path THEN [size |-> written, entry |-> Len(archive) + 1]
                          ELSE files[p]]
          /\ written = Reads(e.size) /\ written <= Remaining
    BY <1>1 DEF WriteFile
  <2>2. e.size \in Nat /\ bytes \in 0..MaxBytes /\ MaxBytes \in Nat
    BY FilesAssumption DEF DiskCounted
  <2>3. written = e.size
    BY <2>1, <2>2, ReadsAre
  <2>. HIDE DEF path
  <2>. QED
    BY <1>1, <1>2, <2>1, <2>3
<1> HIDE DEF path
<1>5. dirs' \cap DOMAIN files' = {}
  <2>1. path \notin Above(path)
    BY AboveIsOther
  <2>. QED
    BY <1>1, <1>4, <2>1 DEF Tree
<1>6. Tree'
  BY <1>1, <1>5, TreeGrows
<1>7. FilesNamed'
  <2>1. Source \in DOMAIN files
    BY DEF JudgeInv, SourceIntact
  <2>2. ASSUME NEW i \in DOMAIN archive', IsFile(i)'
        PROVE  /\ Path(i)' \in DOMAIN files' /\ Path(i)' # Source
               /\ files'[Path(i)'] = [size |-> archive'[i].size, entry |-> i]
    BY <1>1, <1>3, <1>4, <2>1, <2>2 DEF FilesNamed
  <2>3. ASSUME NEW p \in DOMAIN files'
        PROVE  /\ p = Source \/ \E i \in DOMAIN archive' : IsFile(i)' /\ p = Path(i)'
               /\ files'[p].entry \in {0} \cup DOMAIN archive'
    <3>1. CASE p \in DOMAIN files
      BY <1>1, <1>3, <1>4, <3>1 DEF FilesNamed
    <3>2. CASE p = path
      BY <1>3, <1>4, <3>2
    <3>. QED
      BY <1>4, <3>1, <3>2
  <2>. QED
    BY <2>2, <2>3 DEF FilesNamed
<1>8. DirsNamed'
  <2>1. ASSUME NEW i \in DOMAIN archive'
        PROVE  Above(Path(i)') \subseteq dirs' /\ (IsDir(i)' => Path(i)' \in dirs')
    BY <1>1, <1>3 DEF DirsNamed
  <2>2. ASSUME NEW d \in dirs'
        PROVE  \E i \in DOMAIN archive' : d = Path(i)' \/ d \in Above(Path(i)')
    BY <1>1, <1>3 DEF DirsNamed
  <2>. QED
    BY <2>1, <2>2 DEF DirsNamed
<1>. QED
  BY <1>6, <1>7, <1>8

\* Something on the disk that an entry meets was put there by another one, or
\* is the source file.
LEMMA FilesAreOf ==
    ASSUME Tree, FilesNamed, NEW p \in DOMAIN files
    PROVE  p = Source \/ \E i \in DOMAIN archive : p = Path(i) /\ IsFile(i)
  BY DEF FilesNamed

\* The entries of an archive that is rejected for the last of them.
LEMMA ClashIsImproper ==
    ASSUME ArchiveRead, NEW e \in Entries, Read(e), NEW path, path = Clean(e.name),
           NEW isFile \in BOOLEAN, isFile <=> e.kind = "file",
           \/ Clash(path, isFile, Source, TRUE)
           \/ \E i \in DOMAIN archive : Clash(path, isFile, Path(i), IsFile(i))
    PROVE  Improper'
<1>1. PICK n : n = Len(archive)
  OBVIOUS
<1>2. /\ n + 1 \notin DOMAIN archive
      /\ DOMAIN archive' = DOMAIN archive \cup {n + 1} /\ archive'[n + 1] = e
      /\ Path(n + 1)' = path /\ (IsFile(n + 1)' <=> isFile)
      /\ \A i \in DOMAIN archive :
            /\ archive'[i] = archive[i] /\ Path(i)' = Path(i)
            /\ IsFile(i)' <=> IsFile(i)
  BY <1>1, EntryNamed
<1>3. CASE Clash(path, isFile, Source, TRUE)
  <2>1. Clash(Path(n + 1)', IsFile(n + 1)', Source, TRUE)
    BY <1>2, <1>3 DEF Clash
  <2>. QED
    BY <1>2, <2>1 DEF Improper, Path, IsFile
<1>4. ASSUME NEW i \in DOMAIN archive, Clash(path, isFile, Path(i), IsFile(i))
      PROVE  Improper'
  <2>1. /\ Clash(Path(n + 1)', IsFile(n + 1)', Path(i)', IsFile(i)')
        /\ n + 1 \in DOMAIN archive' /\ i \in DOMAIN archive' /\ n + 1 # i
    BY <1>2, <1>4 DEF Clash
  <2>. QED
    BY <2>1 DEF Improper, Path, IsFile
<1>. QED
  BY <1>3, <1>4

\* What MkdirAll or O_EXCL meets, and what was seen, is a clash.
LEMMA ConflictIsImproper ==
    ASSUME JudgeInv, NEW e \in Entries, Read(e), NEW path, path = Clean(e.name),
           \/ path \in seen
           \/ Blocked(Above(path))
           \/ path \in DOMAIN files
           \/ e.kind = "file" /\ path \in dirs
    PROVE  Improper'
<1> DEFINE isFile == e.kind = "file"
<1>1. ArchiveRead /\ Tree /\ FilesNamed /\ DirsNamed
  BY DEF Read, JudgeInv, Extracted
<1>2. CASE path \in seen
  <2>1. \E i \in DOMAIN archive : path = Path(i)
    BY <1>1, <1>2 DEF Tree
  <2>. QED
    BY <1>1, <2>1, ClashIsImproper DEF Clash
<1>3. ASSUME NEW p \in DOMAIN files, p \in Above(path) \/ p = path
      PROVE  Improper'
  <2>1. CASE p = Source
    <3>1. Clash(path, isFile, Source, TRUE)
      BY <1>3, <2>1 DEF Clash
    <3>. QED
      BY <1>1, <3>1, ClashIsImproper
  <2>2. ASSUME NEW i \in DOMAIN archive, p = Path(i), IsFile(i) PROVE Improper'
    <3>1. Clash(path, isFile, Path(i), IsFile(i))
      BY <1>3, <2>2 DEF Clash
    <3>. QED
      BY <1>1, <3>1, ClashIsImproper
  <2>. QED
    BY <1>1, <2>1, <2>2, FilesAreOf
<1>4. CASE e.kind = "file" /\ path \in dirs
  <2>1. PICK i \in DOMAIN archive : path = Path(i) \/ path \in Above(Path(i))
    BY <1>1, <1>4 DEF DirsNamed
  <2>2. Clash(path, isFile, Path(i), IsFile(i))
    BY <1>4, <2>1 DEF Clash
  <2>. QED
    BY <1>1, <2>2, ClashIsImproper
<1>. QED
  BY <1>2, <1>3, <1>4 DEF Blocked

\* An entry of the wrong kind or with an unsafe name.
LEMMA EntryIsImproper ==
    ASSUME ArchiveRead, NEW e \in Entries, Read(e),
           Unsafe(e) \/ e.kind \in {"symlink", "other"}
    PROVE  Improper'
<1>1. \E i \in DOMAIN archive' : archive'[i] = e
  BY EntryRead
<1>. QED
  BY <1>1 DEF Improper

\* Every entry is extracted, or rejected for a reason, or neither.
LEMMA EntryJudged ==
    ASSUME DiskCounted, JudgeInv, NEW e \in Entries, Extract(e)
    PROVE  Extracted' /\ Rejected'
<1>1. Read(e) /\ outcome = "none" /\ ArchiveRead
  BY ExtractReads DEF Read, JudgeInv
<1> DEFINE path == Clean(e.name)
<1>2. CASE RejectName(e) \/ RejectKind(e)
  <2>1. Improper' /\ outcome' \notin {"none", "ok"}
    BY <1>1, <1>2, EntryIsImproper DEF RejectName, RejectKind
  <2>. QED
    BY <2>1 DEF Extracted, Rejected
<1>3. CASE RejectDuplicate(e)
  <2>1. Improper' /\ outcome' = "duplicate"
    BY <1>1, <1>3, ConflictIsImproper DEF RejectDuplicate, Seen
  <2>. QED
    BY <2>1 DEF Extracted, Rejected
<1>4. CASE MakeDir(e)
  <2>1. CASE outcome' = outcome
    BY <1>1, <1>4, <2>1, DirExtracted DEF Extracted, Rejected
  <2>2. CASE Blocked(Above(path) \cup {path}) /\ outcome' = "conflict"
    <3>1. Blocked(Above(path)) \/ path \in DOMAIN files
      BY <2>2 DEF Blocked
    <3>2. Improper'
      BY <1>1, <3>1, ConflictIsImproper
    <3>. QED
      BY <2>2, <3>2 DEF Extracted, Rejected
  <2>3. CASE outcome' = "failed"
    BY <2>3 DEF Extracted, Rejected
  <2>. QED
    BY <1>4, <2>1, <2>2, <2>3 DEF MakeDir
<1>5. CASE RejectFile(e)
  <2>1. CASE outcome' = "conflict"
    <3>1. Blocked(Above(path)) \/ ~Free(path)
      BY <1>5, <2>1 DEF RejectFile
    <3>2. Improper'
      BY <1>1, <1>5, <3>1, ConflictIsImproper DEF RejectFile, Free
    <3>. QED
      BY <2>1, <3>2 DEF Extracted, Rejected
  <2>2. CASE outcome' \in {"too_large", "failed"}
    BY <2>2 DEF Extracted, Rejected
  <2>. QED
    BY <1>5, <2>1, <2>2 DEF RejectFile
<1>6. CASE WriteFile(e)
  <2>1. CASE outcome' = outcome
    BY <1>1, <1>6, <2>1, FileExtracted DEF Extracted, Rejected
  <2>2. CASE outcome' \in {"too_large", "failed"}
    BY <2>2 DEF Extracted, Rejected
  <2>. QED
    BY <1>6, <2>1, <2>2 DEF WriteFile
<1>. QED
  BY <1>2, <1>3, <1>4, <1>5, <1>6 DEF Extract

\* Every step keeps what is extracted and rejects only what is improper.
LEMMA JudgeNext ==
    DiskCounted /\ JudgeInv /\ [FilesNext]_filesVars => Extracted' /\ Rejected'
<1>. SUFFICES ASSUME DiskCounted, JudgeInv, [FilesNext]_filesVars
              PROVE  Extracted' /\ Rejected'
  OBVIOUS
<1>1. ASSUME UNCHANGED <<archive, files, dirs, seen>>,
             \/ outcome' = outcome
             \/ outcome = "none" /\ outcome' \in {"ok", "invalid", "too_many"}
      PROVE  Extracted' /\ Rejected'
  <2>1. Extracted'
    BY <1>1 DEF JudgeInv, Extracted, Tree, FilesNamed, DirsNamed, Path, IsFile, IsDir
  <2>2. Improper' <=> Improper
    BY <1>1 DEF Improper
  <2>. QED
    BY <1>1, <2>1, <2>2 DEF JudgeInv, Rejected
<1>2. CASE UNCHANGED filesVars
  BY <1>1, <1>2 DEF filesVars
<1>3. CASE RejectArchive \/ Finish
  BY <1>1, <1>3 DEF RejectArchive, Finish
<1>4. ASSUME NEW e \in Entries, Extract(e) PROVE Extracted' /\ Rejected'
  BY <1>4, EntryJudged
<1>. QED
  BY <1>2, <1>3, <1>4 DEF FilesNext

\* Together they are inductive.
FilesInv == DiskCounted /\ JudgeInv

\* The inductive invariant of the extraction holds in every reachable state.
THEOREM FilesInvariance == FilesSpec => []FilesInv
<1>1. FilesInit => FilesInv
  BY ArchiveInit, DiskInit, SourceInit, JudgeInit DEF FilesInv, JudgeInv
<1>2. FilesInv /\ [FilesNext]_filesVars => FilesInv'
  BY ArchiveNext, DiskNext, SourceNext, JudgeNext DEF FilesInv, JudgeInv
<1>. QED
  BY <1>1, <1>2, PTL DEF FilesSpec

\* An accepted archive is on the disk completely, and nothing else is.
THEOREM AcceptedIsWhole == FilesSpec => []ExtractedWhole
<1>1. FilesInv => ExtractedWhole
  <2>. SUFFICES ASSUME FilesInv, outcome = "ok" PROVE ExtractedWhole
    BY DEF ExtractedWhole
  <2>1. Tree /\ FilesNamed /\ DirsNamed
    BY DEF FilesInv, JudgeInv, Extracted
  <2>. QED
    BY <2>1 DEF ExtractedWhole, Tree, FilesNamed, DirsNamed, Path, IsFile, IsDir
<1>. QED
  BY FilesInvariance, <1>1, PTL

\* Whether names are accepted depends on the entries and not on their order.
THEOREM ArchiveJudgedAsAWhole == FilesSpec => []JudgedAsAWhole
<1>1. FilesInv => JudgedAsAWhole
  <2>. SUFFICES ASSUME FilesInv PROVE JudgedAsAWhole
    OBVIOUS
  <2>1. ASSUME outcome = "ok" PROVE ~Improper
    <3>1. Tree /\ FilesNamed /\ DirsNamed /\ Source \in DOMAIN files
      BY <2>1 DEF FilesInv, JudgeInv, Extracted, SourceIntact
    <3>2. ASSUME NEW i \in DOMAIN archive
          PROVE  ~Unsafe(archive[i]) /\ archive[i].kind \notin {"symlink", "other"}
      BY <3>1 DEF Tree, IsFile, IsDir
    <3>3. ASSUME NEW i \in DOMAIN archive
          PROVE  ~Clash(Path(i), IsFile(i), Source, TRUE)
      <4>1. Source \notin dirs
        BY <3>1 DEF Tree
      <4>2. Path(i) # Source
        BY <3>1, <4>1 DEF Tree, FilesNamed, DirsNamed
      <4>3. Source \notin Above(Path(i))
        BY <3>1, <4>1 DEF DirsNamed
      <4>. QED
        BY <4>2, <4>3, NoneAboveSource DEF Clash
    <3>4. ASSUME NEW i \in DOMAIN archive, NEW j \in DOMAIN archive, i # j
          PROVE  ~Clash(Path(i), IsFile(i), Path(j), IsFile(j))
      <4>1. Path(i) # Path(j)
        BY <3>1, <3>4 DEF Tree
      <4>2. /\ IsFile(i) => Path(i) \notin dirs
            /\ IsFile(j) => Path(j) \notin dirs
        BY <3>1 DEF Tree, FilesNamed
      <4>3. Above(Path(i)) \subseteq dirs /\ Above(Path(j)) \subseteq dirs
        BY <3>1 DEF DirsNamed
      <4>. QED
        BY <4>1, <4>2, <4>3 DEF Clash
    <3>. QED
      BY <3>2, <3>3, <3>4 DEF Improper, Path, IsFile
  <2>. QED
    BY <2>1 DEF FilesInv, JudgeInv, Rejected, JudgedAsAWhole
<1>. QED
  BY FilesInvariance, <1>1, PTL

=============================================================================
