------------------------ MODULE SubmissionContract -------------------------
(***************************************************************************)
(* What batasd promises of a submission, with no queue, worker, process or *)
(* fault in sight: it is persisted once, it may be begun and put back any  *)
(* number of times, it gets one result that stays, and after the result    *)
(* its receiver is told at most once.                                      *)
(***************************************************************************)
EXTENDS Naturals

CONSTANT Tokens

VARIABLES
    status,    \* "none", "queued", "processing" or "finished"
    notified   \* callbacks the receiver got

cvars == <<status, notified>>

Init ==
    /\ status = [t \in Tokens |-> "none"]
    /\ notified = [t \in Tokens |-> 0]

Advance(t, from, to) ==
    /\ status[t] = from
    /\ status' = [status EXCEPT ![t] = to]
    /\ UNCHANGED notified

Submit(t) == Advance(t, "none", "queued")
Begin(t)  == Advance(t, "queued", "processing")
Finish(t) == Advance(t, "processing", "finished")

\* What was begun and not finished is put back, all of it at once.
PutBack ==
    /\ status' = [t \in Tokens |->
                     IF status[t] = "processing" THEN "queued" ELSE status[t]]
    /\ UNCHANGED notified

Notify(t) ==
    /\ status[t] = "finished"
    /\ notified[t] = 0
    /\ notified' = [notified EXCEPT ![t] = 1]
    /\ UNCHANGED status

Next ==
    \/ PutBack
    \/ \E t \in Tokens : Submit(t) \/ Begin(t) \/ Finish(t) \/ Notify(t)

Spec == Init /\ [][Next]_cvars

=============================================================================
