------------------------------ MODULE WaitPoll ------------------------------
(***************************************************************************)
(* POST /submissions?wait=true: after Create the handler polls the row     *)
(* until it is terminal or the wait's context ends (its timeout, or the    *)
(* client's disconnect), while the workers of the process get on with the  *)
(* rows or do not: a worker that could not store a result leaves its row   *)
(* processing and takes the next one.                                      *)
(***************************************************************************)
EXTENDS Integers

CONSTANTS
    Clients,   \* each waits for a submission of its own
    DbErrors   \* TRUE if a read may fail though its context is alive

ASSUME WaitAssumption == DbErrors \in BOOLEAN

VARIABLES
    row,      \* status of each client's submission
    pc,       \* "poll", "select" or "answered"
    seen,     \* the status the loop read last, "none" before the first read
    expired,  \* the wait's context is done
    answer    \* the HTTP status and the submission's status in the answer

waitVars == <<row, pc, seen, expired, answer>>

Statuses == {"queued", "processing", "finished"}
NoAnswer == [code |-> 0, status |-> "none"]
Answers  == {NoAnswer} \cup [code : {201, 202}, status : Statuses]
                       \cup {[code |-> 500, status |-> "none"]}

\* Create has inserted and enqueued the submission.
WaitInit ==
    /\ row = [c \in Clients |-> "queued"]
    /\ pc = [c \in Clients |-> "poll"]
    /\ seen = [c \in Clients |-> "none"]
    /\ expired = [c \in Clients |-> FALSE]
    /\ answer = [c \in Clients |-> NoAnswer]

MarkProcessing(c) ==
    /\ row[c] = "queued"
    /\ row' = [row EXCEPT ![c] = "processing"]
    /\ UNCHANGED <<pc, seen, expired, answer>>

StoreResult(c) ==
    /\ row[c] = "processing"
    /\ row' = [row EXCEPT ![c] = "finished"]
    /\ UNCHANGED <<pc, seen, expired, answer>>

\* The timeout passes or the client goes away; under the request's context alone
\* nothing would have to end the wait, as in NoTimeout.
NoTimeout(c) == FALSE
Expire(c) ==
    /\ pc[c] # "answered"
    /\ ~expired[c]
    /\ expired' = [expired EXCEPT ![c] = TRUE]
    /\ UNCHANGED <<row, pc, seen, answer>>

Respond(c, code, status) ==
    /\ pc' = [pc EXCEPT ![c] = "answered"]
    /\ answer' = [answer EXCEPT ![c] = [code |-> code, status |-> status]]

\* FindByToken answers and WaitForCompletion looks at the status; a loop that
\* takes whatever is not queued for terminal has EndsWhenStarted.
EndsWhenStarted(status) == status # "queued"
Terminal(status)        == status = "finished"

PollRead(c) ==
    /\ pc[c] = "poll"
    /\ ~expired[c]
    /\ seen' = [seen EXCEPT ![c] = row[c]]
    /\ \/ Terminal(row[c]) /\ Respond(c, 201, row[c])
       \/ ~Terminal(row[c]) /\ pc' = [pc EXCEPT ![c] = "select"] /\ UNCHANGED answer
    /\ UNCHANGED <<row, expired>>

\* FindByToken fails because the context ended: WaitForCompletion returns no
\* submission, and the handler answers with the one Create returned.
PollExpired(c) ==
    /\ pc[c] = "poll"
    /\ expired[c]
    /\ Respond(c, 202, "queued")
    /\ UNCHANGED <<row, seen, expired>>

\* FindByToken fails for another reason.
PollFails(c) ==
    /\ pc[c] = "poll"
    /\ DbErrors
    /\ Respond(c, 500, "none")
    /\ UNCHANGED <<row, seen, expired>>

\* The select takes the ticker; when the context is done too it may still.
Tick(c) ==
    /\ pc[c] = "select"
    /\ pc' = [pc EXCEPT ![c] = "poll"]
    /\ UNCHANGED <<row, seen, expired, answer>>

\* The select takes ctx.Done: the submission read last goes into the answer.
SelectExpired(c) ==
    /\ pc[c] = "select"
    /\ expired[c]
    /\ Respond(c, 202, seen[c])
    /\ UNCHANGED <<row, seen, expired>>

Wait(c) == PollRead(c) \/ PollExpired(c) \/ PollFails(c) \/ Tick(c) \/ SelectExpired(c)

WaitNext ==
    \E c \in Clients :
        MarkProcessing(c) \/ StoreResult(c) \/ Expire(c) \/ Wait(c)

WaitSpec == WaitInit /\ [][WaitNext]_waitVars

\* The handler's goroutine runs, and the timeout passes.  Nothing is assumed of
\* the workers.
FairSpec ==
    /\ WaitSpec
    /\ \A c \in Clients : WF_waitVars(Expire(c)) /\ WF_waitVars(Wait(c))

-----------------------------------------------------------------------------

\* Every variable has its type: no answer other than a 500 lacks a submission
\* (waitForCreatedSubmission).
WaitTypeOK ==
    /\ row \in [Clients -> Statuses]
    /\ pc \in [Clients -> {"poll", "select", "answered"}]
    /\ seen \in [Clients -> {"none"} \cup Statuses]
    /\ expired \in [Clients -> BOOLEAN]
    /\ answer \in [Clients -> Answers]

\* An answer tells the truth about the past: 201 carries the stored result, 202
\* a status the row had and no result, and neither is ahead of the row
\* (submissions.go: waitForCreatedSubmission).
Rank(status) == CASE status = "queued" -> 1 [] status = "processing" -> 2
                  [] status = "finished" -> 3
AnswerTrue ==
    \A c \in Clients :
        /\ answer[c].code = 201 => answer[c].status = "finished" /\ row[c] = "finished"
        /\ answer[c].code = 202 =>
              answer[c].status # "finished" /\ Rank(answer[c].status) <= Rank(row[c])

\* Every wait is answered, whether or not a worker ever takes the submission.
WaitEnds == \A c \in Clients : <>(pc[c] = "answered")

=============================================================================
