-------------------------- MODULE LifecycleProofs --------------------------
(* Proofs about Lifecycle, for every number of tokens, workers, starts and  *)
(* faults, and every capacity.                                              *)
EXTENDS Lifecycle, DataLemmas

(***************************************************************************)
(* Where control is.  A worker holds a token exactly while it processes    *)
(* one; only a cancelled run can be aborted; tokens are recovered only in  *)
(* the requeue phase, and nobody holds a token before it.                  *)
(***************************************************************************)
WorkerControl ==
    /\ \A w \in Workers : wpc[w] \in Busy <=> wtok[w] # NoToken
    /\ \A w \in Workers : wpc[w] = "store" => wres[w] \in Results
    /\ \A w \in Workers : wres[w] = "aborted" => cancelled

MainControl ==
    /\ main # "requeue" => backlog = <<>>
    /\ main \in {"down", "recover"} =>
          /\ ch = <<>>
          /\ \A w \in Workers : wpc[w] \in Off
          /\ \A t \in Tokens : handler[t] \notin InFlight

IInv ==
    /\ TypeOK
    /\ WorkerControl
    /\ MainControl
    /\ SingleHolder
    /\ HolderAgrees
    /\ NoAbortedResult

-----------------------------------------------------------------------------
(* One lemma per group of actions: the invariant is inductive. *)

\* The program that was never started satisfies the invariant.
LEMMA InitEstablishes == Init => IInv
<1>. SUFFICES ASSUME Init PROVE IInv
  OBVIOUS
<1>. USE DEF Init
<1>0. <<>> \in Seq(Tokens) /\ Len(<<>>) <= Cap
  BY CapAssumption
<1>1. TypeOK
  BY <1>0 DEF TypeOK, MainStates, HandlerStates, Off, Busy
<1>2. WorkerControl /\ MainControl
  BY DEF WorkerControl, MainControl, Busy, Off, InFlight
<1>3. SingleHolder
  BY DEF SingleHolder, AtWorkers, Arriving, InFlight, Range, IsInjective
<1>4. HolderAgrees /\ NoAbortedResult
  BY DEF HolderAgrees, NoAbortedResult, Range
<1>. QED
  BY <1>1, <1>2, <1>3, <1>4 DEF IInv

\* The process may end at any moment: nobody holds anything, and the rows are
\* as they were or put back.
LEMMA ExitPreserves ==
    ASSUME IInv, Exit, row' = row \/ row' = Requeued,
           UNCHANGED <<createdAt, wants, attempts, posts>>
    PROVE  IInv'
<1>. USE DEF IInv, Exit
<1>0. <<>> \in Seq(Tokens) /\ Len(<<>>) <= Cap
  BY CapAssumption
<1>1. TypeOK'
  BY <1>0
  DEF TypeOK, MainStates, HandlerStates, Off, Busy, Requeued, Unfinished
<1>2. WorkerControl' /\ MainControl'
  BY DEF WorkerControl, MainControl, Busy, Off, InFlight
<1>3. SingleHolder'
  BY DEF SingleHolder, AtWorkers, Arriving, InFlight, Range, IsInjective
<1>4. HolderAgrees' /\ NoAbortedResult'
  BY DEF HolderAgrees, NoAbortedResult, Range, Requeued, Unfinished, TypeOK
<1>. QED
  BY <1>1, <1>2, <1>3, <1>4

\* A token that a worker processes is nowhere else.
LEMMA WorkerAlone ==
    ASSUME IInv, NEW w \in Workers, wpc[w] \in Busy
    PROVE  /\ wtok[w] \in Tokens
           /\ wtok[w] \notin Range(ch)
           /\ wtok[w] \notin Range(backlog)
           /\ handler[wtok[w]] \notin InFlight
           /\ \A v \in Workers \ {w} : wtok[v] # wtok[w]
<1>1. wtok[w] \in Tokens
  BY DEF IInv, TypeOK, WorkerControl
<1>2. wtok[w] \in AtWorkers
  BY <1>1, TokensAssumption DEF IInv, TypeOK, AtWorkers, Range
<1>. QED
  BY <1>1, <1>2, TokensAssumption DEF IInv, SingleHolder, Arriving

\* Moving on or letting go keeps every token in one place.
LEMMA HoldersShrink ==
    ASSUME IInv, TypeOK', UNCHANGED <<backlog, ch>>, Arriving' \subseteq Arriving,
           \A w \in Workers : wtok'[w] \in {wtok[w], NoToken}
    PROVE  SingleHolder'
<1>1. AtWorkers' \subseteq AtWorkers
  BY DEF AtWorkers, Range, IInv, TypeOK
<1>. QED
  BY <1>1 DEF IInv, SingleHolder, TypeOK

\* Starting the process keeps the invariant.
LEMMA StartPreserves == IInv /\ Start => IInv'
<1>. SUFFICES ASSUME IInv, Start PROVE IInv'
  OBVIOUS
<1>. USE DEF IInv, Start, rows
<1>1. TypeOK'
  BY DEF TypeOK, MainStates, Off
<1>2. WorkerControl' /\ MainControl'
  BY DEF WorkerControl, MainControl, Busy, Off, TypeOK
<1>3. SingleHolder'
  BY <1>1, HoldersShrink DEF TypeOK, Arriving
<1>4. HolderAgrees' /\ NoAbortedResult'
  BY DEF HolderAgrees, NoAbortedResult, TypeOK
<1>. QED
  BY <1>1, <1>2, <1>3, <1>4

\* Recovery lists every unfinished row once, and no other.
LEMMA RecoveredList ==
    ASSUME TypeOK, NEW q \in OldestFirst(Unfinisheds)
    PROVE  /\ q \in Seq(Tokens)
           /\ IsInjective(q)
           /\ Range(q) = Unfinisheds
<1>1. Unfinisheds \subseteq Tokens /\ IsFiniteSet(Unfinisheds)
  BY TokensAssumption, FS_Subset DEF Unfinisheds
<1>2. Cardinality(Unfinisheds) \in Nat
  BY <1>1, FS_CardinalityType
<1>3. q \in Bijection(1..Cardinality(Unfinisheds), Unfinisheds)
  BY DEF OldestFirst
<1>4. q \in [1..Cardinality(Unfinisheds) -> Unfinisheds]
  BY <1>3 DEF Bijection, Injection
<1>5. q \in Seq(Tokens)
  BY <1>1, <1>2, <1>4
<1>6. IsInjective(q)
  BY <1>3 DEF Bijection, Injection
<1>7. Range(q) = Unfinisheds
  BY <1>3, <1>4 DEF Bijection, Surjection, Range
<1>. QED
  BY <1>5, <1>6, <1>7

\* RecoverUnfinished keeps the invariant.
LEMMA RecoverPreserves == IInv /\ Recover => IInv'
<1>. SUFFICES ASSUME IInv, Recover PROVE IInv'
  OBVIOUS
<1>. USE DEF IInv, Recover, worker
<1>1. /\ backlog' \in Seq(Tokens)
      /\ IsInjective(backlog')
      /\ Range(backlog') = Unfinisheds
  BY RecoveredList
<1>2. TypeOK'
  BY <1>1 DEF TypeOK, MainStates, Requeued, Unfinished
<1>3. WorkerControl' /\ MainControl'
  BY DEF WorkerControl, MainControl
<1>4. ch = <<>> /\ AtWorkers = {} /\ Arriving = {}
  BY DEF MainControl, WorkerControl, AtWorkers, Arriving, Range, Busy, Off, TypeOK
<1>5. AtWorkers' = {} /\ Arriving' = {} /\ Range(ch') = {} /\ IsInjective(ch')
  BY <1>4 DEF AtWorkers, Arriving, Range, IsInjective
<1>6. SingleHolder'
  BY <1>1, <1>5 DEF SingleHolder
<1>7. HolderAgrees'
  <2>1. \A t \in Range(backlog)' \cup Range(ch)' : row'[t] = "queued"
    BY <1>1, <1>5 DEF Unfinisheds, Requeued
  <2>2. \A t \in Tokens : handler[t] = "none" => row'[t] = "none"
    BY DEF HolderAgrees, Requeued, Unfinished
  <2>3. \A t \in Tokens : handler[t] \notin InFlight
    BY DEF MainControl
  <2>4. \A w \in Workers : wpc[w] \in Off
    BY DEF MainControl
  <2>. QED
    BY <2>1, <2>2, <2>3, <2>4 DEF HolderAgrees, InFlight, Off
<1>8. NoAbortedResult'
  BY DEF NoAbortedResult, Requeued
<1>. QED
  BY <1>2, <1>3, <1>6, <1>7, <1>8

\* Passing a recovered token to the queue keeps the invariant.
LEMMA EnqueueRecoveredPreserves == IInv /\ EnqueueRecovered => IInv'
<1>. SUFFICES ASSUME IInv, EnqueueRecovered PROVE IInv'
  OBVIOUS
<1>. USE DEF IInv, EnqueueRecovered, rows, worker
<1>. DEFINE t == Head(backlog)
<1>1. backlog \in Seq(Tokens) /\ ch \in Seq(Tokens) /\ backlog # <<>>
  BY DEF TypeOK
<1>2. t \in Tokens /\ t \in Range(backlog) /\ t \notin Range(ch)
  BY <1>1, TailIsPop, PopElements DEF SingleHolder
<1>3. /\ IsInjective(backlog') /\ IsInjective(ch')
      /\ Range(backlog') = Range(backlog) \ {t}
      /\ Range(ch') = Range(ch) \cup {t}
  BY <1>1, <1>2, PushElements, PopElements DEF SingleHolder
<1>4. TypeOK'
  <2>1. ch' \in Seq(Tokens) /\ Len(ch') <= Cap
    BY <1>1, <1>2, AppendIsPush, CapAssumption DEF Room
  <2>2. backlog' \in Seq(Tokens)
    BY <1>1, TailIsPop
  <2>. QED
    BY <2>1, <2>2 DEF TypeOK
<1>5. WorkerControl' /\ MainControl'
  BY DEF WorkerControl, MainControl
<1>6. SingleHolder'
  BY <1>2, <1>3 DEF SingleHolder, AtWorkers, Arriving
<1>7. HolderAgrees' /\ NoAbortedResult'
  BY <1>2, <1>3 DEF HolderAgrees, NoAbortedResult
<1>. QED
  BY <1>4, <1>5, <1>6, <1>7

\* Actions that only move main() or cancel its context.
LEMMA PhasePreserves ==
    IInv /\ (Serve \/ Signal \/ BeginShutdown \/ ServerStopped) => IInv'
<1>. SUFFICES ASSUME IInv, Serve \/ Signal \/ BeginShutdown \/ ServerStopped
              PROVE  IInv'
  OBVIOUS
<1>. USE DEF IInv, Serve, Signal, BeginShutdown, ServerStopped, rows, worker
<1>1. TypeOK'
  BY DEF TypeOK, MainStates
<1>2. WorkerControl' /\ MainControl'
  BY DEF WorkerControl, MainControl, TypeOK
<1>3. SingleHolder'
  BY <1>1, HoldersShrink DEF TypeOK, Arriving
<1>4. HolderAgrees' /\ NoAbortedResult'
  BY DEF HolderAgrees, NoAbortedResult
<1>. QED
  BY <1>1, <1>2, <1>3, <1>4

\* Nobody holds a token that was not requested: it has no row.
LEMMA BeginPreserves == ASSUME NEW t \in Tokens PROVE IInv /\ Begin(t) => IInv'
<1>. SUFFICES ASSUME IInv, Begin(t) PROVE IInv'
  OBVIOUS
<1>. USE DEF IInv, Begin, Accepting, process, worker
<1>1. Cardinality(Begun) \in Nat
  BY TokensAssumption, FS_Subset, FS_CardinalityType DEF Begun
<1>2. TypeOK'
  BY <1>1 DEF TypeOK, HandlerStates
<1>3. WorkerControl' /\ MainControl'
  BY DEF WorkerControl, MainControl
<1>4. row[t] = "none"
  BY DEF HolderAgrees
<1>5. t \notin Range(ch) /\ t \notin Range(backlog)
  BY <1>4 DEF HolderAgrees
<1>6. t \notin AtWorkers
  <2>1. ASSUME NEW w \in Workers, wtok[w] = t PROVE FALSE
    BY <2>1, <1>4, TokensAssumption
    DEF WorkerControl, HolderAgrees, Busy, Results
  <2>. QED
    BY <2>1 DEF AtWorkers, Range, TypeOK
<1>7. Arriving' = Arriving \cup {t}
  BY DEF Arriving, InFlight, TypeOK
<1>8. SingleHolder'
  BY <1>5, <1>6, <1>7 DEF SingleHolder, AtWorkers
<1>9. HolderAgrees' /\ NoAbortedResult'
  BY <1>4 DEF HolderAgrees, NoAbortedResult, TypeOK
<1>. QED
  BY <1>2, <1>3, <1>8, <1>9

\* The row of a token whose request is in flight belongs to the handler alone.
LEMMA HandlerAlone ==
    ASSUME IInv, NEW t \in Arriving
    PROVE  t \notin Range(ch) /\ t \notin Range(backlog) /\ t \notin AtWorkers
  BY DEF IInv, SingleHolder

\* A request whose row is inserted or that fails keeps the invariant.
LEMMA InsertPreserves ==
    ASSUME NEW t \in Tokens
    PROVE  IInv /\ (Insert(t) \/ InsertFails(t) \/ EnqueueCancelled(t)) => IInv'
<1>. SUFFICES ASSUME IInv, Insert(t) \/ InsertFails(t) \/ EnqueueCancelled(t)
              PROVE  IInv'
  OBVIOUS
<1>. USE DEF IInv, Insert, InsertFails, EnqueueCancelled, rows, process, worker
<1>1. t \in Arriving
  BY DEF Arriving, InFlight
<1>2. t \notin Range(ch) /\ t \notin Range(backlog) /\ t \notin AtWorkers
  BY <1>1, HandlerAlone
<1>3. TypeOK'
  BY DEF TypeOK, HandlerStates, Unfinished
<1>4. WorkerControl' /\ MainControl'
  BY DEF WorkerControl, MainControl, InFlight, TypeOK
<1>5. SingleHolder'
  BY <1>1, <1>3, HoldersShrink DEF TypeOK, Arriving, InFlight
<1>6. \A w \in Workers : wpc[w] \in Busy => wtok[w] \in Tokens \ {t}
  BY <1>1, WorkerAlone DEF Arriving
<1>7. HolderAgrees'
  <2>1. row \in [Tokens -> {"none"} \cup Unfinished \cup Results]
    BY DEF TypeOK
  <2>2. \A u \in Tokens \ {t} : row'[u] = row[u] /\ handler'[u] = handler[u]
    BY <2>1 DEF TypeOK
  <2>3. \A u \in Range(backlog) \cup Range(ch) : u # t /\ u \in Tokens
    BY <1>2 DEF TypeOK, Range
  <2>4. \A u \in Range(backlog)' \cup Range(ch)' : row'[u] = "queued"
    BY <2>2, <2>3 DEF HolderAgrees
  <2>5. /\ handler'[t] \in {"none", "insert"} => row'[t] = "none"
        /\ handler'[t] = "enqueue" => row'[t] = "queued"
    BY <2>1 DEF TypeOK
  <2>6. \A w \in Workers : wpc[w] \in Busy => row'[wtok[w]] = row[wtok[w]]
    BY <1>6, <2>2
  <2>. QED
    BY <2>2, <2>4, <2>5, <2>6 DEF HolderAgrees, Busy
<1>8. NoAbortedResult'
  BY DEF NoAbortedResult, TypeOK
<1>. QED
  BY <1>3, <1>4, <1>5, <1>7, <1>8

\* Create passing its token to the queue keeps the invariant.
LEMMA EnqueuePreserves ==
    ASSUME NEW t \in Tokens PROVE IInv /\ Enqueue(t) => IInv'
<1>. SUFFICES ASSUME IInv, Enqueue(t) PROVE IInv'
  OBVIOUS
<1>. USE DEF IInv, Enqueue, Room, rows, process, worker
<1>1. t \in Arriving
  BY DEF Arriving, InFlight
<1>2. t \notin Range(ch) /\ t \notin Range(backlog) /\ t \notin AtWorkers
  BY <1>1, HandlerAlone
<1>3. ch \in Seq(Tokens)
  BY DEF TypeOK
<1>4. IsInjective(ch') /\ Range(ch') = Range(ch) \cup {t}
  BY <1>2, <1>3, PushElements DEF SingleHolder
<1>5. TypeOK'
  BY <1>3, AppendIsPush, CapAssumption DEF TypeOK, HandlerStates
<1>6. WorkerControl' /\ MainControl'
  BY <1>1 DEF WorkerControl, MainControl, Arriving
<1>7. Arriving' = Arriving \ {t}
  BY DEF Arriving, InFlight, TypeOK
<1>8. SingleHolder'
  BY <1>2, <1>4, <1>7 DEF SingleHolder, AtWorkers
<1>9. HolderAgrees' /\ NoAbortedResult'
  BY <1>4 DEF HolderAgrees, NoAbortedResult, TypeOK
<1>. QED
  BY <1>5, <1>6, <1>8, <1>9

\* A worker taking a token from the queue keeps the invariant.
LEMMA DequeuePreserves ==
    ASSUME NEW w \in Workers PROVE IInv /\ Dequeue(w) => IInv'
<1>. SUFFICES ASSUME IInv, Dequeue(w) PROVE IInv'
  OBVIOUS
<1>. USE DEF IInv, Dequeue, GoTo, rows, process
<1>. DEFINE t == Head(ch)
<1>1. ch \in Seq(Tokens) /\ ch # <<>>
  BY DEF TypeOK
<1>2. t \in Tokens /\ t \in Range(ch) /\ t # NoToken
  BY <1>1, TailIsPop, PopElements, TokensAssumption DEF SingleHolder
<1>3. /\ Len(ch') <= Cap /\ ch' \in Seq(Tokens)
      /\ IsInjective(ch') /\ Range(ch') = Range(ch) \ {t}
  <2>1. Len(ch') = Len(ch) - 1 /\ ch' \in Seq(Tokens)
    BY <1>1, TailIsPop
  <2>2. Len(ch') <= Cap
    BY <1>1, <2>1, CapAssumption DEF TypeOK
  <2>. QED
    BY <1>1, <2>1, <2>2, PopElements DEF SingleHolder
<1>4. TypeOK'
  BY <1>2, <1>3 DEF TypeOK, Busy
<1>5. WorkerControl' /\ MainControl'
  BY <1>1, <1>2 DEF WorkerControl, MainControl, Busy, TypeOK
<1>6. wtok[w] = NoToken
  BY DEF WorkerControl, Busy
<1>7. AtWorkers' = AtWorkers \cup {t}
  BY <1>2, <1>6 DEF AtWorkers, Range, TypeOK
<1>8. t \notin AtWorkers /\ t \notin Arriving /\ t \notin Range(backlog)
  BY <1>2 DEF SingleHolder
<1>9. \A u, v \in Workers : wtok'[u] = wtok'[v] /\ wtok'[u] # NoToken => u = v
  <2>1. \A v \in Workers : wtok[v] # t
    BY <1>2, <1>8 DEF AtWorkers, Range, TypeOK
  <2>. QED
    BY <2>1 DEF SingleHolder, TypeOK
<1>10. SingleHolder'
  BY <1>3, <1>7, <1>8, <1>9 DEF SingleHolder, Arriving
<1>11. HolderAgrees'
  <2>1. row[t] = "queued"
    BY <1>2 DEF HolderAgrees
  <2>2. \A u \in Range(backlog)' \cup Range(ch)' : row[u] = "queued"
    BY <1>3 DEF HolderAgrees
  <2>3. wtok'[w] = t /\ wpc'[w] = "fetch"
    BY DEF TypeOK
  <2>4. \A v \in Workers \ {w} : wtok'[v] = wtok[v] /\ wpc'[v] = wpc[v]
    BY DEF TypeOK
  <2>. QED
    BY <2>1, <2>2, <2>3, <2>4 DEF HolderAgrees
<1>12. NoAbortedResult'
  BY DEF NoAbortedResult
<1>. QED
  BY <1>4, <1>5, <1>10, <1>11, <1>12

\* What a worker's other steps do to its own state.
WorkerMoves(w) ==
    \/ wpc[w] = "idle" /\ cancelled /\ GoTo(w, "exited") /\ UNCHANGED <<wtok, wres>>
    \/ wpc[w] \in Busy /\ Return(w)
    \/ /\ \/ wpc[w] = "fetch" /\ GoTo(w, "mark")
          \/ wpc[w] = "mark" /\ GoTo(w, "run")
          \/ wpc[w] = "store" /\ GoTo(w, "post")
          \/ wpc[w] = "post" /\ GoTo(w, "record")
       /\ UNCHANGED <<wtok, wres>>
    \/ /\ wpc[w] = "run" /\ GoTo(w, "store")
       /\ \E res \in Results :
             (res = "aborted" => cancelled) /\ wres' = [wres EXCEPT ![w] = res]
       /\ UNCHANGED wtok

\* A worker that moves on with its token keeps the parts on control and holders.
LEMMA WorkerMovesPreserve ==
    ASSUME NEW w \in Workers, IInv, WorkerMoves(w), TypeOK',
           UNCHANGED <<process, ch, handler>>
    PROVE  WorkerControl' /\ MainControl' /\ SingleHolder'
<1>. USE DEF IInv, WorkerMoves, GoTo, Return, process
<1>1. WorkerControl'
  <2>1. /\ wpc \in [Workers -> Off \cup Busy]
        /\ wtok \in [Workers -> Tokens \cup {NoToken}]
        /\ wres \in [Workers -> Results \cup {"none"}]
    BY DEF TypeOK
  <2>2. \A v \in Workers \ {w} :
           wpc'[v] = wpc[v] /\ wtok'[v] = wtok[v] /\ wres'[v] = wres[v]
    BY <2>1
  <2>3. /\ wpc'[w] \in Busy <=> wtok'[w] # NoToken
        /\ wpc'[w] = "store" => wres'[w] \in Results
        /\ wres'[w] = "aborted" => cancelled
    BY <2>1 DEF WorkerControl, Busy, Results
  <2>. QED
    BY <2>2, <2>3 DEF WorkerControl
<1>2. MainControl'
  BY DEF MainControl, TypeOK, Busy, Off
<1>3. SingleHolder'
  BY HoldersShrink DEF TypeOK, Arriving
<1>. QED
  BY <1>1, <1>2, <1>3

\* Incrementing one of a family of counters.
LEMMA CountersStayNat ==
    ASSUME NEW f \in [Tokens -> Nat], NEW t
    PROVE  [f EXCEPT ![t] = @ + 1] \in [Tokens -> Nat]
<1>. DEFINE g == [f EXCEPT ![t] = @ + 1]
<1>1. g = [u \in Tokens |-> IF u = t THEN f[u] + 1 ELSE f[u]]
  OBVIOUS
<1>2. \A u \in Tokens : f[u] + 1 \in Nat /\ f[u] \in Nat
  OBVIOUS
<1>. QED
  BY <1>1, <1>2

\* Steps of a worker that leave the rows of submissions alone.
LEMMA QuietWorkerPreserves ==
    ASSUME NEW w \in Workers
    PROVE  IInv /\ (DequeueCancelled(w) \/ FindByToken(w) \/ RunEngine(w)
                     \/ Post(w) \/ Record(w))
             => IInv'
<1>. SUFFICES ASSUME IInv, DequeueCancelled(w) \/ FindByToken(w) \/ RunEngine(w)
                             \/ Post(w) \/ Record(w)
              PROVE  IInv'
  OBVIOUS
<1>. USE DEF IInv, DequeueCancelled, FindByToken, RunEngine, Post, Record, rows
<1>1. TypeOK'
  <2>1. attempts' \in [Tokens -> Nat] /\ posts' \in [Tokens -> Nat]
    <3>1. attempts \in [Tokens -> Nat] /\ posts \in [Tokens -> Nat]
      BY DEF TypeOK
    <3>2. \/ UNCHANGED attempts
          \/ attempts' = [attempts EXCEPT ![wtok[w]] = @ + 1]
      OBVIOUS
    <3>3. \/ UNCHANGED posts
          \/ posts' = [posts EXCEPT ![wtok[w]] = @ + 1]
      OBVIOUS
    <3>. QED
      BY <3>1, <3>2, <3>3, CountersStayNat
  <2>2. /\ wpc' \in [Workers -> Off \cup Busy]
        /\ wtok' \in [Workers -> Tokens \cup {NoToken}]
        /\ wres' \in [Workers -> Results \cup {"none"}]
    BY DEF TypeOK, GoTo, Return, Off, Busy
  <2>. QED
    BY <2>1, <2>2 DEF TypeOK, process
<1>2. WorkerMoves(w)
  BY DEF WorkerMoves, Busy
<1>3. WorkerControl' /\ MainControl' /\ SingleHolder'
  BY <1>1, <1>2, WorkerMovesPreserve
<1>4. /\ row' = row /\ handler' = handler
      /\ Range(backlog)' = Range(backlog) /\ Range(ch)' = Range(ch)
  BY DEF process
<1>5. HolderAgrees'
  BY <1>4 DEF HolderAgrees, GoTo, Return, TypeOK
<1>6. NoAbortedResult'
  BY <1>4 DEF NoAbortedResult
<1>. QED
  BY <1>1, <1>3, <1>5, <1>6

\* MarkProcessing and StoreResult write the row of the worker's token, which
\* nobody else holds.
LEMMA WritingWorkerPreserves ==
    ASSUME NEW w \in Workers
    PROVE  IInv /\ (MarkProcessing(w) \/ StoreResult(w)) => IInv'
<1>. SUFFICES ASSUME IInv, MarkProcessing(w) \/ StoreResult(w) PROVE IInv'
  OBVIOUS
<1>. USE DEF IInv, MarkProcessing, StoreResult, NotStored, Deliver
<1>. DEFINE t == wtok[w]
<1>1. /\ wpc[w] \in Busy /\ t \in Tokens
      /\ t \notin Range(ch) /\ t \notin Range(backlog)
      /\ handler[t] \notin InFlight
      /\ \A v \in Workers \ {w} : wtok[v] # t
  BY WorkerAlone DEF Busy
<1>2. wpc[w] = "store" => wres[w] \in Results /\ (~cancelled => wres[w] = "verdict")
  BY DEF WorkerControl, Results
<1>3. TypeOK'
  BY <1>1, <1>2 DEF TypeOK, process, GoTo, Return, Off, Busy, Unfinished
<1>4. WorkerMoves(w)
  BY DEF WorkerMoves, Busy
<1>5. WorkerControl' /\ MainControl' /\ SingleHolder'
  BY <1>3, <1>4, WorkerMovesPreserve
<1>6. /\ handler' = handler
      /\ Range(backlog)' = Range(backlog) /\ Range(ch)' = Range(ch)
  BY DEF process
<1>7. \A u \in Tokens \ {t} : row'[u] = row[u]
  BY DEF TypeOK
<1>8. HolderAgrees'
  <2>1. \A u \in Range(backlog)' \cup Range(ch)' : row'[u] = "queued"
    <3>1. \A u \in Range(backlog) \cup Range(ch) : u \in Tokens \ {t}
      BY <1>1 DEF TypeOK, Range
    <3>. QED
      BY <1>6, <1>7, <3>1 DEF HolderAgrees
  <2>2. \A u \in Tokens :
           /\ handler[u] \in {"none", "insert"} => row'[u] = "none"
           /\ handler[u] = "enqueue" => row'[u] = "queued"
    BY <1>1, <1>7 DEF HolderAgrees, InFlight, Results
  <2>3. \A v \in Workers \ {w} :
           wpc'[v] \in Busy => wpc'[v] = wpc[v] /\ wtok'[v] = wtok[v]
                                 /\ row'[wtok[v]] = row[wtok[v]]
    BY <1>1, <1>7, WorkerAlone DEF GoTo, Return, TypeOK, Busy
  <2>4. wpc'[w] \in {"idle", "run", "post"}
    BY DEF GoTo, Return, TypeOK
  <2>5. wpc'[w] = "run" => wtok'[w] = t /\ row'[t] = "processing"
    BY <1>1 DEF GoTo, Return, TypeOK
  <2>6. wpc'[w] = "post" => wtok'[w] = t /\ row'[t] \in Results
    BY <1>1, <1>2 DEF GoTo, Return, TypeOK
  <2>. QED
    BY <1>6, <2>1, <2>2, <2>3, <2>4, <2>5, <2>6 DEF HolderAgrees, Busy
<1>9. NoAbortedResult'
  BY <1>1, <1>2, <1>7 DEF NoAbortedResult, TypeOK, DbOk, DbLost
<1>. QED
  BY <1>3, <1>5, <1>8, <1>9

\* Nothing happening keeps the invariant.
LEMMA StutterPreserves == IInv /\ UNCHANGED vars => IInv'
<1>. SUFFICES ASSUME IInv, UNCHANGED vars PROVE IInv'
  OBVIOUS
<1>. USE DEF IInv, vars
<1>1. TypeOK' /\ WorkerControl' /\ MainControl'
  BY DEF TypeOK, WorkerControl, MainControl
<1>2. SingleHolder'
  BY <1>1, HoldersShrink DEF TypeOK, Arriving
<1>3. HolderAgrees' /\ NoAbortedResult'
  BY DEF HolderAgrees, NoAbortedResult
<1>. QED
  BY <1>1, <1>2, <1>3

\* Every step keeps the invariant.
LEMMA NextPreserves == IInv /\ [Next]_vars => IInv'
<1>. SUFFICES ASSUME IInv, [Next]_vars PROVE IInv'
  OBVIOUS
<1>1. CASE Start
  BY <1>1, StartPreserves
<1>2. CASE Recover
  BY <1>2, RecoverPreserves
<1>3. CASE EnqueueRecovered
  BY <1>3, EnqueueRecoveredPreserves
<1>4. CASE Serve \/ Signal \/ BeginShutdown \/ ServerStopped
  BY <1>4, PhasePreserves
<1>5. CASE RecoverFails
  BY <1>5, ExitPreserves DEF RecoverFails
<1>6. CASE RequeueCancelled \/ WorkersStopped \/ ShutdownTimeout \/ Crash
  BY <1>6, ExitPreserves
  DEF RequeueCancelled, WorkersStopped, ShutdownTimeout, Crash, rows
<1>7. ASSUME NEW t \in Tokens, Begin(t) \/ HandlerStep(t) PROVE IInv'
  BY <1>7, BeginPreserves, InsertPreserves, EnqueuePreserves DEF HandlerStep
<1>8. ASSUME NEW w \in Workers, WorkerStep(w) PROVE IInv'
  BY <1>8, DequeuePreserves, QuietWorkerPreserves, WritingWorkerPreserves
  DEF WorkerStep
<1>9. CASE UNCHANGED vars
  BY <1>9, StutterPreserves
<1>. QED
  BY <1>1, <1>2, <1>3, <1>4, <1>5, <1>6, <1>7, <1>8, <1>9 DEF Next, MainStep

-----------------------------------------------------------------------------
(* The invariants of Lifecycle. *)

\* IInv holds in every reachable state.
THEOREM Invariance == Spec => []IInv
  BY InitEstablishes, NextPreserves, PTL DEF Spec

\* Every variable keeps its type and the channel its capacity.
THEOREM TypeCorrect == Spec => []TypeOK
<1>1. IInv => TypeOK
  BY DEF IInv
<1>. QED
  BY Invariance, <1>1, PTL

\* A token is in one place at a time: memory queue, main's list of recovered
\* tokens, one worker or its request's handler.
THEOREM OneHolder == Spec => []SingleHolder
<1>1. IInv => SingleHolder
  BY DEF IInv
<1>. QED
  BY Invariance, <1>1, PTL

\* The row agrees with what the holder of the token does, so the status check
\* of Worker.process passes whenever the row is read.
THEOREM RowsAgree == Spec => []HolderAgrees
<1>1. IInv => HolderAgrees
  BY DEF IInv
<1>. QED
  BY Invariance, <1>1, PTL

\* The result of a run that a cancelled context killed is never stored.
THEOREM KilledRunsAreNotResults == Spec => []NoAbortedResult
<1>1. IInv => NoAbortedResult
  BY DEF IInv
<1>. QED
  BY Invariance, <1>1, PTL

-----------------------------------------------------------------------------
(* The order of recovered submissions. *)

\* In q, what past processes left comes first and oldest first.
PastFirst(q) ==
    \A i, j \in DOMAIN q :
        i < j /\ handler[q[j]] = "past" =>
            handler[q[i]] = "past" /\ createdAt[q[i]] < createdAt[q[j]]

\* No request is taken before the server runs.
NoneYet ==
    main \in {"down", "recover", "requeue"} =>
        \A t \in Tokens : handler[t] \in {"none", "past"}

OrderInv == PastFirst(ch \o backlog) /\ NoneYet

\* RecoveredFirst is about the two queues in a row.
LEMMA OrderIsPastFirst == RecoveredFirst <=> PastFirst(ch \o backlog)
  BY DEF RecoveredFirst, PastFirst

\* The order stays while what waits and its handlers and times stay.
LEMMA OrderFrame ==
    ASSUME IInv, OrderInv, UNCHANGED <<ch, backlog>>, NoneYet',
           \A t \in Range(ch) \cup Range(backlog) :
               handler'[t] = handler[t] /\ createdAt'[t] = createdAt[t]
    PROVE  OrderInv'
<1> DEFINE q == ch \o backlog
<1>1. q \in Seq(Tokens)
  BY TwoQueues DEF IInv, TypeOK
<1>2. ASSUME NEW i \in DOMAIN q PROVE q[i] \in Range(ch) \cup Range(backlog)
  BY <1>1 DEF IInv, TypeOK, Range
<1>. HIDE DEF q
<1>3. \A i \in DOMAIN q : handler'[q[i]] = handler[q[i]] /\ createdAt'[q[i]] = createdAt[q[i]]
  BY <1>2
<1>4. q' = q /\ PastFirst(q)
  BY DEF q, OrderInv
<1>5. PastFirst(q)'
  BY <1>3, <1>4 DEF PastFirst
<1>. QED
  BY <1>5 DEF OrderInv, q

\* Nothing waits after the end of the process.
LEMMA OrderExit == ASSUME IInv, Exit PROVE OrderInv'
<1>1. (ch \o backlog)' = <<>>
  BY TwoQueues DEF Exit
<1>2. PastFirst(<<>>)'
  BY DEF PastFirst
<1>. QED
  BY <1>1, <1>2 DEF Exit, OrderInv, NoneYet, IInv, TypeOK

\* RecoverUnfinished lists what past processes left, oldest first.
LEMMA OrderRecover == IInv /\ OrderInv /\ Recover => OrderInv'
<1>. SUFFICES ASSUME IInv, OrderInv, Recover PROVE OrderInv'
  OBVIOUS
<1>1. /\ backlog' \in Seq(Tokens) /\ Range(backlog') = Unfinisheds
  BY RecoveredList DEF Recover, IInv
<1>2. ch' = <<>> /\ (ch \o backlog)' = backlog'
  BY <1>1, TwoQueues DEF Recover, IInv, MainControl, worker
<1>3. \A t \in Unfinisheds : handler[t] = "past"
  BY DEF Recover, OrderInv, NoneYet, IInv, HolderAgrees, Unfinisheds, Unfinished
<1>4. \A i \in DOMAIN backlog' : handler[backlog'[i]] = "past"
  BY <1>1, <1>3 DEF Range
<1>5. \A i, j \in DOMAIN backlog' : i < j => createdAt[backlog'[i]] < createdAt[backlog'[j]]
  BY DEF Recover, OldestFirst
<1>6. UNCHANGED <<handler, createdAt>> /\ NoneYet'
  BY DEF Recover, OrderInv, NoneYet
<1>7. PastFirst(ch \o backlog)'
  BY <1>2, <1>4, <1>5, <1>6 DEF PastFirst
<1>. QED
  BY <1>6, <1>7 DEF OrderInv

\* A recovered token that is passed on keeps its place in the two queues.
LEMMA OrderEnqueueRecovered == IInv /\ OrderInv /\ EnqueueRecovered => OrderInv'
<1>. SUFFICES ASSUME IInv, OrderInv, EnqueueRecovered PROVE OrderInv'
  OBVIOUS
<1>1. (ch \o backlog)' = ch \o backlog
  <2>1. ch \in Seq(Tokens) /\ backlog \in Seq(Tokens) /\ backlog # <<>>
    BY DEF EnqueueRecovered, IInv, TypeOK
  <2>2. ch' = Append(ch, Head(backlog)) /\ backlog' = Tail(backlog)
    BY DEF EnqueueRecovered
  <2>3. Append(ch, Head(backlog)) \o Tail(backlog) = ch \o backlog
    BY <2>1, TwoQueues
  <2>. QED
    BY <2>2, <2>3
<1>2. UNCHANGED <<handler, createdAt, main>>
  BY DEF EnqueueRecovered, rows
<1>. QED
  BY <1>1, <1>2 DEF OrderInv, PastFirst, NoneYet

\* A worker takes the first.
LEMMA OrderDequeue ==
    ASSUME NEW w \in Workers PROVE IInv /\ OrderInv /\ Dequeue(w) => OrderInv'
<1>. SUFFICES ASSUME IInv, OrderInv, Dequeue(w) PROVE OrderInv'
  OBVIOUS
<1>. DEFINE q == ch \o backlog
<1>1. ch \in Seq(Tokens) /\ backlog \in Seq(Tokens) /\ ch # <<>>
  BY DEF IInv, TypeOK, Dequeue
<1>2. q \in Seq(Tokens) /\ q # <<>> /\ q' = Tail(q)
  BY <1>1, TwoQueues DEF Dequeue, process
<1>3. UNCHANGED <<handler, createdAt, main>>
  BY DEF Dequeue, rows, process
<1>4. PastFirst(q)
  BY DEF OrderInv
<1>. HIDE DEF q
<1>5. \A i \in DOMAIN Tail(q) : i + 1 \in DOMAIN q /\ Tail(q)[i] = q[i + 1] /\ i \in Nat
  BY <1>2, TailIsPop
<1>6. PastFirst(q)'
  <2>. SUFFICES ASSUME NEW i \in DOMAIN Tail(q), NEW j \in DOMAIN Tail(q), i < j,
                       handler[Tail(q)[j]] = "past"
                PROVE  /\ handler[Tail(q)[i]] = "past"
                       /\ createdAt[Tail(q)[i]] < createdAt[Tail(q)[j]]
    BY <1>2, <1>3 DEF PastFirst
  <2>1. i + 1 \in DOMAIN q /\ j + 1 \in DOMAIN q /\ i + 1 < j + 1
    BY <1>5
  <2>. QED
    BY <2>1, <1>4, <1>5 DEF PastFirst
<1>. QED
  BY <1>3, <1>6 DEF OrderInv, NoneYet, q

\* A new token goes to the end, and nothing is left in main's list.
LEMMA OrderEnqueue ==
    ASSUME NEW t \in Tokens PROVE IInv /\ OrderInv /\ Enqueue(t) => OrderInv'
<1>. SUFFICES ASSUME IInv, OrderInv, Enqueue(t) PROVE OrderInv'
  OBVIOUS
<1>1. main \notin {"down", "recover", "requeue"} /\ UNCHANGED <<main, createdAt, backlog>>
  BY DEF Enqueue, OrderInv, NoneYet, process, rows
<1>2. backlog = <<>> /\ ch \in Seq(Tokens)
  BY <1>1 DEF IInv, MainControl, TypeOK
<1>3. ch \o backlog = ch /\ (ch \o backlog)' = Append(ch, t)
  BY <1>1, <1>2, TwoQueues, AppendIsPush DEF Enqueue
<1>4. t \in Arriving
  BY DEF Enqueue, Arriving, InFlight
<1>5. t \notin Range(ch)
  BY <1>4, HandlerAlone
<1>6. /\ handler'[t] = "accepted"
      /\ \A u \in Range(ch) : handler'[u] = handler[u]
  BY <1>5 DEF Enqueue, IInv, TypeOK
<1>7. PastFirst(ch)
  BY <1>3 DEF OrderInv
<1> DEFINE next == Append(ch, t)
<1>8. /\ (ch \o backlog)' = next /\ DOMAIN next = 1..(Len(ch) + 1)
      /\ \A i \in 1..Len(ch) : next[i] = ch[i] /\ ch[i] \in Range(ch) /\ i \in DOMAIN ch
      /\ handler'[next[Len(ch) + 1]] = "accepted" /\ Len(ch) \in Nat
  BY <1>2, <1>3, <1>6, AppendIsPush DEF Range
<1>. HIDE DEF next
<1>9. ASSUME NEW i \in DOMAIN next, NEW j \in DOMAIN next, i < j,
             handler'[next[j]] = "past"
      PROVE  handler'[next[i]] = "past" /\ createdAt'[next[i]] < createdAt'[next[j]]
  <2>1. j \in 1..Len(ch) /\ i \in 1..Len(ch)
    BY <1>8, <1>9
  <2>2. /\ next[i] = ch[i] /\ ch[i] \in Range(ch) /\ i \in DOMAIN ch
        /\ next[j] = ch[j] /\ ch[j] \in Range(ch) /\ j \in DOMAIN ch
    BY <2>1, <1>8
  <2>3. handler'[ch[i]] = handler[ch[i]] /\ handler'[ch[j]] = handler[ch[j]]
    BY <2>2, <1>6
  <2>. QED
    BY <2>2, <2>3, <1>1, <1>7, <1>9 DEF PastFirst
<1>10. PastFirst(ch \o backlog)'
  BY <1>8, <1>9 DEF PastFirst
<1>. QED
  BY <1>1, <1>10 DEF OrderInv, NoneYet

\* The other steps of a request are about a token that does not wait.
LEMMA OrderHandler ==
    ASSUME NEW t \in Tokens
    PROVE  /\ IInv /\ OrderInv /\ (Begin(t) \/ Insert(t) \/ InsertFails(t) \/ EnqueueCancelled(t))
           => OrderInv'
<1>. SUFFICES ASSUME IInv, OrderInv,
                     Begin(t) \/ Insert(t) \/ InsertFails(t) \/ EnqueueCancelled(t)
              PROVE  OrderInv'
  OBVIOUS
<1>1. UNCHANGED <<ch, backlog, main>>
  BY DEF Begin, Insert, InsertFails, EnqueueCancelled, rows, process
<1>2. t \notin Range(ch) /\ t \notin Range(backlog)
  <2>1. CASE Begin(t)
    BY <2>1 DEF Begin, IInv, HolderAgrees
  <2>2. CASE Insert(t) \/ InsertFails(t) \/ EnqueueCancelled(t)
    BY <2>2, HandlerAlone DEF Insert, InsertFails, EnqueueCancelled, Arriving, InFlight
  <2>. QED
    BY <2>1, <2>2
<1>3. \A u \in Tokens \ {t} : handler'[u] = handler[u] /\ createdAt'[u] = createdAt[u]
  BY DEF Begin, Insert, InsertFails, EnqueueCancelled, rows, process, IInv, TypeOK
<1>4. main \notin {"down", "recover", "requeue"}
  BY DEF Begin, Insert, InsertFails, EnqueueCancelled, Accepting, OrderInv, NoneYet
<1>5. NoneYet'
  BY <1>1, <1>4 DEF NoneYet
<1>6. Range(ch) \cup Range(backlog) \subseteq Tokens
  BY DEF IInv, TypeOK, Range
<1>. QED
  BY <1>1, <1>2, <1>3, <1>5, <1>6, OrderFrame

\* The order of what waits is inductive, given IInv.
LEMMA OrderNext == IInv /\ OrderInv /\ [Next]_vars => OrderInv'
<1>. SUFFICES ASSUME IInv, OrderInv, [Next]_vars PROVE OrderInv'
  OBVIOUS
<1>1. CASE Start \/ Serve \/ Signal \/ BeginShutdown \/ ServerStopped
  <2>1. UNCHANGED <<ch, backlog, handler, createdAt>>
    BY <1>1 DEF Start, Serve, Signal, BeginShutdown, ServerStopped, rows
  <2>2. NoneYet'
    BY <1>1 DEF Start, Serve, Signal, BeginShutdown, ServerStopped, OrderInv, NoneYet
  <2>. QED
    BY <2>1, <2>2, OrderFrame
<1>2. CASE Recover
  BY <1>2, OrderRecover
<1>3. CASE EnqueueRecovered
  BY <1>3, OrderEnqueueRecovered
<1>4. CASE RecoverFails \/ RequeueCancelled \/ WorkersStopped \/ ShutdownTimeout \/ Crash
  BY <1>4, OrderExit
  DEF RecoverFails, RequeueCancelled, WorkersStopped, ShutdownTimeout, Crash
<1>5. ASSUME NEW t \in Tokens, Begin(t) \/ HandlerStep(t) PROVE OrderInv'
  BY <1>5, OrderEnqueue, OrderHandler DEF HandlerStep
<1>6. ASSUME NEW w \in Workers, WorkerStep(w) PROVE OrderInv'
  <2>1. CASE Dequeue(w)
    BY <2>1, OrderDequeue
  <2>2. CASE ~Dequeue(w)
    <3>1. UNCHANGED <<ch, backlog, handler, createdAt, main>>
      BY <1>6, <2>2
      DEF WorkerStep, DequeueCancelled, FindByToken, MarkProcessing, RunEngine,
          StoreResult, Post, Record, rows, process
    <3>2. NoneYet'
      BY <3>1 DEF OrderInv, NoneYet
    <3>. QED
      BY <3>1, <3>2, OrderFrame
  <2>. QED
    BY <2>1, <2>2
<1>7. CASE UNCHANGED vars
  <2>1. UNCHANGED <<ch, backlog, handler, createdAt, main>>
    BY <1>7 DEF vars
  <2>2. NoneYet'
    BY <2>1 DEF OrderInv, NoneYet
  <2>. QED
    BY <2>1, <2>2, OrderFrame
<1>. QED
  BY <1>1, <1>2, <1>3, <1>4, <1>5, <1>6, <1>7 DEF Next, MainStep

\* Recovered submissions run in the order they were created and before any of this
\* process (RecoverUnfinished, recoverUnfinishedSubmissions).
THEOREM RecoveryIsOrdered == Spec => []RecoveredFirst
<1>1. Init => OrderInv
  <2>. SUFFICES ASSUME Init PROVE OrderInv
    OBVIOUS
  <2>1. ch \o backlog = <<>>
    BY TwoQueues DEF Init
  <2>. QED
    BY <2>1 DEF Init, OrderInv, PastFirst, NoneYet
<1>2. OrderInv => RecoveredFirst
  BY OrderIsPastFirst DEF OrderInv
<1>. QED
  BY <1>1, <1>2, OrderNext, Invariance, PTL DEF Spec

-----------------------------------------------------------------------------
(* Callbacks, and the contract. *)

\* A worker that is about to post or record holds a token of which nothing was
\* posted or recorded yet.
CallbackInv ==
    /\ CallbackAtMostOnce
    /\ \A w \in Workers :
          /\ wpc[w] \in {"post", "record"} =>
                wants[wtok[w]] /\ attempts[wtok[w]] = 0
          /\ wpc[w] = "post" => posts[wtok[w]] = 0

\* The callback invariant holds before the first start.
LEMMA CallbackInit == Init => CallbackInv
  BY DEF Init, CallbackInv, CallbackAtMostOnce

\* Steps that post and record nothing, keep what is wanted and stored, and let
\* no worker begin to post.
LEMMA CallbackFrame ==
    ASSUME CallbackInv, TypeOK, UNCHANGED <<attempts, posts>>,
           \A t \in Tokens : row[t] \in Results => row'[t] \in Results,
           \A t \in Tokens : row[t] # "none" => wants'[t] = wants[t],
           \A w \in Workers : wpc'[w] \in {"post", "record"} =>
              /\ wpc[w] = wpc'[w] /\ wtok'[w] = wtok[w]
              /\ wants'[wtok[w]] = wants[wtok[w]]
    PROVE  CallbackInv'
<1>1. CallbackAtMostOnce'
  BY DEF CallbackInv, CallbackAtMostOnce, TypeOK, Results
<1>. QED
  BY <1>1 DEF CallbackInv

\* The steps of main keep the callback invariant.
LEMMA CallbackMain ==
    IInv /\ CallbackInv /\ (Start \/ MainStep \/ Signal \/ Crash) => CallbackInv'
<1>. SUFFICES ASSUME IInv, CallbackInv, Start \/ MainStep \/ Signal \/ Crash
              PROVE  CallbackInv'
  OBVIOUS
<1>. USE DEF IInv, MainStep
<1>1. UNCHANGED <<attempts, posts, wants>>
  BY DEF Start, Signal, Crash, Recover, RecoverFails, EnqueueRecovered,
         RequeueCancelled, Serve, BeginShutdown, ServerStopped, WorkersStopped,
         ShutdownTimeout, rows
<1>2. row' = row \/ row' = Requeued
  BY DEF Start, Signal, Crash, Recover, RecoverFails, EnqueueRecovered,
         RequeueCancelled, Serve, BeginShutdown, ServerStopped, WorkersStopped,
         ShutdownTimeout, rows
<1>3. \/ wpc' = [w \in Workers |-> "idle"]
      \/ wpc' = [w \in Workers |-> "exited"]
      \/ UNCHANGED <<wpc, wtok>>
  BY DEF Start, Signal, Crash, Recover, RecoverFails, EnqueueRecovered,
         RequeueCancelled, Serve, BeginShutdown, ServerStopped, WorkersStopped,
         ShutdownTimeout, Exit, worker
<1>4. \A t \in Tokens : row[t] \in Results => row'[t] \in Results
  BY <1>2 DEF Requeued, Unfinished, Results
<1>. QED
  BY <1>1, <1>3, <1>4, CallbackFrame

\* The steps of a request keep the callback invariant.
LEMMA CallbackHandler ==
    ASSUME NEW t \in Tokens
    PROVE  IInv /\ CallbackInv /\ (Begin(t) \/ HandlerStep(t)) => CallbackInv'
<1>. SUFFICES ASSUME IInv, CallbackInv, Begin(t) \/ HandlerStep(t)
              PROVE  CallbackInv'
  OBVIOUS
<1>. USE DEF HandlerStep, Begin, Insert, InsertFails, Enqueue, EnqueueCancelled
<1>1. UNCHANGED <<attempts, posts, wpc, wtok>>
  BY DEF worker, rows
<1>2. TypeOK /\ handler[t] \in {"none", "insert", "enqueue"}
  BY DEF IInv
<1>3. row' = row \/ (row[t] = "none" /\ row' = [row EXCEPT ![t] = "queued"])
  BY DEF IInv, HolderAgrees, rows
<1>4. \A u \in Tokens : row[u] \in Results => row'[u] \in Results
  BY <1>2, <1>3 DEF TypeOK, Results
<1>5. wants' = wants \/ (row[t] = "none" /\ \E b \in BOOLEAN : wants' = [wants EXCEPT ![t] = b])
  BY DEF IInv, HolderAgrees, rows
<1>6. \A u \in Tokens : row[u] # "none" => wants'[u] = wants[u]
  BY <1>2, <1>5 DEF TypeOK
<1>7. ASSUME NEW w \in Workers, wpc'[w] \in {"post", "record"}
      PROVE  /\ wpc[w] = wpc'[w] /\ wtok'[w] = wtok[w]
             /\ wants'[wtok[w]] = wants[wtok[w]]
  <2>1. wpc[w] = wpc'[w] /\ wtok'[w] = wtok[w]
    BY <1>1
  <2>2. wtok[w] \in Tokens /\ row[wtok[w]] \in Results
    BY <1>7, <2>1, WorkerAlone DEF IInv, HolderAgrees, Busy
  <2>. QED
    BY <1>6, <2>1, <2>2 DEF Results
<1>. QED
  BY <1>1, <1>2, <1>4, <1>6, <1>7, CallbackFrame

\* A result was not stored before, so nothing was posted or recorded.
LEMMA CallbackStore ==
    ASSUME NEW w \in Workers
    PROVE  IInv /\ CallbackInv /\ StoreResult(w) => CallbackInv'
<1>. SUFFICES ASSUME IInv, CallbackInv, StoreResult(w) PROVE CallbackInv'
  OBVIOUS
<1>. USE DEF StoreResult, Deliver, NotStored, Return, GoTo
<1>. DEFINE t == wtok[w]
<1>1. /\ TypeOK /\ UNCHANGED <<attempts, posts, wants>>
      /\ t \in Tokens /\ row[t] = "processing" /\ wres[w] \in Results
      /\ \A v \in Workers \ {w} : wpc[v] \in Busy => wtok[v] # t
  BY WorkerAlone DEF IInv, WorkerControl, HolderAgrees, Busy
<1>2. posts[t] = 0 /\ attempts[t] = 0
  BY <1>1 DEF CallbackInv, CallbackAtMostOnce, TypeOK, Results
<1>3. \A u \in Tokens : row[u] \in Results => row'[u] \in Results
  BY <1>1 DEF TypeOK
<1>4. CallbackAtMostOnce'
  BY <1>1, <1>3 DEF CallbackInv, CallbackAtMostOnce
<1>5. \A v \in Workers \ {w} : wpc'[v] = wpc[v] /\ wtok'[v] = wtok[v]
  BY <1>1 DEF TypeOK
<1>6. \/ wpc'[w] = "idle"
      \/ wpc'[w] = "post" /\ wtok'[w] = t /\ wants[t]
  BY <1>1 DEF TypeOK
<1>. QED
  BY <1>1, <1>2, <1>4, <1>5, <1>6 DEF CallbackInv

\* Sending and recording a callback keep the callback invariant.
LEMMA CallbackPost ==
    ASSUME NEW w \in Workers
    PROVE  IInv /\ CallbackInv /\ (Post(w) \/ Record(w)) => CallbackInv'
<1>. SUFFICES ASSUME IInv, CallbackInv, Post(w) \/ Record(w) PROVE CallbackInv'
  OBVIOUS
<1>. USE DEF Post, Record, Return, GoTo
<1>. DEFINE t == wtok[w]
<1>1. /\ TypeOK /\ UNCHANGED <<row, wants>>
      /\ t \in Tokens /\ row[t] \in Results
      /\ \A v \in Workers \ {w} : wpc[v] \in Busy => wtok[v] # t
  BY WorkerAlone DEF IInv, HolderAgrees, Busy
<1>2. wants[t] /\ attempts[t] = 0 /\ (wpc[w] = "post" => posts[t] = 0)
  BY DEF CallbackInv
<1>3. \A u \in Tokens \ {t} : posts'[u] = posts[u] /\ attempts'[u] = attempts[u]
  BY <1>1 DEF TypeOK
<1>4. posts'[t] <= 1 /\ attempts'[t] <= 1
  BY <1>1, <1>2 DEF TypeOK, CallbackInv, CallbackAtMostOnce
<1>5. CallbackAtMostOnce'
  BY <1>1, <1>2, <1>3, <1>4 DEF CallbackInv, CallbackAtMostOnce
<1>6. \A v \in Workers \ {w} : wpc'[v] = wpc[v] /\ wtok'[v] = wtok[v]
  BY <1>1 DEF TypeOK
<1>7. \/ wpc'[w] = "idle"
      \/ wpc'[w] = "record" /\ wtok'[w] = t /\ attempts' = attempts
  BY <1>1 DEF TypeOK
<1>8. \A v \in Workers \ {w} :
         wpc[v] \in {"post", "record"} => wtok[v] \in Tokens \ {t}
  BY <1>1, WorkerAlone DEF Busy
<1>. QED
  BY <1>1, <1>2, <1>3, <1>5, <1>6, <1>7, <1>8 DEF CallbackInv

\* The steps of a worker keep the callback invariant.
LEMMA CallbackWorker ==
    ASSUME NEW w \in Workers
    PROVE  IInv /\ CallbackInv /\ WorkerStep(w) => CallbackInv'
<1>. SUFFICES ASSUME IInv, CallbackInv, WorkerStep(w) PROVE CallbackInv'
  OBVIOUS
<1>1. CASE StoreResult(w)
  BY <1>1, CallbackStore
<1>2. CASE Post(w) \/ Record(w)
  BY <1>2, CallbackPost
<1>3. CASE Dequeue(w) \/ DequeueCancelled(w) \/ FindByToken(w) \/ MarkProcessing(w)
             \/ RunEngine(w)
  <2>. USE <1>3 DEF Dequeue, DequeueCancelled, FindByToken, MarkProcessing,
                    RunEngine, Return, GoTo, rows
  <2>1. TypeOK /\ UNCHANGED <<attempts, posts, wants>>
    BY DEF IInv
  <2>2. \A t \in Tokens : row[t] \in Results => row'[t] \in Results
    <3>1. wpc[w] = "mark" => row[wtok[w]] = "queued"
      BY DEF IInv, HolderAgrees
    <3>2. \/ row' = row
          \/ wpc[w] = "mark" /\ row' = [row EXCEPT ![wtok[w]] = "processing"]
      OBVIOUS
    <3>. QED
      BY <2>1, <3>1, <3>2 DEF TypeOK, Results
  <2>3. \A v \in Workers : wpc'[v] \in {"post", "record"} =>
           wpc[v] = wpc'[v] /\ wtok'[v] = wtok[v]
    BY <2>1 DEF TypeOK
  <2>. QED
    BY <2>1, <2>2, <2>3, CallbackFrame
<1>. QED
  BY <1>1, <1>2, <1>3 DEF WorkerStep

\* Every step keeps the callback invariant.
LEMMA CallbackNext == IInv /\ CallbackInv /\ [Next]_vars => CallbackInv'
<1>. SUFFICES ASSUME IInv, CallbackInv, [Next]_vars PROVE CallbackInv'
  OBVIOUS
<1>1. CASE UNCHANGED vars
  BY <1>1 DEF vars, CallbackInv, CallbackAtMostOnce
<1>. QED
  BY <1>1, CallbackMain, CallbackHandler, CallbackWorker DEF Next

\* Over all restarts the receiver gets at most one callback for a submission,
\* for a stored result, and at most one attempt is recorded.
THEOREM OneCallback == Spec => []CallbackAtMostOnce
<1>1. CallbackInv => CallbackAtMostOnce
  BY DEF CallbackInv
<1>. QED
  BY Invariance, CallbackInit, CallbackNext, <1>1, PTL DEF Spec

\* A stored result is never replaced, and no row ever disappears.
LEMMA ResultStays ==
    ASSUME IInv, [Next]_vars, NEW t \in Tokens
    PROVE  /\ row[t] \in Results => row'[t] = row[t]
           /\ row[t] # "none" => row'[t] # "none"
<1>. USE DEF IInv
<1>1. CASE Start \/ MainStep \/ Signal \/ Crash
  <2>1. row' = row \/ row' = Requeued
    BY <1>1 DEF MainStep, Start, Signal, Crash, Recover, RecoverFails,
        EnqueueRecovered, RequeueCancelled, Serve, BeginShutdown, ServerStopped,
        WorkersStopped, ShutdownTimeout, rows
  <2>. QED
    BY <2>1 DEF Requeued, Unfinished, Results, TypeOK
<1>2. ASSUME NEW u \in Tokens, Begin(u) \/ HandlerStep(u)
      PROVE  row[t] # "none" => row'[t] = row[t]
  <2>1. row' = row \/ (row[u] = "none" /\ row' = [row EXCEPT ![u] = "queued"])
    BY <1>2 DEF HandlerStep, Begin, Insert, InsertFails, Enqueue, EnqueueCancelled,
                rows, HolderAgrees
  <2>. QED
    BY <2>1 DEF TypeOK
<1>3. ASSUME NEW w \in Workers, WorkerStep(w)
      PROVE  /\ row[t] \in Results => row'[t] = row[t]
             /\ row[t] # "none" => row'[t] # "none"
  <2>1. \/ row' = row
        \/ /\ row[wtok[w]] \in Unfinished
           /\ \E s \in Unfinished \cup Results : row' = [row EXCEPT ![wtok[w]] = s]
    BY <1>3 DEF WorkerStep, Dequeue, DequeueCancelled, FindByToken, MarkProcessing,
                RunEngine, StoreResult, NotStored, Post, Record, rows,
                HolderAgrees, WorkerControl, Unfinished
  <2>. QED
    BY <2>1 DEF TypeOK, Unfinished, Results
<1>4. CASE UNCHANGED vars
  BY <1>4 DEF vars
<1>. QED
  BY <1>1, <1>2, <1>3, <1>4 DEF Next, Results

\* Every step keeps stored results and persisted rows: a crash, a lost answer or
\* a recovery never replaces, resets or forgets one.
THEOREM StoredResultsAreFinal == Spec => ResultIsFinal
<1>1. IInv /\ [Next]_vars =>
        [\A t \in Tokens :
            /\ row[t] \in Results => row'[t] = row[t]
            /\ row[t] # "none" => row'[t] # "none"]_vars
  BY ResultStays
<1>. QED
  BY Invariance, <1>1, PTL DEF Spec, ResultIsFinal

\* The contract sees the row, with "finished" for a verdict.
Status == [t \in Tokens |-> IF row[t] = "verdict" THEN "finished" ELSE row[t]]

\* The first state is a first state of the contract.
LEMMA ContractInit == Init => Contract!Init
  BY DEF Init, Contract!Init

\* Every step is a step of the contract or leaves its variables alone.
LEMMA ContractNext == IInv /\ CallbackInv /\ [Next]_vars => [Contract!Next]_(Contract!cvars)
<1>. SUFFICES ASSUME IInv, CallbackInv, [Next]_vars
              PROVE  Contract!Next \/ UNCHANGED <<Status, posts>>
  BY DEF Contract!cvars, Status
<1>. USE DEF IInv
<1>0. Status = [t \in Tokens |-> IF row[t] = "verdict" THEN "finished" ELSE row[t]]
  BY DEF Status
<1>1. CASE Start \/ MainStep \/ Signal \/ Crash
  <2>1. posts' = posts /\ (row' = row \/ row' = Requeued)
    BY <1>1 DEF MainStep, Start, Signal, Crash, Recover, RecoverFails,
        EnqueueRecovered, RequeueCancelled, Serve, BeginShutdown, ServerStopped,
        WorkersStopped, ShutdownTimeout, rows
  <2>2. CASE row' = Requeued
    <3>1. Status' = [t \in Tokens |->
                        IF Status[t] = "processing" THEN "queued" ELSE Status[t]]
      BY <2>2 DEF Status, Requeued, Unfinished, TypeOK
    <3>. QED
      BY <2>1, <3>1 DEF Contract!Next, Contract!PutBack, Status
  <2>. QED
    BY <2>1, <2>2 DEF Status
<1>2. ASSUME NEW t \in Tokens, Begin(t) \/ HandlerStep(t)
      PROVE  Contract!Next \/ UNCHANGED <<Status, posts>>
  <2>1. /\ posts' = posts
        /\ row' = row \/ (row[t] = "none" /\ row' = [row EXCEPT ![t] = "queued"])
    BY <1>2 DEF HandlerStep, Begin, Insert, InsertFails, Enqueue, EnqueueCancelled,
                rows, HolderAgrees
  <2>2. CASE row[t] = "none" /\ row' = [row EXCEPT ![t] = "queued"]
    <3>1. Status[t] = "none" /\ Status' = [Status EXCEPT ![t] = "queued"]
      BY <2>2 DEF Status, TypeOK
    <3>2. Contract!Submit(t)
      BY <2>1, <3>1 DEF Contract!Submit, Contract!Advance, Status
    <3>. QED
      BY <3>2 DEF Contract!Next
  <2>. QED
    BY <2>1, <2>2 DEF Status
<1>3. ASSUME NEW w \in Workers, WorkerStep(w)
      PROVE  Contract!Next \/ UNCHANGED <<Status, posts>>
  <2>. DEFINE t == wtok[w]
  <2>1. CASE MarkProcessing(w) /\ row' # row
    <3>1. t \in Tokens /\ row[t] = "queued"
      BY <2>1, WorkerAlone DEF MarkProcessing, HolderAgrees, Busy
    <3>2. row' = [row EXCEPT ![t] = "processing"] /\ posts' = posts
      BY <2>1 DEF MarkProcessing
    <3>3. Status[t] = "queued" /\ Status' = [Status EXCEPT ![t] = "processing"]
      BY <3>1, <3>2 DEF Status, TypeOK
    <3>4. ASSUME NEW u \in Tokens, u = t PROVE Contract!Begin(u)
      BY <3>2, <3>3, <3>4 DEF Contract!Begin, Contract!Advance, Status
    <3>. QED
      BY <3>1, <3>4 DEF Contract!Next
  <2>2. CASE StoreResult(w) /\ row' # row
    <3>1. t \in Tokens /\ row[t] = "processing"
      BY <2>2, WorkerAlone DEF StoreResult, HolderAgrees, Busy
    <3>2. wres[w] = "verdict"
      BY <2>2 DEF StoreResult, NotStored, DbOk, DbLost, WorkerControl, Results
    <3>3. row' = [row EXCEPT ![t] = "verdict"] /\ posts' = posts
      BY <2>2, <3>2 DEF StoreResult, NotStored
    <3>4. Status[t] = "processing" /\ Status' = [Status EXCEPT ![t] = "finished"]
      BY <3>1, <3>3 DEF Status, TypeOK
    <3>5. ASSUME NEW u \in Tokens, u = t PROVE Contract!Finish(u)
      BY <3>3, <3>4, <3>5 DEF Contract!Finish, Contract!Advance, Status
    <3>. QED
      BY <3>1, <3>5 DEF Contract!Next
  <2>3. CASE Post(w) /\ posts' # posts
    <3>1. t \in Tokens /\ row[t] = "verdict" /\ posts[t] = 0
      BY <2>3, WorkerAlone
      DEF Post, HolderAgrees, NoAbortedResult, CallbackInv, Busy, Results
    <3>2. posts' = [posts EXCEPT ![t] = 1] /\ row' = row
      BY <2>3, <3>1 DEF Post
    <3>3. Status[t] = "finished" /\ Status' = Status
      BY <3>1, <3>2 DEF Status
    <3>4. Contract!Notify(t)
      BY <3>1, <3>2, <3>3 DEF Contract!Notify, Status
    <3>. QED
      BY <3>1, <3>4 DEF Contract!Next
  <2>4. CASE row' = row /\ posts' = posts
    BY <2>4 DEF Status
  <2>. QED
    BY <1>3, <2>1, <2>2, <2>3, <2>4
    DEF WorkerStep, Dequeue, DequeueCancelled, FindByToken, MarkProcessing,
        RunEngine, StoreResult, Post, Record, rows
<1>4. CASE UNCHANGED vars
  BY <1>4 DEF vars, Status
<1>. QED
  BY <1>1, <1>2, <1>3, <1>4 DEF Next

\* Lifecycle implements SubmissionContract.
THEOREM ContractKept == Spec => KeepsContract
  BY Invariance, CallbackInit, CallbackNext, ContractInit, ContractNext, PTL
  DEF Spec, KeepsContract, Contract!Spec

-----------------------------------------------------------------------------
(* What the models of the readers of a row take for granted about it. *)

\* The row of t goes from one status to another, and no other row changes.
Moves(t, from, to) == row[t] = from /\ row' = [row EXCEPT ![t] = to]

\* One step changes the row of one submission by one status, forward, unless
\* it is the recovery statement of a process that does not serve yet.
RowsStepForward ==
    [][\/ row' = row
       \/ \E t \in Tokens : \/ Moves(t, "none", "queued")
                            \/ Moves(t, "queued", "processing")
                            \/ Moves(t, "processing", "verdict")
       \/ main = "recover" /\ row' = Requeued]_vars

\* No two rows change at once, no status is skipped, and none goes back while
\* the server accepts requests, although Insert, MarkProcessing and StoreResult
\* never compare the status they replace: what Listing and WaitPoll let other
\* sessions do to a row is all that they can do.
THEOREM RowsStep == Spec => RowsStepForward
<1>1. ASSUME IInv, [Next]_vars
      PROVE  \/ row' = row
             \/ \E t \in Tokens : \/ Moves(t, "none", "queued")
                                  \/ Moves(t, "queued", "processing")
                                  \/ Moves(t, "processing", "verdict")
             \/ main = "recover" /\ row' = Requeued
  <2>. USE <1>1 DEF IInv
  <2>1. CASE Start \/ MainStep \/ Signal \/ Crash
    BY <2>1 DEF MainStep, Start, Signal, Crash, Recover, RecoverFails,
        EnqueueRecovered, RequeueCancelled, Serve, BeginShutdown, ServerStopped,
        WorkersStopped, ShutdownTimeout, rows
  <2>2. ASSUME NEW t \in Tokens, Begin(t) \/ HandlerStep(t)
        PROVE  row' = row \/ Moves(t, "none", "queued")
    BY <2>2 DEF HandlerStep, Begin, Insert, InsertFails, Enqueue, EnqueueCancelled,
                rows, HolderAgrees, Moves
  <2>3. ASSUME NEW w \in Workers, WorkerStep(w), row' # row
        PROVE  /\ wtok[w] \in Tokens
               /\ \/ Moves(wtok[w], "queued", "processing")
                  \/ Moves(wtok[w], "processing", "verdict")
    <3>1. CASE MarkProcessing(w)
      BY <2>3, <3>1, WorkerAlone DEF MarkProcessing, HolderAgrees, Busy, Moves
    <3>2. CASE StoreResult(w)
      <4>1. wres[w] = "verdict"
        BY <2>3, <3>2 DEF StoreResult, NotStored, DbOk, DbLost, WorkerControl, Results
      <4>. QED
        BY <2>3, <3>2, <4>1, WorkerAlone
        DEF StoreResult, NotStored, HolderAgrees, Busy, Moves
    <3>. QED
      BY <2>3, <3>1, <3>2
      DEF WorkerStep, Dequeue, DequeueCancelled, FindByToken, RunEngine, Post,
          Record, rows
  <2>4. CASE UNCHANGED vars
    BY <2>4 DEF vars
  <2>. QED
    BY <2>1, <2>2, <2>3, <2>4 DEF Next
<1>2. IInv /\ [Next]_vars =>
        [\/ row' = row
         \/ \E t \in Tokens : \/ Moves(t, "none", "queued")
                              \/ Moves(t, "queued", "processing")
                              \/ Moves(t, "processing", "verdict")
         \/ main = "recover" /\ row' = Requeued]_vars
  BY <1>1
<1>. QED
  BY Invariance, <1>2, PTL DEF Spec, RowsStepForward

=============================================================================
