------------------------- MODULE MemoryQueueProofs -------------------------
(* Proofs about MemoryQueue and about WorkerMonitor around it, for every      *)
(* number of callers and workers and every capacity.                         *)
EXTENDS WorkerMonitor, FiniteSetTheorems, TLAPS

\* How the number of processes in some states changes when one of them moves.
LEMMA OneMoves ==
    ASSUME NEW f, NEW g, NEW x \in DOMAIN f, NEW S,
           IsFiniteSet(DOMAIN f), DOMAIN g = DOMAIN f,
           \A y \in DOMAIN f \ {x} : g[y] = f[y]
    PROVE  /\ Cardinality(InState(f, S)) \in Nat
           /\ f[x] \in S /\ g[x] \notin S =>
                Cardinality(InState(g, S)) = Cardinality(InState(f, S)) - 1
           /\ f[x] \notin S /\ g[x] \in S =>
                Cardinality(InState(g, S)) = Cardinality(InState(f, S)) + 1
           /\ (f[x] \in S <=> g[x] \in S) => InState(g, S) = InState(f, S)
<1>1. InState(f, S) \subseteq DOMAIN f /\ IsFiniteSet(InState(f, S))
  BY FS_Subset DEF InState
<1>2. Cardinality(InState(f, S)) \in Nat
  BY <1>1, FS_CardinalityType
<1>3. ASSUME f[x] \in S, g[x] \notin S
      PROVE  Cardinality(InState(g, S)) = Cardinality(InState(f, S)) - 1
  <2>1. InState(g, S) = InState(f, S) \ {x} /\ x \in InState(f, S)
    BY <1>3 DEF InState
  <2>. QED
    BY <1>1, <2>1, FS_RemoveElement
<1>4. ASSUME f[x] \notin S, g[x] \in S
      PROVE  Cardinality(InState(g, S)) = Cardinality(InState(f, S)) + 1
  <2>1. InState(g, S) = InState(f, S) \cup {x} /\ x \notin InState(f, S)
    BY <1>4 DEF InState
  <2>. QED
    BY <1>1, <2>1, FS_AddElement
<1>5. ASSUME f[x] \in S <=> g[x] \in S PROVE InState(g, S) = InState(f, S)
  BY <1>5 DEF InState
<1>. QED
  BY <1>2, <1>3, <1>4, <1>5

CallerStates == {"away", "send", "undo"}
WorkerStates == {"idle", "count", "busy", "exited"}

\* The three numbers the counters are compared with.
Announced == Cardinality(InState(caller, {"send", "undo"}))
Received  == Cardinality(InState(worker, {"count"}))
AtWork    == Cardinality(InState(worker, {"busy"}))

QInv == TypeOK /\ CountsExact

\* What the step of one caller does to the number of announced tokens.
LEMMA CallerMoves ==
    ASSUME TypeOK, TypeOK', NEW p \in Callers, NEW v, caller'[p] = v,
           \A q \in Callers \ {p} : caller'[q] = caller[q]
    PROVE  /\ Announced \in Nat
           /\ caller[p] = "away" /\ v # "away" => Announced' = Announced + 1
           /\ caller[p] # "away" /\ v = "away" => Announced' = Announced - 1
           /\ caller[p] # "away" /\ v # "away" => Announced' = Announced
<1>1. IsFiniteSet(DOMAIN caller)
  BY CallersAssumption, FS_AddElement DEF Callers, TypeOK
<1>2. /\ p \in DOMAIN caller /\ DOMAIN caller' = DOMAIN caller
      /\ \A q \in DOMAIN caller \ {p} : caller'[q] = caller[q]
  BY DEF TypeOK
<1>3. ASSUME NEW S
      PROVE  /\ Cardinality(InState(caller, S)) \in Nat
             /\ caller[p] \in S /\ caller'[p] \notin S =>
                  Cardinality(InState(caller', S)) = Cardinality(InState(caller, S)) - 1
             /\ caller[p] \notin S /\ caller'[p] \in S =>
                  Cardinality(InState(caller', S)) = Cardinality(InState(caller, S)) + 1
             /\ (caller[p] \in S <=> caller'[p] \in S) =>
                  InState(caller', S) = InState(caller, S)
  <2>1. Cardinality(InState(caller, S)) \in Nat
    BY <1>1, <1>2, OneMoves
  <2>2. caller[p] \in S /\ caller'[p] \notin S =>
          Cardinality(InState(caller', S)) = Cardinality(InState(caller, S)) - 1
    BY <1>1, <1>2, OneMoves
  <2>3. caller[p] \notin S /\ caller'[p] \in S =>
          Cardinality(InState(caller', S)) = Cardinality(InState(caller, S)) + 1
    BY <1>1, <1>2, OneMoves
  <2>4. (caller[p] \in S <=> caller'[p] \in S) =>
          InState(caller', S) = InState(caller, S)
    BY <1>1, <1>2, OneMoves
  <2>. QED
    BY <2>1, <2>2, <2>3, <2>4
<1>4. caller[p] \in CallerStates /\ v \in CallerStates
  BY DEF TypeOK, CallerStates
<1>5. Announced' = Cardinality(InState(caller', {"send", "undo"}))
  BY DEF Announced
<1>. QED
  BY <1>3, <1>4, <1>5 DEF Announced, CallerStates

\* What the step of one worker does to the numbers of received and active tokens.
LEMMA WorkerMoves ==
    ASSUME TypeOK, TypeOK', NEW w \in Workers, NEW v, worker'[w] = v, worker[w] # v,
           \A u \in Workers \ {w} : worker'[u] = worker[u]
    PROVE  /\ Received \in Nat /\ AtWork \in Nat
           /\ Received' = IF worker[w] = "count" THEN Received - 1
                          ELSE IF v = "count" THEN Received + 1 ELSE Received
           /\ AtWork' = IF worker[w] = "busy" THEN AtWork - 1
                        ELSE IF v = "busy" THEN AtWork + 1 ELSE AtWork
<1>1. IsFiniteSet(DOMAIN worker)
  BY WorkersAssumption DEF TypeOK
<1>2. /\ w \in DOMAIN worker /\ DOMAIN worker' = DOMAIN worker
      /\ \A u \in DOMAIN worker \ {w} : worker'[u] = worker[u]
  BY DEF TypeOK
<1>3. ASSUME NEW S
      PROVE  /\ Cardinality(InState(worker, S)) \in Nat
             /\ worker[w] \in S /\ worker'[w] \notin S =>
                  Cardinality(InState(worker', S)) = Cardinality(InState(worker, S)) - 1
             /\ worker[w] \notin S /\ worker'[w] \in S =>
                  Cardinality(InState(worker', S)) = Cardinality(InState(worker, S)) + 1
             /\ (worker[w] \in S <=> worker'[w] \in S) =>
                  InState(worker', S) = InState(worker, S)
  <2>1. Cardinality(InState(worker, S)) \in Nat
    BY <1>1, <1>2, OneMoves
  <2>2. worker[w] \in S /\ worker'[w] \notin S =>
          Cardinality(InState(worker', S)) = Cardinality(InState(worker, S)) - 1
    BY <1>1, <1>2, OneMoves
  <2>3. worker[w] \notin S /\ worker'[w] \in S =>
          Cardinality(InState(worker', S)) = Cardinality(InState(worker, S)) + 1
    BY <1>1, <1>2, OneMoves
  <2>4. (worker[w] \in S <=> worker'[w] \in S) =>
          InState(worker', S) = InState(worker, S)
    BY <1>1, <1>2, OneMoves
  <2>. QED
    BY <2>1, <2>2, <2>3, <2>4
<1>4. worker[w] \in WorkerStates /\ v \in WorkerStates
  BY DEF TypeOK, WorkerStates
<1>5. Received \in Nat /\ AtWork \in Nat
  BY <1>3 DEF Received, AtWork
<1>6. Received' = IF worker[w] = "count" THEN Received - 1
                  ELSE IF v = "count" THEN Received + 1 ELSE Received
  <2>1. Received' = Cardinality(InState(worker', {"count"}))
    BY DEF Received
  <2>. QED
    BY <1>3, <1>4, <2>1 DEF Received
<1>7. AtWork' = IF worker[w] = "busy" THEN AtWork - 1
                ELSE IF v = "busy" THEN AtWork + 1 ELSE AtWork
  <2>1. AtWork' = Cardinality(InState(worker', {"busy"}))
    BY DEF AtWork
  <2>. QED
    BY <1>3, <1>4, <2>1 DEF AtWork
<1>. QED
  BY <1>5, <1>6, <1>7

\* At the start nothing is counted.
LEMMA NobodyThere ==
    ASSUME Init PROVE Announced = 0 /\ Received = 0 /\ AtWork = 0
<1>1. /\ InState(caller, {"send", "undo"}) = {}
      /\ InState(worker, {"count"}) = {}
      /\ InState(worker, {"busy"}) = {}
  BY DEF Init, InState
<1>. QED
  BY <1>1, FS_EmptySet DEF Announced, Received, AtWork

\* The empty queue satisfies the invariant.
LEMMA QInit == Init => QInv
<1>. SUFFICES ASSUME Init PROVE QInv
  OBVIOUS
<1>1. <<>> \in Seq(Callers) /\ Len(<<>>) <= Cap
  BY QueueCapAssumption
<1>2. TypeOK
  <2>1. ch \in Seq(Callers) /\ Len(ch) <= Cap
    BY <1>1 DEF Init
  <2>2. caller \in [Callers -> {"away", "send", "undo"}]
    BY DEF Init
  <2>3. worker \in [Workers -> {"idle", "count", "busy", "exited"}]
    BY DEF Init
  <2>4. pending \in Int /\ active \in Int
    BY DEF Init
  <2>5. cancelled \in BOOLEAN
    BY DEF Init
  <2>. QED
    BY <2>1, <2>2, <2>3, <2>4, <2>5 DEF TypeOK
<1>3. CountsExact
  <2>1. /\ Cardinality(InState(caller, {"send", "undo"})) = 0
        /\ Cardinality(InState(worker, {"count"})) = 0
        /\ Cardinality(InState(worker, {"busy"})) = 0
    BY NobodyThere DEF Announced, Received, AtWork
  <2>. QED
    BY <2>1 DEF Init, CountsExact
<1>. QED
  BY <1>2, <1>3 DEF QInv

-----------------------------------------------------------------------------
(* Each step moves one process and keeps the counters in line with it. *)

\* What QInv says, with the three numbers named.
LEMMA Counted ==
    CountsExact <=> pending = Len(ch) + Announced + Received /\ active = AtWork
  BY DEF CountsExact, Announced, Received, AtWork

\* Every step of a caller keeps the invariant.
LEMMA CallerStep ==
    ASSUME QInv, NEW p \in Callers,
           EnqueueCount(p) \/ EnqueueSend(p) \/ EnqueueCancelled(p) \/ EnqueueUndo(p)
    PROVE  QInv'
<1>. USE DEF EnqueueCount, EnqueueSend, EnqueueCancelled, EnqueueUndo
<1>1. TypeOK /\ CountsExact
  BY DEF QInv
<1>2. \/ UNCHANGED ch
      \/ Len(ch) < Cap /\ ch' = Append(ch, p)
  BY DEF Room
<1>3. /\ ch' \in Seq(Callers) /\ Len(ch') <= Cap
      /\ Len(ch') = IF EnqueueSend(p) THEN Len(ch) + 1 ELSE Len(ch)
  BY <1>1, <1>2, QueueCapAssumption DEF TypeOK
<1>4. TypeOK'
  <2>1. caller' \in [Callers -> {"away", "send", "undo"}]
    BY <1>1 DEF TypeOK
  <2>2. pending' \in Int /\ UNCHANGED <<active, worker, cancelled>>
    BY <1>1 DEF TypeOK
  <2>. QED
    BY <1>1, <1>3, <2>1, <2>2 DEF TypeOK
<1>5. /\ \A q \in Callers \ {p} : caller'[q] = caller[q]
      /\ UNCHANGED worker
  BY <1>1 DEF TypeOK
<1>6. Received' = Received /\ AtWork' = AtWork
  BY <1>5 DEF Received, AtWork
<1>7. Len(ch) \in Nat /\ Announced \in Nat /\ Received \in Nat
  <2>1. Len(ch) \in Nat
    BY <1>1 DEF TypeOK
  <2>2. Announced \in Nat
    BY <1>1, <1>4, <1>5, CallerMoves
  <2>3. Received \in Nat
    BY <1>1, WorkersAssumption, FS_Subset, FS_CardinalityType
    DEF Received, InState, TypeOK
  <2>. QED
    BY <2>1, <2>2, <2>3
<1>8. Announced' = IF EnqueueCount(p) THEN Announced + 1
                   ELSE IF EnqueueCancelled(p) THEN Announced ELSE Announced - 1
  <2>1. caller'[p] = IF EnqueueCount(p) THEN "send"
                     ELSE IF EnqueueCancelled(p) THEN "undo" ELSE "away"
    BY <1>1 DEF TypeOK
  <2>. QED
    BY <1>1, <1>4, <1>5, <2>1, CallerMoves
<1>9. pending = Len(ch) + Announced + Received /\ active = AtWork
  BY <1>1, Counted
<1>10. pending' = Len(ch') + Announced' + Received' /\ active' = AtWork'
  <2>1. CASE EnqueueCount(p)
    <3>1. pending' = pending + 1 /\ active' = active /\ ~EnqueueSend(p)
      BY <2>1
    <3>. QED
      BY <2>1, <3>1, <1>3, <1>6, <1>7, <1>8, <1>9
  <2>2. CASE EnqueueSend(p)
    <3>1. /\ pending' = pending /\ active' = active
          /\ ~EnqueueCount(p) /\ ~EnqueueCancelled(p)
      <4>1. caller'[p] = "away"
        BY <2>2, <1>1 DEF TypeOK
      <4>. QED
        BY <2>2, <1>1, <4>1 DEF TypeOK
    <3>. QED
      BY <2>2, <3>1, <1>3, <1>6, <1>7, <1>8, <1>9
  <2>3. CASE EnqueueCancelled(p)
    <3>1. /\ pending' = pending /\ active' = active
          /\ ~EnqueueCount(p) /\ ~EnqueueSend(p)
      <4>1. caller'[p] = "undo"
        BY <2>3, <1>1 DEF TypeOK
      <4>. QED
        BY <2>3, <1>1, <4>1 DEF TypeOK
    <3>. QED
      BY <2>3, <3>1, <1>3, <1>6, <1>7, <1>8, <1>9
  <2>4. CASE EnqueueUndo(p)
    <3>1. /\ pending' = pending - 1 /\ active' = active
          /\ ~EnqueueCount(p) /\ ~EnqueueSend(p) /\ ~EnqueueCancelled(p)
      BY <2>4
    <3>. QED
      BY <2>4, <3>1, <1>3, <1>6, <1>7, <1>8, <1>9
  <2>. QED
    BY <2>1, <2>2, <2>3, <2>4
<1>11. CountsExact'
  BY <1>10 DEF CountsExact, Announced, Received, AtWork
<1>. QED
  BY <1>4, <1>11 DEF QInv

\* Every step of a worker keeps the invariant.
LEMMA WorkerStep ==
    ASSUME QInv, NEW w \in Workers,
           DequeueReceive(w) \/ DequeueCount(w) \/ DequeueCancelled(w) \/ WorkDone(w)
    PROVE  QInv'
<1>. USE DEF DequeueReceive, DequeueCount, DequeueCancelled, WorkDone
<1>1. TypeOK /\ CountsExact
  BY DEF QInv
<1>2. /\ ch' \in Seq(Callers) /\ Len(ch') <= Cap
      /\ Len(ch') = IF DequeueReceive(w) THEN Len(ch) - 1 ELSE Len(ch)
  BY <1>1, QueueCapAssumption DEF TypeOK
<1>3. TypeOK'
  BY <1>1, <1>2 DEF TypeOK
<1>4. /\ \A u \in Workers \ {w} : worker'[u] = worker[u]
      /\ worker'[w] # worker[w]
      /\ UNCHANGED caller
  BY <1>1 DEF TypeOK
<1>5. Announced' = Announced
  BY <1>4 DEF Announced
<1>6. worker'[w] = IF DequeueReceive(w) THEN "count"
                   ELSE IF DequeueCount(w) THEN "busy"
                   ELSE IF WorkDone(w) THEN "idle" ELSE "exited"
  BY <1>1 DEF TypeOK
<1>7. /\ Received \in Nat /\ AtWork \in Nat
      /\ Received' = IF worker[w] = "count" THEN Received - 1
                     ELSE IF worker'[w] = "count" THEN Received + 1 ELSE Received
      /\ AtWork' = IF worker[w] = "busy" THEN AtWork - 1
                   ELSE IF worker'[w] = "busy" THEN AtWork + 1 ELSE AtWork
  BY <1>1, <1>3, <1>4, WorkerMoves
<1>8. Len(ch) \in Nat /\ Announced \in Nat
  <2>1. IsFiniteSet(Callers)
    BY CallersAssumption, FS_AddElement DEF Callers
  <2>. QED
    BY <1>1, <2>1, FS_Subset, FS_CardinalityType DEF Announced, InState, TypeOK
<1>9. pending = Len(ch) + Announced + Received /\ active = AtWork
  BY <1>1, Counted
<1>10. WorkDone(w) => active > 0
  <2>1. ASSUME worker[w] = "busy" PROVE AtWork # 0
    <3>1. InState(worker, {"busy"}) \subseteq Workers /\ w \in InState(worker, {"busy"})
      BY <1>1, <2>1 DEF InState, TypeOK
    <3>2. IsFiniteSet(InState(worker, {"busy"}))
      BY <3>1, WorkersAssumption, FS_Subset
    <3>. QED
      BY <3>1, <3>2, FS_EmptySet DEF AtWork
  <2>. QED
    BY <1>7, <1>9, <2>1
<1>11. pending' = Len(ch') + Announced' + Received' /\ active' = AtWork'
  <2>1. CASE DequeueReceive(w)
    <3>1. /\ pending' = pending /\ active' = active /\ Len(ch') = Len(ch) - 1
          /\ worker[w] = "idle" /\ worker'[w] = "count"
      BY <2>1, <1>2, <1>6
    <3>. QED
      BY <3>1, <1>5, <1>7, <1>8, <1>9
  <2>2. CASE DequeueCount(w)
    <3>1. /\ pending' = pending - 1 /\ active' = active + 1 /\ ch' = ch
          /\ worker[w] = "count" /\ worker'[w] = "busy"
      BY <2>2, <1>1 DEF TypeOK
    <3>. QED
      BY <3>1, <1>5, <1>7, <1>8, <1>9
  <2>3. CASE DequeueCancelled(w)
    <3>1. /\ pending' = pending /\ active' = active /\ ch' = ch
          /\ worker[w] = "idle" /\ worker'[w] = "exited"
      BY <2>3, <1>1 DEF TypeOK
    <3>. QED
      BY <3>1, <1>5, <1>7, <1>8, <1>9
  <2>4. CASE WorkDone(w)
    <3>1. /\ pending' = pending /\ active' = active - 1 /\ ch' = ch
          /\ worker[w] = "busy" /\ worker'[w] = "idle"
      BY <2>4, <1>1, <1>10 DEF TypeOK
    <3>. QED
      BY <3>1, <1>5, <1>7, <1>8, <1>9
  <2>. QED
    BY <2>1, <2>2, <2>3, <2>4
<1>12. CountsExact'
  BY <1>11 DEF CountsExact, Announced, Received, AtWork
<1>. QED
  BY <1>3, <1>12 DEF QInv

\* Every step keeps the invariant.
LEMMA QNext == QInv /\ [Next]_vars => QInv'
<1>. SUFFICES ASSUME QInv, [Next]_vars PROVE QInv'
  OBVIOUS
<1>1. CASE Cancel \/ UNCHANGED vars
  BY <1>1 DEF Cancel, vars, QInv, TypeOK, CountsExact
<1>. QED
  BY <1>1, CallerStep, WorkerStep DEF Next

\* QInv holds in every reachable state of the queue.
THEOREM QueueInvariance == Spec => []QInv
  BY QInit, QNext, PTL DEF Spec

\* Every variable of the queue has its type, and the channel its capacity.
THEOREM QueueTypeCorrect == Spec => []TypeOK
<1>1. QInv => TypeOK
  BY DEF QInv
<1>. QED
  BY QueueInvariance, <1>1, PTL

\* The counters behind Stats count every token once, however the steps of the
\* callers and the workers are interleaved.
THEOREM CountersExact == Spec => []CountsExact
<1>1. QInv => CountsExact
  BY DEF QInv
<1>. QED
  BY QueueInvariance, <1>1, PTL

\* Stats that show nothing pending and nothing active mean that no token is in
\* the channel or at a worker: whoever reads them (GET /v1/workers) misses none.
NoneUncounted ==
    pending <= 0 /\ active <= 0 =>
        ch = <<>> /\ InState(worker, {"count", "busy"}) = {}

\* A reader of Stats that sees zeros misses no token.
THEOREM ZerosMeanIdle == Spec => []NoneUncounted
<1>1. QInv => NoneUncounted
  <2>. SUFFICES ASSUME QInv, pending <= 0, active <= 0
                PROVE  ch = <<>> /\ InState(worker, {"count", "busy"}) = {}
    BY DEF NoneUncounted
  <2>1. TypeOK /\ pending = Len(ch) + Announced + Received /\ active = AtWork
    BY Counted DEF QInv
  <2>2. IsFiniteSet(Callers) /\ IsFiniteSet(Workers)
    BY CallersAssumption, WorkersAssumption, FS_AddElement DEF Callers
  <2>3. /\ IsFiniteSet(InState(caller, {"send", "undo"}))
        /\ IsFiniteSet(InState(worker, {"count"}))
        /\ IsFiniteSet(InState(worker, {"busy"}))
    BY <2>1, <2>2, FS_Subset DEF InState, TypeOK
  <2>4. Announced \in Nat /\ Received \in Nat /\ AtWork \in Nat /\ Len(ch) \in Nat
    BY <2>1, <2>3, FS_CardinalityType DEF Announced, Received, AtWork, TypeOK
  <2>5. Len(ch) = 0 /\ Received = 0 /\ AtWork = 0
    BY <2>1, <2>4
  <2>6. InState(worker, {"count"}) = {} /\ InState(worker, {"busy"}) = {}
    BY <2>3, <2>5, FS_EmptySet DEF Received, AtWork
  <2>7. InState(worker, {"count", "busy"}) = {}
    BY <2>6 DEF InState
  <2>. QED
    BY <2>1, <2>5, <2>7 DEF TypeOK
<1>. QED
  BY QueueInvariance, <1>1, PTL

-----------------------------------------------------------------------------
(* WorkerMonitor *)

Busy == InState(worker, {"busy"})

\* What the monitor shows of a worker, once the mark that is due has been made,
\* is what the queue counts it as.
MarksTell ==
    \A w \in Workers :
        (IF due[w] = "none" THEN shown[w] ELSE due[w]) = "processing" <=> worker[w] = "busy"

MonitorTypes ==
    /\ DOMAIN due = Workers /\ DOMAIN shown = Workers
    /\ request \in [active : Nat, moved : SUBSET Workers, open : BOOLEAN]

\* The counter that an open request has read counted some workers, and those that
\* have not moved since are the ones that are busy now.
CountedThen ==
    request.open =>
        \E then \in SUBSET Workers :
            /\ request.active = Cardinality(then)
            /\ then \ request.moved = Busy \ request.moved

MInv == QInv /\ MonitorTypes /\ MarksTell /\ CountedThen

\* The start satisfies the invariant.
LEMMA MonitorInit == MonitoredInit => MInv
<1>. SUFFICES ASSUME MonitoredInit PROVE MInv
  OBVIOUS
<1>1. QInv
  BY QInit DEF MonitoredInit
<1>2. MonitorTypes /\ CountedThen
  BY DEF MonitoredInit, MonitorTypes, CountedThen, NoRequest
<1>3. MarksTell
  BY DEF MonitoredInit, MarksTell, Init
<1>. QED
  BY <1>1, <1>2, <1>3 DEF MInv

\* A step of the monitored system is one of the queue, or leaves the queue alone.
LEMMA QueueSteps == [MonitoredNext]_monitorVars => [Next]_vars
  BY DEF MonitoredNext, monitorVars, Other, Step, Mark, Stats, Snapshot, Next, vars

\* A worker that moves is among those that have moved, and the others stay.
LEMMA MovedWorker ==
    ASSUME MInv, NEW w \in Workers, Moves(w),
           \A u \in Workers \ {w} : worker'[u] = worker[u], TypeOK'
    PROVE  CountedThen' /\ request' \in [active : Nat, moved : SUBSET Workers, open : BOOLEAN]
<1>1. request' \in [active : Nat, moved : SUBSET Workers, open : BOOLEAN]
  BY DEF Moves, MInv, MonitorTypes
<1>2. ASSUME request'.open PROVE CountedThen'
  <2>1. /\ request.open /\ request'.active = request.active
        /\ request'.moved = request.moved \cup {w}
    BY <1>2 DEF Moves, MInv, MonitorTypes
  <2>2. PICK then \in SUBSET Workers :
            /\ request.active = Cardinality(then)
            /\ then \ request.moved = Busy \ request.moved
    BY <2>1 DEF MInv, CountedThen
  <2>3. Busy' \ {w} = Busy \ {w}
    BY DEF Busy, InState, MInv, QInv, TypeOK
  <2>4. then \ request'.moved = Busy' \ request'.moved
    BY <2>1, <2>2, <2>3
  <2>. QED
    BY <2>1, <2>2, <2>4 DEF CountedThen
<1>. QED
  BY <1>1, <1>2 DEF CountedThen

\* The steps of a worker keep the invariant.
LEMMA WorkerMarks ==
    ASSUME MInv, QInv', NEW w \in Workers, Step(w) \/ Mark(w)
    PROVE  MInv'
<1>1. /\ DOMAIN worker = Workers /\ DOMAIN worker' = Workers
      /\ DOMAIN due = Workers /\ DOMAIN shown = Workers
  BY DEF MInv, QInv, TypeOK, MonitorTypes
<1>2. \A u \in Workers \ {w} : worker'[u] = worker[u]
  BY <1>1 DEF Step, Mark, DequeueReceive, DequeueCount, WorkDone, DequeueCancelled, vars
<1>3. CountedThen' /\ request' \in [active : Nat, moved : SUBSET Workers, open : BOOLEAN]
  <2>1. Moves(w) /\ TypeOK'
    BY DEF Step, Mark, QInv
  <2>. QED
    BY <1>2, <2>1, MovedWorker
<1>4. DOMAIN due' = Workers /\ DOMAIN shown' = Workers
  BY <1>1 DEF Step, Mark, Marked
<1>5. MarksTell'
  <2>1. CASE Mark(w)
    BY <1>1, <2>1 DEF Mark, Marked, MInv, MarksTell, vars
  <2>2. CASE Step(w)
    BY <1>1, <2>2 DEF Step, DequeueReceive, DequeueCount, WorkDone, DequeueCancelled,
                      MInv, MarksTell
  <2>. QED
    BY <2>1, <2>2
<1>. QED
  BY <1>3, <1>4, <1>5 DEF MInv, MonitorTypes

\* Every step keeps the invariant.
LEMMA MonitorNext == MInv /\ [MonitoredNext]_monitorVars => MInv'
<1>. SUFFICES ASSUME MInv, [MonitoredNext]_monitorVars PROVE MInv'
  OBVIOUS
<1>1. QInv'
  BY QueueSteps, QNext DEF MInv
<1>2. CASE Other
  <2>1. UNCHANGED <<worker, due, shown, request>>
    BY <1>2 DEF Other, Cancel, EnqueueCount, EnqueueSend, EnqueueCancelled, EnqueueUndo
  <2>. QED
    BY <1>1, <2>1 DEF MInv, MonitorTypes, MarksTell, CountedThen, Busy
<1>3. CASE Stats
  <2>1. active = Cardinality(Busy) /\ Busy \in SUBSET Workers
    BY DEF MInv, QInv, CountsExact, Busy, InState, TypeOK
  <2>2. active \in Nat
    BY <2>1, WorkersAssumption, FS_Subset, FS_CardinalityType
  <2>3. /\ Busy' = Busy /\ UNCHANGED <<worker, due, shown>>
        /\ request' = [active |-> active, moved |-> {}, open |-> TRUE]
    BY <1>3 DEF Stats, vars, Busy
  <2>4. MonitorTypes' /\ MarksTell'
    BY <2>2, <2>3 DEF MInv, MonitorTypes, MarksTell
  <2>5. CountedThen'
    BY <2>1, <2>3 DEF CountedThen
  <2>. QED
    BY <1>1, <2>4, <2>5 DEF MInv
<1>4. CASE Snapshot \/ UNCHANGED monitorVars
  <2>1. UNCHANGED <<worker, due, shown>> /\ (request' = NoRequest \/ request' = request)
    BY <1>4 DEF Snapshot, monitorVars, vars
  <2>2. request' \in [active : Nat, moved : SUBSET Workers, open : BOOLEAN]
    <3>1. NoRequest \in [active : Nat, moved : SUBSET Workers, open : BOOLEAN]
      BY DEF NoRequest
    <3>. QED
      BY <2>1, <3>1 DEF MInv, MonitorTypes
  <2>3. CountedThen'
    <3>1. CASE request' = NoRequest
      BY <3>1 DEF CountedThen, NoRequest
    <3>2. CASE request' = request
      BY <2>1, <3>2 DEF MInv, CountedThen, Busy
    <3>. QED
      BY <2>1, <3>1, <3>2
  <2>4. MonitorTypes' /\ MarksTell'
    BY <2>1, <2>2 DEF MInv, MonitorTypes, MarksTell
  <2>. QED
    BY <1>1, <2>3, <2>4 DEF MInv
<1>5. CASE \E w \in Workers : Step(w) \/ Mark(w)
  BY <1>1, <1>5, WorkerMarks
<1>. QED
  BY <1>2, <1>3, <1>4, <1>5 DEF MonitoredNext

\* The answer of an open request differs from what the workers show by no more
\* than the workers that moved.
LEMMA HalvesMeet ==
    ASSUME MInv, request.open,
           NEW still, still = {w \in Workers : w \notin request.moved /\ due[w] = "none"},
           NEW busy, busy = Cardinality({w \in still : shown[w] = "processing"})
    PROVE  busy <= request.active /\ request.active <= busy + Cardinality(Workers \ still)
<1> DEFINE seen == {w \in still : shown[w] = "processing"}
           rest == Workers \ still
<1>1. PICK then \in SUBSET Workers :
          /\ request.active = Cardinality(then)
          /\ then \ request.moved = Busy \ request.moved
  BY DEF MInv, CountedThen
<1>2. seen = still \cap then
  <2>1. \A w \in still : shown[w] = "processing" <=> w \in Busy
    BY DEF MInv, MarksTell, Busy, InState, QInv, TypeOK
  <2>. QED
    BY <1>1, <2>1
<1>3. then \subseteq seen \cup rest /\ seen \subseteq then
  BY <1>1, <1>2
<1>4. /\ IsFiniteSet(then) /\ IsFiniteSet(seen) /\ IsFiniteSet(rest)
      /\ IsFiniteSet(seen \cup rest)
  BY <1>1, <1>2, WorkersAssumption, FS_Subset, FS_Union
<1>5. /\ Cardinality(then) \in Nat /\ Cardinality(seen) \in Nat /\ Cardinality(rest) \in Nat
      /\ Cardinality(seen \cap rest) = 0
  <2>1. seen \cap rest = {}
    OBVIOUS
  <2>. QED
    BY <1>4, <2>1, FS_CardinalityType, FS_EmptySet
<1>6. Cardinality(seen \cup rest) = Cardinality(seen) + Cardinality(rest)
  <2>1. Cardinality(seen \cup rest)
            = Cardinality(seen) + Cardinality(rest) - Cardinality(seen \cap rest)
    BY <1>4, FS_Union
  <2>. QED
    BY <1>5, <2>1
<1>7. Cardinality(seen) <= Cardinality(then) /\ Cardinality(then) <= Cardinality(seen \cup rest)
  BY <1>3, <1>4, FS_Subset
<1>. QED
  BY <1>1, <1>5, <1>6, <1>7

\* MInv holds in every reachable state of the monitored workers.
THEOREM MonitorInvariance == MonitoredInit /\ [][MonitoredNext]_monitorVars => []MInv
  BY MonitorInit, MonitorNext, PTL

\* Whatever the workers do between the two reads of GET /v1/workers, its two halves
\* agree about every worker that stood still.
THEOREM AnswersAgree == MonitoredSpec => HalvesAgree
<1> DEFINE Agree ==
        request.open /\ ~request'.open =>
            LET still == {w \in Workers : w \notin request.moved /\ due[w] = "none"}
                busy  == Cardinality({w \in still : shown[w] = "processing"})
            IN  busy <= request.active
                /\ request.active <= busy + Cardinality(Workers \ still)
<1>1. MInv => Agree
  BY HalvesMeet
<1>2. MonitoredInit /\ [][MonitoredNext]_monitorVars => [][Agree]_monitorVars
  BY <1>1, MonitorInvariance, PTL
<1>3. MonitoredSpec => MonitoredInit /\ [][MonitoredNext]_monitorVars
  BY PTL DEF MonitoredSpec
<1>. QED
  BY <1>2, <1>3, PTL DEF HalvesAgree

\* The workers' loop and the monitor around the queue use it as MemoryQueue says:
\* what is proved and model-checked of the queue holds of the monitored one.
THEOREM MonitorRefines == MonitoredSpec => FairSpec
<1>1. MonitoredInit => Init
  BY DEF MonitoredInit
<1>. QED
  BY <1>1, QueueSteps, PTL DEF MonitoredSpec, FairSpec, Spec

=============================================================================
