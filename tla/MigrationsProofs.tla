--------------------------- MODULE MigrationsProofs ---------------------------
(***************************************************************************)
(* Safety of the migrations, for any number of processes, files and        *)
(* faults: the ledger is in order and true, and who serves has everything. *)
(***************************************************************************)
EXTENDS Migrations, TLAPS

USE FilesAssumption, NobodyAssumption, FaultAssumption

Changing == {"record", "commit"}
Past     == {"check", "execute", "record", "commit", "serve"}

\* The transactions that changed tables are the holder's of the lock; a process
\* comes to a file when those before it are recorded, and commits the next one.
Control ==
    \A p \in Processes :
        /\ pc[p] \in Changing <=> lock = p
        /\ pc[p] \notin Past => at[p] = 1
        /\ pc[p] \in Past => at[p] <= Len(ledger) + 1
        /\ pc[p] \in {"execute", "record", "commit"} => at[p] <= N
        /\ pc[p] = "commit" => at[p] = Len(ledger) + 1
        /\ pc[p] = "serve" => at[p] = N + 1

Bounds == Len(ledger) \in old..N

IInv == TypeOK /\ Control /\ Bounds /\ InOrder /\ LedgerIsTrue

-----------------------------------------------------------------------------
(* The sequence of the first numbers. *)

\* The first k numbers are a sequence of length k over 1..N.
LEMMA UptoLength ==
    ASSUME NEW k \in 0..N
    PROVE  Upto(k) \in Seq(1..N) /\ Len(Upto(k)) = k
  BY DEF Upto

\* The next number makes the next such sequence.
LEMMA UptoNext ==
    ASSUME NEW k \in Nat
    PROVE  Append(Upto(k), k + 1) = Upto(k + 1)
  <1>1. Upto(k) \in Seq(Nat) /\ Len(Upto(k)) = k
    BY DEF Upto
  <1> QED
    BY <1>1 DEF Upto

\* With the ledger in order a file is recorded exactly when the ledger has got to it.
LEMMA RecordedPrefix ==
    ASSUME TypeOK, InOrder, NEW n \in 1..N
    PROVE  Recorded(n) <=> n <= Len(ledger)
  BY DEF TypeOK, InOrder, Recorded, Upto

-----------------------------------------------------------------------------

\* The database starts with the invariant.
LEMMA InitInv == Init => IInv
  <1> SUFFICES ASSUME Init PROVE IInv
    OBVIOUS
  <1>1. Upto(old) \in Seq(1..N) /\ Len(Upto(old)) = old
    BY UptoLength DEF Init
  <1>2. TypeOK
    BY <1>1 DEF Init, TypeOK, Stages
  <1>3. Control /\ Bounds /\ InOrder
    BY <1>1 DEF Init, Control, Bounds, InOrder, Changing, Past
  <1>4. LedgerIsTrue
    <2>1. old = 0 => ledger = <<>>
      BY <1>1 DEF Init
    <2>2. Len(ledger) = old /\ schema = 1..old
      BY <1>1 DEF Init
    <2> QED
      BY <2>1, <2>2 DEF LedgerIsTrue
  <1> QED
    BY <1>2, <1>3, <1>4 DEF IInv

\* A step of one process that leaves the database alone.
LEMMA QuietSteps ==
    ASSUME IInv, NEW p \in Processes,
           \/ Start(p) \/ LookForTable(p) \/ CreateTable(p) \/ CreateTableTwice(p)
           \/ Check(p) \/ Execute(p) \/ ExecuteFails(p) \/ Record(p)
           \/ RecordFails(p) \/ Serve(p) \/ Die(p)
    PROVE  IInv'
  <1> USE DEF GoTo, Leave, IInv
  <1>1. UNCHANGED <<ledger, schema, old>>
    BY DEF Start, LookForTable, CreateTable, CreateTableTwice, Check, Execute,
           ExecuteFails, Record, RecordFails, Serve, Die
  <1>2. InOrder' /\ LedgerIsTrue' /\ Bounds'
    BY <1>1 DEF InOrder, LedgerIsTrue, Bounds, Upto
  <1>3. \A n \in 1..N : Recorded(n) <=> n <= Len(ledger)
    BY RecordedPrefix
  <1>4. Len(ledger) \in Nat
    BY DEF TypeOK
  <1>5. TypeOK'
    <2> USE DEF TypeOK, Stages
    <2>1. CASE Start(p) \/ LookForTable(p) \/ CreateTable(p) \/ Execute(p)
               \/ Record(p) \/ Serve(p)
      BY <2>1, <1>1 DEF Start, LookForTable, CreateTable, Execute, Record, Serve
    <2>2. CASE CreateTableTwice(p) \/ ExecuteFails(p) \/ RecordFails(p) \/ Die(p)
      <3>1. Leave(p) /\ table' = table /\ faults' \in 0..MaxFaults
        BY <2>2 DEF CreateTableTwice, ExecuteFails, RecordFails, Die
      <3>2. at' \in [Processes -> 1..(N + 1)] /\ pc' \in [Processes -> Stages]
        BY <3>1
      <3>3. lock' \in Processes \cup {Nobody}
        BY <3>1
      <3> QED
        BY <3>1, <3>2, <3>3, <1>1
    <2>3. CASE Check(p)
      <3>1. at[p] \in 1..N
        BY <2>3 DEF Check
      <3>2. at[p] + 1 \in 1..(N + 1)
        BY <3>1
      <3>3. at' \in [Processes -> 1..(N + 1)] /\ pc' \in [Processes -> Stages]
        BY <2>3, <3>2 DEF Check
      <3> QED
        BY <2>3, <1>1, <3>3 DEF Check
    <2> QED
      BY <2>1, <2>2, <2>3
  <1>6. Control'
    <2> DEFINE l == Len(ledger)
    <2>1. l \in 0..N /\ Len(ledger') = l /\ at[p] \in 1..(N + 1) /\ N \in Nat
      BY <1>1, <1>4 DEF TypeOK, Bounds
    <2>2. pc \in [Processes -> Stages] /\ at \in [Processes -> Nat]
      BY DEF TypeOK
    <2>len. l = Len(ledger)
      OBVIOUS
    <2> HIDE DEF l
    <2> USE DEF Control, Changing, Past, Stages
    <2>3. CASE Start(p)
      BY <2>len, <2>1, <2>2, <2>3 DEF Start
    <2>4. CASE LookForTable(p) \/ CreateTable(p)
      BY <2>len, <2>1, <2>2, <2>4 DEF LookForTable, CreateTable
    <2>5. CASE CreateTableTwice(p) \/ ExecuteFails(p) \/ RecordFails(p) \/ Die(p)
      BY <2>len, <2>1, <2>2, <2>5 DEF CreateTableTwice, ExecuteFails, RecordFails, Die
    <2>6. CASE Check(p)
      <3>1. at[p] \in 1..N /\ (Recorded(at[p]) <=> at[p] <= l)
        BY <2>6, <2>2, <1>3 DEF Check, l, TypeOK
      <3>2. CASE at' = [at EXCEPT ![p] = @ + 1] /\ pc' = pc /\ at[p] <= l
        BY <2>len, <2>1, <2>2, <2>6, <3>1, <3>2 DEF Check
      <3>3. CASE at' = at /\ pc' = [pc EXCEPT ![p] = "execute"] /\ ~(at[p] <= l)
        BY <2>len, <2>1, <2>2, <2>6, <3>1, <3>3 DEF Check
      <3> QED
        BY <2>6, <3>1, <3>2, <3>3 DEF Check, Applied
    <2>7. CASE Execute(p)
      BY <2>len, <2>1, <2>2, <2>7 DEF Execute
    <2>8. CASE Record(p)
      BY <2>len, <2>1, <2>2, <2>8, <1>3 DEF Record, KeyIsFree
    <2>9. CASE Serve(p)
      BY <2>len, <2>1, <2>2, <2>9 DEF Serve
    <2> QED
      BY <2>3, <2>4, <2>5, <2>6, <2>7, <2>8, <2>9
  <1> QED
    BY <1>2, <1>5, <1>6

\* A commit, whether its process learns of it or not.
LEMMA CommitSteps ==
    ASSUME IInv, NEW p \in Processes, Commit(p) \/ CommitLost(p)
    PROVE  IInv'
  <1> DEFINE k == Len(ledger)
  <1>1. /\ pc[p] = "commit" /\ lock = p /\ at[p] = k + 1 /\ at[p] <= N
        /\ ledger' = Append(ledger, at[p])
        /\ schema' = Made(at[p], schema)
        /\ old' = old /\ table' = table
    BY DEF Commit, CommitLost, Effect, IInv, Control, Changing
  <1>2. k \in 0..N /\ k + 1 \in 1..N /\ ledger = Upto(k)
    BY <1>1 DEF IInv, TypeOK, InOrder
  <1>len. k = Len(ledger)
    OBVIOUS
  <1> HIDE DEF k
  <1>3. ledger' = Upto(k + 1)
    <2>1. Append(Upto(k), k + 1) = Upto(k + 1)
      <3>1. k \in Nat
        BY <1>2
      <3> QED
        BY <3>1, UptoNext, Zenon
    <2> QED
      BY <1>1, <1>2, <1>len, <2>1, Zenon
  <1>4. ledger' \in Seq(1..N) /\ Len(ledger') = k + 1
    BY <1>2, <1>3, UptoLength
  <1>5. InOrder' /\ Bounds'
    <2>1. InOrder'
      BY <1>3, <1>4 DEF InOrder
    <2>2. old \in 0..k
      BY <1>len, <1>2 DEF IInv, Bounds, TypeOK
    <2> QED
      BY <1>1, <1>2, <1>4, <2>1, <2>2 DEF Bounds
  <1>6. LedgerIsTrue' /\ schema' \subseteq 1..N
    <2>1. CASE k = 0
      <3>1. ledger = <<>>
        BY <2>1, <1>2, <1>len DEF IInv, TypeOK
      <3>2. schema = {} /\ old = 0
        BY <2>1, <3>1, <1>len DEF IInv, LedgerIsTrue, Bounds, TypeOK
      <3>3. schema' = InFirst
        BY <1>1, <2>1, <3>2 DEF Made
      <3>4. ledger' # <<>> /\ 1..Len(ledger') = {1}
        BY <1>4, <2>1
      <3> QED
        BY <1>1, <3>2, <3>3, <3>4 DEF LedgerIsTrue
    <2>2. CASE k > 0
      <3>1. schema' = schema \cup {k + 1}
        BY <1>1, <1>2, <2>2 DEF Made
      <3>2. ledger # <<>> /\ ledger' # <<>>
        BY <1>4, <1>2, <2>2, <1>len
      <3>3. schema = 1..k \cup (IF old = 0 THEN InFirst ELSE {})
        BY <3>2, <1>len DEF IInv, LedgerIsTrue
      <3>4. 1..(k + 1) = 1..k \cup {k + 1}
        BY <1>2
      <3>5. schema' = 1..(k + 1) \cup (IF old = 0 THEN InFirst ELSE {})
        BY <3>1, <3>3, <3>4
      <3>6. LedgerIsTrue'
        BY <1>1, <1>4, <3>2, <3>5 DEF LedgerIsTrue
      <3> QED
        BY <1>2, <3>5, <3>6
    <2> QED
      BY <1>2, <2>1, <2>2
  <1>7. TypeOK'
    <2>1. at' \in [Processes -> 1..(N + 1)] /\ pc' \in [Processes -> Stages]
      <3>1. at[p] + 1 \in 1..(N + 1) /\ 1 \in 1..(N + 1)
        BY <1>1, <1>2
      <3> QED
        BY <3>1 DEF Commit, CommitLost, GoTo, Leave, IInv, TypeOK, Stages
    <2>2. lock' = Nobody /\ faults' \in 0..MaxFaults
      BY <1>1 DEF Commit, CommitLost, Leave, IInv, TypeOK
    <2>3. table' \in BOOLEAN /\ old' \in 0..N
      BY <1>1 DEF IInv, TypeOK
    <2> QED
      BY <1>4, <1>6, <2>1, <2>2, <2>3 DEF TypeOK
  <1>8. Control'
    <2>1. \A q \in Processes \ {p} : pc[q] \notin Changing /\ pc'[q] = pc[q] /\ at'[q] = at[q]
      BY <1>1 DEF Commit, CommitLost, GoTo, Leave, IInv, TypeOK, Control
    <2>2. \/ pc'[p] = "check" /\ at'[p] = k + 2
          \/ pc'[p] = "down" /\ at'[p] = 1
      BY <1>1, <1>2 DEF Commit, CommitLost, GoTo, Leave, IInv, TypeOK
    <2>3. lock' = Nobody
      BY <1>1 DEF Commit, CommitLost, Leave
    <2>4. at \in [Processes -> Nat]
      BY DEF IInv, TypeOK
    <2>5. Len(ledger') = k + 1 /\ k \in Nat /\ N \in Nat
      BY <1>2, <1>4
    <2> SUFFICES ASSUME NEW q \in Processes
                 PROVE  /\ pc'[q] \in Changing <=> lock' = q
                        /\ pc'[q] \notin Past => at'[q] = 1
                        /\ pc'[q] \in Past => at'[q] <= k + 2
                        /\ pc'[q] \in {"execute", "record", "commit"} => at'[q] <= N
                        /\ pc'[q] = "commit" => at'[q] = k + 2
                        /\ pc'[q] = "serve" => at'[q] = N + 1
      BY <2>5 DEF Control
    <2>6. CASE q = p
      BY <2>2, <2>3, <2>5, <2>6 DEF Changing, Past
    <2>7. CASE q # p
      <3>1. /\ pc[q] \notin Past => at[q] = 1
            /\ pc[q] \in Past => at[q] <= k + 1
            /\ pc[q] \in {"execute", "record", "commit"} => at[q] <= N
            /\ pc[q] = "serve" => at[q] = N + 1
        BY <1>len DEF IInv, Control
      <3>2. pc[q] \notin Changing /\ pc'[q] = pc[q] /\ at'[q] = at[q] /\ at[q] \in Nat
        BY <2>1, <2>4, <2>7
      <3> QED
        BY <3>1, <3>2, <2>3, <2>5 DEF Changing, Past
    <2> QED
      BY <2>6, <2>7
  <1> QED
    BY <1>5, <1>6, <1>7, <1>8 DEF IInv

\* Every step of a migrator keeps it.
LEMMA NextInv == IInv /\ [Next]_vars => IInv'
  <1> SUFFICES ASSUME IInv, [Next]_vars PROVE IInv'
    OBVIOUS
  <1>1. CASE UNCHANGED vars
    BY <1>1 DEF vars, IInv, TypeOK, Control, Bounds, InOrder, LedgerIsTrue, Upto
  <1>2. CASE Next
    BY <1>2, QuietSteps, CommitSteps DEF Next, Run
  <1> QED
    BY <1>1, <1>2

\* The inductive invariant of the migrations.
THEOREM Invariance == Spec => []IInv
  BY InitInv, NextInv, PTL DEF Spec

\* Every variable keeps its type.
THEOREM TypeCorrect == Spec => []TypeOK
  <1>1. IInv => TypeOK
    BY DEF IInv
  <1> QED
    BY <1>1, Invariance, PTL

\* Files are recorded once each and in order (Run, runOne).
THEOREM LedgerInOrder == Spec => []InOrder
  <1>1. IInv => InOrder
    BY DEF IInv
  <1> QED
    BY <1>1, Invariance, PTL

\* The ledger says what happened to the tables (runOne's transaction).
THEOREM LedgerTrue == Spec => []LedgerIsTrue
  <1>1. IInv => LedgerIsTrue
    BY DEF IInv
  <1> QED
    BY <1>1, Invariance, PTL

\* A process serves a complete schema only (main calls Run before it serves).
THEOREM CompleteWhenServing == Spec => []ServesComplete
  <1>1. IInv => ServesComplete
    <2> SUFFICES ASSUME IInv, NEW p \in Processes, pc[p] = "serve"
                 PROVE  ledger = Upto(N) /\ schema = 1..N
      BY DEF ServesComplete
    <2>1. Len(ledger) = N
      BY DEF IInv, Control, Past, Bounds, TypeOK
    <2> QED
      BY <2>1 DEF IInv, InOrder, LedgerIsTrue
  <1> QED
    BY <1>1, Invariance, PTL

=============================================================================
