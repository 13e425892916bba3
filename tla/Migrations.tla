------------------------------ MODULE Migrations ------------------------------
(***************************************************************************)
(* migrations.Run, as main() calls it in every process that starts with    *)
(* DATABASE_RUN_MIGRATIONS: make the table schema_migrations, then go      *)
(* through the embedded files by name and run, in one transaction each,    *)
(* those that are not recorded.  Several processes may start on one        *)
(* database, and each may die at any point and be started again.           *)
(*                                                                         *)
(* Feature n is what file n adds.  The first file has grown with the       *)
(* releases: on a database without tables it makes InFirst at once.        *)
(***************************************************************************)
EXTENDS Integers, Sequences

CONSTANTS
    Processes,  \* processes that use the database
    N,          \* number of embedded files, in the order of sort.Strings
    InFirst,    \* the features of later files that file 1 makes in a new database
    Nobody,     \* who has a lock that is free
    MaxFaults   \* bound: statements that fail, lost answers, signals and kills

ASSUME FilesAssumption  == N \in Nat \ {0} /\ InFirst \subseteq 1..N /\ 1 \in InFirst
ASSUME NobodyAssumption == Nobody \notin Processes
ASSUME FaultAssumption  == MaxFaults \in Nat

VARIABLES
    table,   \* schema_migrations exists
    ledger,  \* its versions, in the order of their commits
    schema,  \* the features that are committed
    old,     \* the release that made the database; 0 for a new one
    lock,    \* whose transaction has changed tables and not ended
    pc,      \* where each process is
    at,      \* the file each process has come to
    faults   \* faults so far

vars == <<table, ledger, schema, old, lock, pc, at, faults>>

Upto(k) == [i \in 1..k |-> i]

\* The database is new, or release k left it with its first k files applied.
Init ==
    /\ old \in 0..N
    /\ table = (old > 0)
    /\ ledger = Upto(old)
    /\ schema = 1..old
    /\ lock = Nobody
    /\ pc = [p \in Processes |-> "down"]
    /\ at = [p \in Processes |-> 1]
    /\ faults = 0

Recorded(n) == \E i \in DOMAIN ledger : ledger[i] = n

GoTo(p, where) == pc' = [pc EXCEPT ![p] = where]

\* The process is gone, and PostgreSQL rolls its transaction back.
Leave(p) ==
    /\ GoTo(p, "down")
    /\ at' = [at EXCEPT ![p] = 1]
    /\ lock' = IF lock = p THEN Nobody ELSE lock

Start(p) ==
    /\ pc[p] = "down"
    /\ GoTo(p, "create")
    /\ UNCHANGED <<table, ledger, schema, old, lock, at, faults>>

-----------------------------------------------------------------------------
(* CREATE TABLE IF NOT EXISTS schema_migrations *)

\* The statement looks for the table, and goes on if there is one.
LookForTable(p) ==
    /\ pc[p] = "create"
    /\ GoTo(p, IF table THEN "check" ELSE "creating")
    /\ UNCHANGED <<table, ledger, schema, old, lock, at, faults>>

CreateTable(p) ==
    /\ pc[p] = "creating"
    /\ ~table
    /\ table' = TRUE
    /\ GoTo(p, "check")
    /\ UNCHANGED <<ledger, schema, old, lock, at, faults>>

\* Somebody made it after the look: PostgreSQL reports a duplicate name, Run an
\* error, and main() leaves through os.Exit(1).
CreateTableTwice(p) ==
    /\ pc[p] = "creating"
    /\ table
    /\ Leave(p)
    /\ UNCHANGED <<table, ledger, schema, old, faults>>

-----------------------------------------------------------------------------
(* runOne, for each name *)

\* A look at schema_migrations without the name would be AnyApplied.
AnyApplied(n) == ledger # <<>>
Applied(n)    == Recorded(n)

Check(p) ==
    /\ pc[p] = "check"
    /\ at[p] <= N
    /\ \/ /\ Applied(at[p])
          /\ at' = [at EXCEPT ![p] = @ + 1]
          /\ UNCHANGED pc
       \/ /\ ~Applied(at[p])
          /\ GoTo(p, "execute")
          /\ UNCHANGED at
    /\ UNCHANGED <<table, ledger, schema, old, lock, faults>>

\* What a file makes of the schema: its statements can be repeated.
Made(n, s) == IF n = 1 THEN (IF 1 \in s THEN s ELSE s \cup InFirst) ELSE s \cup {n}

\* A later file alters the table that the first one makes.  Files that said ADD
\* COLUMN and CREATE INDEX alone would have Repeated.
Repeated(n, s) == IF n = 1 THEN 1 \in s ELSE 1 \notin s \/ n \in s
Fails(n, s)    == n > 1 /\ 1 \notin s

\* A file that is executed outside of the transaction would be ExecuteAtOnce.
ExecuteAtOnce(p) ==
    /\ pc[p] = "execute"
    /\ lock = Nobody
    /\ ~Fails(at[p], schema)
    /\ schema' = Made(at[p], schema)
    /\ GoTo(p, "record")
    /\ UNCHANGED <<table, ledger, old, lock, at, faults>>

\* BEGIN and the file: its statements lock what they change until the end of the
\* transaction, and wait for a lock that another transaction has.
Execute(p) ==
    /\ pc[p] = "execute"
    /\ lock = Nobody
    /\ ~Fails(at[p], schema)
    /\ lock' = p
    /\ GoTo(p, "record")
    /\ UNCHANGED <<table, ledger, schema, old, at, faults>>

\* The file fails, or, after a wait, finds that somebody has made its objects.
ExecuteFails(p) ==
    /\ pc[p] = "execute"
    /\ lock = Nobody
    /\ Fails(at[p], schema) \/ Recorded(at[p])
    /\ Leave(p)
    /\ UNCHANGED <<table, ledger, schema, old, faults>>

\* The key of schema_migrations; a table without it would have NoKey.
NoKey(n)     == TRUE
KeyIsFree(n) == ~Recorded(n)

Record(p) ==
    /\ pc[p] = "record"
    /\ KeyIsFree(at[p])
    /\ GoTo(p, "commit")
    /\ UNCHANGED <<table, ledger, schema, old, lock, at, faults>>

RecordFails(p) ==
    /\ pc[p] = "record"
    /\ ~KeyIsFree(at[p])
    /\ Leave(p)
    /\ UNCHANGED <<table, ledger, schema, old, faults>>

\* The transaction of p takes effect.
Effect(p) ==
    /\ ledger' = Append(ledger, at[p])
    /\ schema' = Made(at[p], schema)

Commit(p) ==
    /\ pc[p] = "commit"
    /\ Effect(p)
    /\ lock' = Nobody
    /\ at' = [at EXCEPT ![p] = @ + 1]
    /\ GoTo(p, "check")
    /\ UNCHANGED <<table, old, faults>>

\* Run returned and main() goes on.
Serve(p) ==
    /\ pc[p] = "check"
    /\ at[p] > N
    /\ GoTo(p, "serve")
    /\ UNCHANGED <<table, ledger, schema, old, lock, at, faults>>

-----------------------------------------------------------------------------

\* A statement fails, the context is cancelled, or the process is killed.
Die(p) ==
    /\ pc[p] # "down"
    /\ faults < MaxFaults
    /\ faults' = faults + 1
    /\ Leave(p)
    /\ UNCHANGED <<table, ledger, schema, old>>

\* The COMMIT takes effect, and the process dies or loses the answer.
CommitLost(p) ==
    /\ pc[p] = "commit"
    /\ faults < MaxFaults
    /\ faults' = faults + 1
    /\ Effect(p)
    /\ Leave(p)
    /\ UNCHANGED <<table, old>>

Run(p) ==
    \/ LookForTable(p) \/ CreateTable(p) \/ CreateTableTwice(p)
    \/ Check(p) \/ Execute(p) \/ ExecuteFails(p)
    \/ Record(p) \/ RecordFails(p) \/ Commit(p)
    \/ Serve(p)

Next == \E p \in Processes : Start(p) \/ Run(p) \/ Die(p) \/ CommitLost(p)

Spec == Init /\ [][Next]_vars

\* Every statement ends, and whoever runs the process starts it again.
Fairness == \A p \in Processes : WF_vars(Start(p)) /\ WF_vars(Run(p))
FairSpec == Spec /\ Fairness

-----------------------------------------------------------------------------
(* What the migrations promise. *)

Stages == {"down", "create", "creating", "check", "execute", "record", "commit",
           "serve"}

\* Every variable has its type.
TypeOK ==
    /\ table \in BOOLEAN
    /\ ledger \in Seq(1..N)
    /\ schema \subseteq 1..N
    /\ old \in 0..N
    /\ lock \in Processes \cup {Nobody}
    /\ pc \in [Processes -> Stages]
    /\ at \in [Processes -> 1..(N + 1)]
    /\ faults \in 0..MaxFaults

\* Files are recorded once each and in the order of their names, whoever runs them
\* and wherever processes die (Run sorts the names, the version is a key).
InOrder == ledger = Upto(Len(ledger))

\* What is recorded is what happened to the tables, at every instant that another
\* connection can see (runOne records a file in the transaction that runs it).
LedgerIsTrue ==
    schema = (1..Len(ledger)) \cup (IF old = 0 /\ ledger # <<>> THEN InFirst ELSE {})

\* A process serves only when every feature its queries need is there, whatever
\* release made the database (main calls Run before it builds the repository).
ServesComplete ==
    \A p \in Processes : pc[p] = "serve" => ledger = Upto(N) /\ schema = 1..N

\* The process that loses a race to another dies of it, but it does not do so for
\* ever: once the faults are over every process that is started again serves, on a
\* new database and on one of each earlier release.
EveryoneServes == <>[](\A p \in Processes : pc[p] = "serve")

=============================================================================
