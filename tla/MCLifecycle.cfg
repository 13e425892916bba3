SPECIFICATION FairSpec
CONSTANTS
    NoToken = NoToken
    Tokens = {t1, t2}
    Workers = {w1, w2}
    Cap = 1
    MaxStarts = 3
    FaultyStarts = 2
    Faults = {"db", "lost", "disconnect", "signal", "crash", "net"}
INVARIANTS
    SingleHolder
    HolderAgrees
    CallbackAtMostOnce
    RecoveredFirst
PROPERTIES
    ResultIsFinal
    KeepsContract
    UnfinishedFinishes
    CallbackRecorded
    RecoveryEnds
    ShutdownEnds
CHECK_DEADLOCK FALSE
