SPECIFICATION Spec
CONSTANTS
    NoToken = NoToken
    Tokens = {t1, t2}
    Workers = {w1}
    Cap = 1
    MaxStarts = 1
    FaultyStarts = 1
    Faults = {"disconnect"}
INVARIANTS
    QueuedIsWaiting
CHECK_DEADLOCK FALSE
