SPECIFICATION FairSpec
CONSTANTS
    Streams = {stdout, stderr}
    Stdout = stdout
    Limit = 1
    PipeCap = 2
    MaxBytes = 2
INVARIANTS
    NoSilentDrop
    OverflowIsReal
    VerdictIsFair
PROPERTIES
    RunEnds
    OverflowStops
CHECK_DEADLOCK FALSE
