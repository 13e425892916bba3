SPECIFICATION Spec
CONSTANTS
    Streams = {stdout, stderr}
    Stdout = stdout
    Limit = 2
    PipeCap = 2
    MaxBytes = 1
INVARIANT TruncationIsFlagged
CHECK_DEADLOCK FALSE
