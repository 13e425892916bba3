SPECIFICATION Spec
CONSTANTS
    Limit = 1
    Expected = 1
    MaxRuns = 2
    Times <- MCTimes
    Memories <- MCMemories
INVARIANTS
    StopsAtFirstFailure
    ReportsTheRuns
    BlamesTheCause
CHECK_DEADLOCK FALSE
