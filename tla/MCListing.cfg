SPECIFICATION Spec
CONSTANTS
    Tokens <- MCTokens
    NoToken = 0
    MaxTime = 2
    Asked <- MCAsked
    DefaultLimit = 1
    MaxLimit = 2
INVARIANTS
    WellPaged
    NoneMissed
CHECK_DEADLOCK FALSE
