SPECIFICATION FairSpec
CONSTANTS
    Clients = {c1, c2}
    DbErrors = TRUE
INVARIANTS
    AnswerTrue
PROPERTIES
    WaitEnds
CHECK_DEADLOCK FALSE
