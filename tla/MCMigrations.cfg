SPECIFICATION FairSpec
CONSTANTS
    Processes = {p1, p2, p3}
    Nobody = Nobody
    N = 5
    InFirst <- MCInFirst
    MaxFaults = 2
INVARIANTS
    InOrder
    LedgerIsTrue
    ServesComplete
PROPERTIES
    EveryoneServes
CHECK_DEADLOCK FALSE
