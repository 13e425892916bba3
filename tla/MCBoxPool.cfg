SPECIFICATION PoolSpec
CONSTANTS
    NoBox = NoBox
    Workers = {w1, w2, w3}
    Boxes = {b1, b2, b3}
INVARIANTS
    PoolIsWhole
    RunsInFreshBox
    NeverWaits
SYMMETRY Symmetry
