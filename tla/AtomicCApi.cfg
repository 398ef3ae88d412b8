CONSTANTS
    Threads = {t1, t2}
    Keys = {k1, k2}
    Null = Null
    Sizes = {0, 1}
    MaxKeys = 2
    MaxBatch = 2
    MaxCalls = 4
    MaxFault = 1
SYMMETRY ApiSymmetry
SPECIFICATION Spec
INVARIANTS BlocksOwned ReadsWithinCall ResultsTrue
CHECK_DEADLOCK FALSE
