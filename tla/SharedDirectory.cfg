CONSTANTS
    Handles = {h1, h2}
    MaxV1 = 2
    MaxBatch = 3
    MaxSeg = 2
    MaxOpen = 3
    MaxFault = 1
SYMMETRY HandleSymmetry
SPECIFICATION DirSpec
INVARIANTS InOrder ReadsPrefixOfV1 AckedShown AckedRecoverable
CHECK_DEADLOCK FALSE
