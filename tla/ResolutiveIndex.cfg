CONSTANTS
    Keys = {k1, k2, k3}
    Vals = {v1, v2}
    NoVal = NoVal
    Hashes = {0, 3, 6, 7}
    InitialCap = 2
    LoadNum = 9
    LoadDen = 10
    MaxCap = 8
    SizeMod = 16
    MaxThreads = 2
SPECIFICATION FairSpec
INVARIANTS TableSound SizeCatchesUp
PROPERTIES GetAgrees OperationEnds
