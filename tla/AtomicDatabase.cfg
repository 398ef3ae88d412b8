CONSTANTS
    k1 = k1
    v1 = v1
    Keys = {k1, k2}
    Vals = {v1}
    Absent = Absent
    LegacySeq = 1
    LegacyMap <- OneLegacyKey
    FileSyncLinks = TRUE
    AppendMayFail = FALSE
    MaxOps = 2
    MaxBatch = 2
    MaxCrash = 3
SPECIFICATION Spec
INVARIANTS LogSound AckedStable
PROPERTY RefinesStore
