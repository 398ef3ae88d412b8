CONSTANTS
    Keys = {k1}
    Vals = {v1}
    Absent = Absent
    WalBatch = 2
    FileSyncLinks = TRUE
    MaxSeq = 2
    MaxSeg = 3
    MaxCrash = 2
SPECIFICATION Spec
INVARIANTS TypeOK AckedStable ExactPrefix RecoveryErrors
PROPERTY RefinesStore
