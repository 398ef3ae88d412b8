CONSTANTS
    k1 = k1
    v1 = v1
    Keys = {k1}
    Vals = {v1}
    Absent = Absent
    LegacySeq = 0
    LegacyMap <- NoLegacyKey
    FileSyncLinks = TRUE
    AppendMayFail = TRUE
    MaxOps = 1
    MaxBatch = 4
    MaxCrash = 3
SPECIFICATION Spec
INVARIANT RejectsOnlyReuse
