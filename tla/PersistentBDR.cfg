CONSTANTS
    Keys = {k1}
    Vals = {v1}
    NoVal = NoVal
    SegmentOps = 2
    GroupCommit = 2
    IOErrors = TRUE
    MaxSeq = 3
    MaxSeg = 2
    MaxCrash = 2
SPECIFICATION Spec
CONSTRAINT Claimed
INVARIANTS AckedRecovered ExactPrefix RejectsOnlyFaults
CHECK_DEADLOCK FALSE
