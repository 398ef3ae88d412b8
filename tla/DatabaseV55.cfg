CONSTANTS
    Threads = {t1, t2}
    NoOne = NoOne
    WalBatch = 2
    MaxOps = 2
    MaxCalls = 2
    MaxSeg = 3
    MaxFault = 2
SPECIFICATION FairSpec
INVARIANTS AckedRecoverable OnlyHeaderMissing FrontierContiguous StrandedOnlyByClose
PROPERTY EventuallyDurable
CHECK_DEADLOCK FALSE
