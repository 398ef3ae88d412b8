CONSTANTS
    Threads = {t1, t2}
    NoOne = NoOne
    WalBatch = 2
    MaxSeq = 3
    MaxCalls = 2
    MaxSpurious = 1
SPECIFICATION FairSpec
INVARIANTS TypeOK FrontierExact CheckpointQuiescent DrainedExit
PROPERTIES EventuallyDurable ErrorWakesWaiters
CHECK_DEADLOCK FALSE
