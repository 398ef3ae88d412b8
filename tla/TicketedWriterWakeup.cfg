CONSTANTS
    Threads = {t1, t2}
    NoOne = NoOne
    WalBatch = 2
    MaxSeq = 2
    MaxCalls = 2
    MaxSpurious = 1
SPECIFICATION FairSpec
PROPERTIES WaitReturns
CHECK_DEADLOCK FALSE
