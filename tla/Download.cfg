SPECIFICATION FairSpec
CONSTANTS
    t1 = t1  t2 = t2  i1 = i1  i2 = i2  None = None
    Threads <- MCThreads
    Images <- MCImages
    Size = 2
    StatMax = 1
    Retries = 1
    Faults <- MCFaults
INVARIANTS
    DownloadTypeOK
    CompleteIsWhole
    CanceledByUser
PROPERTIES
    EveryDownloadEnds
CHECK_DEADLOCK FALSE
