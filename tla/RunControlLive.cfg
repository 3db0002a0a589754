SPECIFICATION FairSpec
CONSTANTS
    Addr <- Addrs2
    Repertoire <- Debugger
    SpuriousWakeups = TRUE
    MaxBreaks = 1
    MaxRequests = 4
INVARIANTS
    SleeperIsStopped
PROPERTIES
    StopAcknowledged
    ResumeExecutes
CHECK_DEADLOCK FALSE
