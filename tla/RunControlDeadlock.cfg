SPECIFICATION Spec
CONSTANTS
    Addr <- Addrs2
    Repertoire <- Debugger
    SpuriousWakeups = FALSE
    MaxBreaks = 1
    MaxRequests = 2
INVARIANTS
    NeverBothAsleep
CHECK_DEADLOCK FALSE
