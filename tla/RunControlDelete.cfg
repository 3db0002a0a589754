SPECIFICATION Spec
CONSTANTS
    Addr <- Addrs2
    Repertoire <- Debugger
    SpuriousWakeups = FALSE
    MaxBreaks = 2
    MaxRequests = 4
PROPERTIES
    DeleteForgets
CHECK_DEADLOCK FALSE
