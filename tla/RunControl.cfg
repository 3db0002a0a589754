SPECIFICATION Spec
CONSTANTS
    Addr <- Addrs3
    Repertoire <- Kinds
    SpuriousWakeups = FALSE
    MaxBreaks = 2
    MaxRequests <- NoBound
INVARIANTS
    InspectQuiescent
    BreakpointOvershoot
    NextOvershoot
    NoticeIsCurrent
PROPERTIES
    GateSpec
CHECK_DEADLOCK FALSE
