SPECIFICATION FairSpec
CONSTANTS
    Devices <- MCDevices
    Typed <- MCTyped
    MaxWaiting = 2
    MaxFocus = 1
    SpuriousWakeups = TRUE
INVARIANTS
    StartMeansPolling
    EachEndedOnce
    UsedWhileOn
    StuckOnlyByFocus
PROPERTIES
    MainMovesOn
    KeysAreHandled
CHECK_DEADLOCK FALSE
