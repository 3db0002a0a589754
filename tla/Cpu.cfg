SPECIFICATION Spec
CONSTANTS
    Cartridges <- MCCartridges
    BootImage <- MCBootImage
    Private <- MCPrivate
    StackBase = 65472
    MaxRequests = 1
INVARIANTS
    ProgramContract
PROPERTIES
    InterruptsTransparent
    ClocksCountCycles
    TimerEndsHalt
    RequestsAreTaken
