SPECIFICATION Spec
CONSTANTS
    Cartridges <- MCCartridges
    BootImage <- MCBootImage
    Counter = 65408
    MaxFrames = 3
INVARIANTS
    BlanksHandledOnce
PROPERTIES
    PpuSpec
    ProgramsMeetTheBeam
CHECK_DEADLOCK FALSE
