SPECIFICATION Spec
CONSTANTS
    Cartridges <- MCCartridges
    BootImage <- MCBootImage
    Plain = "plain"
    WriteTo <- MCWriteTo
    ReadFrom <- MCReadFrom
    Operands <- MCOperands
    Edges <- MCEdges
    Stacks <- MCStacks
INVARIANTS
    SumsAgree
    DaaAdjusts
    LengthsAgree
    RoundTrips
    BanksFollowWrites
CHECK_DEADLOCK FALSE
