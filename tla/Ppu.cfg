SPECIFICATION FairSpec
CONSTANTS
    DOTS_OAM = 9
    DOTS_DRAW = 11
    DOTS_HBLANK = 10
    DOTS_VBLANK = 57
    DOTS_VBLANK_LINE = 19
    VisibleLines = 3
    LastLine = 5
    MaxTicks = 2
    MaxLy = 7
    WrittenRegs <- AllRegs
    StatValues <- WrittenToStat
    LyValues <- SmallLyAndBeyond
    MaxDots = 11
INVARIANTS
    OnSchedule
    LinesInOrder
    LyFollowsBeam
    PhaseEndsInTime
PROPERTIES
    StatShowsMode
    VblankAnnounced
    FramesGoOn
