SPECIFICATION Spec
CONSTANTS
    DOTS_OAM = 80
    DOTS_DRAW = 230
    DOTS_HBLANK = 145
    DOTS_VBLANK = 4560
    DOTS_VBLANK_LINE = 456
    VisibleLines = 144
    LastLine = 153
    MaxTicks = 6
    MaxLy = 255
    WrittenRegs <- AllRegs
    StatValues <- WrittenToStat
    LyValues <- LyBeyond
    MaxDots = 27752
PROPERTIES
    DrawInBounds
