-------------------------------- MODULE Ppu --------------------------------
(***************************************************************************)
(* The picture unit (src/emu/ppu.c): the phases of a frame, counted in     *)
(* dots after every instruction (ppu_refresh), the line register LY, the   *)
(* status register STAT, the interrupts requested on the way, and the      *)
(* registers that the emulated program writes (wr_reg).                    *)
(*                                                                         *)
(* A register of flags is the set of its bits that are 1.  The pixels of a *)
(* line are left out: of ppu_render_line only the line it draws is kept.   *)
(*                                                                         *)
(* A definition named <definition>_<slip> is not part of the model: it is  *)
(* the definition after a plausible slip in the code.                      *)
(***************************************************************************)
EXTENDS Integers, FiniteSets

CONSTANTS
    DOTS_OAM, DOTS_DRAW, DOTS_HBLANK, DOTS_VBLANK, DOTS_VBLANK_LINE,
    VisibleLines,       \* 144 lines are drawn
    LastLine,           \* the vertical blank ends at line 0x99
    MaxTicks,           \* an instruction takes 1..MaxTicks machine cycles
    MaxLy,              \* the largest value of an 8 bit register: 255
    WrittenRegs,        \* the registers that the emulated program writes
    StatValues, LyValues,   \* the values that it writes to STAT, LY, LYC
    MaxDots             \* bound: LY is set to LastLine with no more dots left

ASSUME PpuAssumption ==
    /\ {DOTS_OAM, DOTS_DRAW, DOTS_HBLANK, DOTS_VBLANK, DOTS_VBLANK_LINE,
        VisibleLines, LastLine, MaxTicks} \subseteq Nat \ {0}
    /\ VisibleLines <= LastLine
    /\ \A dots \in {DOTS_OAM, DOTS_DRAW, DOTS_HBLANK, DOTS_VBLANK,
                   DOTS_VBLANK_LINE} : 4 * MaxTicks <= dots
    /\ MaxLy \in Nat /\ LastLine < MaxLy
    /\ StatValues \subseteq SUBSET (0..7)
    /\ LyValues \subseteq 0..MaxLy
    /\ MaxDots \in Nat

VARIABLES
    lcdc_on,            \* bit 7 of LCDC
    mode,
    dots_remaining,
    vblank_dots,
    ly,
    lyc,
    stat,
    raised,             \* the interrupts that the last step requested
    drawn,              \* history: the lines drawn in this frame
    elapsed,            \* history: the dots since the start of this frame
    ly_written          \* history: LY was written since LCDC was

\* drawn and elapsed are 0 from the first write to LY on.
registers == <<lcdc_on, lyc, ly_written>>
vars == <<registers, mode, dots_remaining, vblank_dots, ly, stat, raised,
          drawn, elapsed>>

Modes == {"HBLANK", "VBLANK", "OAM", "DRAW"}

\* The bits of STAT: two for the mode, the LY = LYC flag, four enables; the
\* eighth is stored and has no meaning.
MODE_BITS == {0, 1}
LY_LYC_FLAG == 2
STAT_INTR_HBLANK == 3
STAT_INTR_VBLANK == 4
STAT_INTR_OAM == 5
STAT_INTR_LYLC == 6

ModeBits(m) ==
    CASE m = "HBLANK" -> {} [] m = "VBLANK" -> {0}
      [] m = "OAM" -> {1}   [] m = "DRAW" -> {0, 1}

\* The ppu_t of static storage.
Init ==
    /\ lcdc_on = FALSE
    /\ mode = "HBLANK"
    /\ dots_remaining = 0 /\ vblank_dots = 0
    /\ ly = 0 /\ lyc = 0 /\ stat = {}
    /\ raised = {} /\ drawn = 0 /\ elapsed = 0 /\ ly_written = FALSE

-----------------------------------------------------------------------------
(* ppu_refresh                                                              *)

Ticks == 1..MaxTicks
CYCLES_TO_DOTS(ticks) == 4 * ticks

\* The line register has 8 bits.
NextLy == (ly + 1) % (MaxLy + 1)

\* check_ly_lyc, when LY becomes line.
StatAtLine(line) ==
    IF line = lyc THEN stat \cup {LY_LYC_FLAG} ELSE stat \ {LY_LYC_FLAG}
LycRequest_Before(line) ==
    IF ly = lyc /\ STAT_INTR_LYLC \in stat THEN {"LCD"} ELSE {}
LycRequest(line) ==
    IF line = lyc /\ STAT_INTR_LYLC \in stat THEN {"LCD"} ELSE {}

\* An interrupt of STAT, when its enable bit is set.
StatRequest(bit) == IF bit \in stat THEN {"LCD"} ELSE {}

PhaseOver_BelowZero(ticks) ==
    dots_remaining - CYCLES_TO_DOTS(ticks) < 0 \/ ly = LastLine
PhaseOver(ticks) ==
    \/ dots_remaining - CYCLES_TO_DOTS(ticks) <= 0
    \/ ly = LastLine

\* Each phase adds its dots to what the last one left over.
Budget_Restarts(ticks, dots) == dots_remaining' = dots
Budget(ticks, dots) ==
    dots_remaining' = dots_remaining - CYCLES_TO_DOTS(ticks) + dots

\* (history)
Counted(count) == IF ly_written THEN 0 ELSE count
Elapse(ticks) == elapsed' = Counted(elapsed + CYCLES_TO_DOTS(ticks))

EndOam(ticks) ==
    /\ mode = "OAM" /\ PhaseOver(ticks)
    /\ mode' = "DRAW"
    /\ Budget(ticks, DOTS_DRAW)
    /\ stat' = stat \cup MODE_BITS
    /\ raised' = {}
    /\ Elapse(ticks)
    /\ UNCHANGED <<registers, vblank_dots, ly, drawn>>

\* ppu_render_line draws line ly.
EndDraw(ticks) ==
    /\ mode = "DRAW" /\ PhaseOver(ticks)
    /\ mode' = "HBLANK"
    /\ Budget(ticks, DOTS_HBLANK)
    /\ stat' = stat \ MODE_BITS
    /\ raised' = {}
    /\ drawn' = Counted(drawn + 1)
    /\ Elapse(ticks)
    /\ UNCHANGED <<registers, vblank_dots, ly>>

EndHblank_OneLineMore(ticks) ==
    /\ mode = "HBLANK" /\ PhaseOver(ticks)
    /\ NextLy <= VisibleLines
    /\ ly' = NextLy
    /\ mode' = "OAM"
    /\ Budget(ticks, DOTS_OAM)
    /\ stat' = StatAtLine(NextLy) \cup ModeBits("OAM")
    /\ raised' = LycRequest(NextLy) \cup StatRequest(STAT_INTR_OAM)
    /\ Elapse(ticks)
    /\ UNCHANGED <<registers, vblank_dots, drawn>>

\* hblank_end_cycle, with lines left to draw ...
EndHblank(ticks) ==
    /\ mode = "HBLANK" /\ PhaseOver(ticks)
    /\ NextLy < VisibleLines
    /\ ly' = NextLy
    /\ mode' = "OAM"
    /\ Budget(ticks, DOTS_OAM)
    /\ stat' = StatAtLine(NextLy) \cup ModeBits("OAM")
    /\ raised' = LycRequest(NextLy) \cup StatRequest(STAT_INTR_OAM)
    /\ Elapse(ticks)
    /\ UNCHANGED <<registers, vblank_dots, drawn>>

EnterVblank_IfEnabled(ticks) ==
    /\ mode = "HBLANK" /\ PhaseOver(ticks)
    /\ NextLy >= VisibleLines
    /\ ly' = NextLy
    /\ mode' = "VBLANK"
    /\ Budget(ticks, DOTS_VBLANK)
    /\ vblank_dots' = 0
    /\ stat' = StatAtLine(NextLy) \cup ModeBits("VBLANK")
    /\ raised' = LycRequest(NextLy)
                   \cup IF STAT_INTR_VBLANK \in stat THEN {"LCD", "VBLANK"} ELSE {}
    /\ Elapse(ticks)
    /\ UNCHANGED <<registers, drawn>>

\* ... and at the last of them.
EnterVblank(ticks) ==
    /\ mode = "HBLANK" /\ PhaseOver(ticks)
    /\ NextLy >= VisibleLines
    /\ ly' = NextLy
    /\ mode' = "VBLANK"
    /\ Budget(ticks, DOTS_VBLANK)
    /\ vblank_dots' = 0
    /\ stat' = StatAtLine(NextLy) \cup ModeBits("VBLANK")
    /\ raised' = LycRequest(NextLy) \cup StatRequest(STAT_INTR_VBLANK)
                   \cup {"VBLANK"}
    /\ Elapse(ticks)
    /\ UNCHANGED <<registers, drawn>>

\* A frame's worth of dots; history only.
Line == DOTS_OAM + DOTS_DRAW + DOTS_HBLANK
Frame == VisibleLines * Line + DOTS_VBLANK

EndVblank_ModeBitsStay(ticks) ==
    /\ mode = "VBLANK" /\ PhaseOver(ticks)
    /\ ly' = 0
    /\ mode' = "OAM"
    /\ Budget(ticks, DOTS_OAM)
    /\ stat' = StatAtLine(0) \cup ModeBits("OAM")
    /\ raised' = LycRequest(0)
    /\ drawn' = 0
    /\ elapsed' = Counted(elapsed + CYCLES_TO_DOTS(ticks) - Frame)
    /\ UNCHANGED <<registers, vblank_dots>>

\* (the history goes back to the end of the blank)
EndVblank_ModeStays(ticks) ==
    /\ mode = "VBLANK" /\ PhaseOver(ticks)
    /\ ly' = 0
    /\ Budget(ticks, DOTS_OAM)
    /\ stat' = (StatAtLine(0) \ MODE_BITS) \cup ModeBits("OAM")
    /\ raised' = LycRequest(0)
    /\ drawn' = 0
    /\ elapsed' = Counted(elapsed + CYCLES_TO_DOTS(ticks) - DOTS_OAM)
    /\ UNCHANGED <<registers, mode, vblank_dots>>

\* vblank_end_cycle: the picture is shown, the next frame begins.
EndVblank(ticks) ==
    /\ mode = "VBLANK" /\ PhaseOver(ticks)
    /\ ly' = 0
    /\ mode' = "OAM"
    /\ Budget(ticks, DOTS_OAM)
    /\ stat' = (StatAtLine(0) \ MODE_BITS) \cup ModeBits("OAM")
    /\ raised' = LycRequest(0)
    /\ drawn' = 0
    /\ elapsed' = Counted(elapsed + CYCLES_TO_DOTS(ticks) - Frame)
    /\ UNCHANGED <<registers, vblank_dots>>

Stay(ticks) ==
    /\ ~PhaseOver(ticks)
    /\ dots_remaining' = dots_remaining - CYCLES_TO_DOTS(ticks)
    /\ Elapse(ticks)
    /\ UNCHANGED <<registers, mode, drawn>>

StayInPhase(ticks) ==
    /\ mode # "VBLANK"
    /\ Stay(ticks)
    /\ raised' = {}
    /\ UNCHANGED <<vblank_dots, ly, stat>>

\* Within the vertical blank the lines are counted on their own.
StayInVblank(ticks) ==
    /\ mode = "VBLANK"
    /\ Stay(ticks)
    /\ LET dots == vblank_dots + CYCLES_TO_DOTS(ticks) IN
         IF dots >= DOTS_VBLANK_LINE
           THEN /\ ly' = NextLy
                /\ stat' = StatAtLine(NextLy)
                /\ raised' = LycRequest(NextLy)
                /\ vblank_dots' = dots % DOTS_VBLANK_LINE
           ELSE /\ raised' = {}
                /\ vblank_dots' = dots
                /\ UNCHANGED <<ly, stat>>

\* A picture unit that is off does nothing.
RefreshOff(ticks) ==
    /\ ~lcdc_on
    /\ raised' = {}
    /\ UNCHANGED <<registers, mode, dots_remaining, vblank_dots, ly, stat,
                   drawn, elapsed>>

ppu_refresh(ticks) ==
    \/ RefreshOff(ticks)
    \/ /\ lcdc_on
       /\ \/ EndOam(ticks) \/ EndDraw(ticks) \/ EndHblank(ticks)
          \/ EnterVblank(ticks) \/ EndVblank(ticks)
          \/ StayInPhase(ticks) \/ StayInVblank(ticks)

-----------------------------------------------------------------------------
(* wr_reg                                                                   *)

ppu_reset_KeepsLine ==
    /\ dots_remaining' = DOTS_OAM
    /\ mode' = "OAM"
    /\ drawn' = 0 /\ elapsed' = 0
    /\ UNCHANGED ly

\* Turning the picture unit on or off starts the frame over.
ppu_reset ==
    /\ dots_remaining' = DOTS_OAM
    /\ mode' = "OAM"
    /\ ly' = 0
    /\ drawn' = 0 /\ elapsed' = 0

WriteLcdc ==
    /\ "LCDC" \in WrittenRegs
    /\ lcdc_on' = ~lcdc_on
    /\ ppu_reset
    /\ stat' = IF lcdc_on' THEN stat ELSE stat \ MODE_BITS
    /\ raised' = {}
    /\ ly_written' = FALSE
    /\ UNCHANGED <<vblank_dots, lyc>>

WriteStat ==
    /\ "STAT" \in WrittenRegs
    /\ stat' \in StatValues
    /\ raised' = {}
    /\ UNCHANGED <<registers, mode, dots_remaining, vblank_dots, ly, drawn,
                   elapsed>>

\* A phase that LastLine cuts short leaves its dots to the next; written there
\* again and again, they would overflow the 16 bits of dots_remaining.
WriteLy ==
    /\ "LY" \in WrittenRegs
    /\ ly' \in LyValues
    /\ ly' = LastLine => dots_remaining <= MaxDots
    /\ ly_written' = TRUE
    /\ drawn' = 0 /\ elapsed' = 0
    /\ raised' = {}
    /\ UNCHANGED <<lcdc_on, lyc, mode, dots_remaining, vblank_dots, stat>>

WriteLyc ==
    /\ "LYC" \in WrittenRegs
    /\ lyc' \in LyValues
    /\ raised' = {}
    /\ UNCHANGED <<lcdc_on, ly_written, mode, dots_remaining, vblank_dots, ly,
                   stat, drawn, elapsed>>

wr_reg == WriteLcdc \/ WriteStat \/ WriteLy \/ WriteLyc

Refresh == \E ticks \in Ticks : ppu_refresh(ticks)

Next == Refresh \/ wr_reg

Spec == Init /\ [][Next]_vars

\* The emulated program goes on executing, whatever it writes.
FairSpec == Spec /\ WF_vars(Refresh)

-----------------------------------------------------------------------------
(* What the picture unit promises                                           *)

\* The types of the fields of ppu_t; dots_remaining is an int16_t.
TypeOK ==
    /\ lcdc_on \in BOOLEAN
    /\ mode \in Modes
    /\ dots_remaining \in -32768..32767
    /\ vblank_dots \in Nat
    /\ ly \in 0..MaxLy /\ lyc \in 0..MaxLy
    /\ stat \subseteq 0..7
    /\ raised \subseteq {"LCD", "VBLANK"}
    /\ drawn \in Nat /\ elapsed \in Int /\ ly_written \in BOOLEAN

\* The dots due by the end of the current phase of the frame.
Due ==
    CASE mode = "OAM"    -> ly * Line + DOTS_OAM
      [] mode = "DRAW"   -> ly * Line + DOTS_OAM + DOTS_DRAW
      [] mode = "HBLANK" -> ly * Line + Line
      [] mode = "VBLANK" -> Frame

\* LY is the beam's from the moment the unit is turned on, as long as the program
\* does not write it.
Undisturbed == lcdc_on /\ ~ly_written

\* However the instructions straddle the phases, no dot is lost or gained: the
\* picture keeps in step with the processor for ever.
OnSchedule == Undisturbed => elapsed + dots_remaining = Due

\* A phase ends with the instruction that uses it up, and none is skipped: what
\* an instruction takes over its end is less than the next phase has.
PhaseEndsInTime == lcdc_on => dots_remaining > 0

\* The lines of a frame are drawn once each and from the top.
LinesInOrder ==
    Undisturbed =>
        drawn = CASE mode = "VBLANK" -> VisibleLines
                  [] mode = "HBLANK" -> ly + 1
                  [] OTHER -> ly

\* In the vertical blank LY counts its lines, and has not passed the last one;
\* everywhere else it names a visible line.
LyFollowsBeam ==
    Undisturbed =>
        IF mode = "VBLANK"
          THEN /\ ly \in VisibleLines..LastLine
               /\ (ly - VisibleLines) * DOTS_VBLANK_LINE + vblank_dots
                    + dots_remaining
                    \in (DOTS_VBLANK - CYCLES_TO_DOTS(MaxTicks) + 1)..DOTS_VBLANK
          ELSE ly < VisibleLines

\* What STAT should show: the mode, and 0 while the unit is off.
StatShown == stat \cap MODE_BITS = IF lcdc_on THEN ModeBits(mode) ELSE {}
TurnOn == ~lcdc_on /\ lcdc_on'

\* Whatever the program has written to STAT (which writes the mode bits over), a
\* phase of drawing, a horizontal blank, the first line after a vertical blank and
\* turning the unit off make STAT show what it should; it goes on showing it, in
\* the phases that only add a bit to what they find too, until the program
\* writes STAT or turns the unit on.  That begins a phase OAM and leaves STAT as it
\* was, so that STAT shows no mode for that phase if it was not written meanwhile.
StatShowsMode ==
    [][/\ StatShown /\ ~WriteStat /\ ~TurnOn => StatShown'
       /\ TurnOn => stat' \cap MODE_BITS = stat \cap MODE_BITS
       /\ lcdc_on /\ mode # mode' /\ (mode = "VBLANK" \/ mode' \in {"DRAW", "HBLANK"})
            => StatShown'
       /\ lcdc_on /\ ~lcdc_on' => StatShown']_vars

\* The vertical blank is announced exactly when it begins.
VblankAnnounced ==
    [][("VBLANK" \in raised') <=> (mode # "VBLANK" /\ mode' = "VBLANK")]_vars

\* Frames go on as long as the unit is on: a vertical blank ends, whatever the
\* program writes, and the next one comes unless the program goes on writing LY for
\* ever (one that sets it to 0 on every line never gets there).
FramesGoOn ==
    /\ ([]<><<WriteLy>>_vars) \/ (lcdc_on ~> mode = "VBLANK" \/ ~lcdc_on)
    /\ mode = "VBLANK" ~> mode # "VBLANK"

-----------------------------------------------------------------------------
(* What the code says of itself and does not keep                           *)

\* render.c:44 asserts y <= 144 for every pixel that ppu_render_line draws.
DrawInBounds ==
    [][mode = "DRAW" /\ mode' = "HBLANK" => ly <= VisibleLines]_vars
=============================================================================
