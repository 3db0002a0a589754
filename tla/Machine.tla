------------------------------- MODULE Machine ------------------------------
(***************************************************************************)
(* exec_next of monitor.c with both of its halves: Processor executes one  *)
(* instruction, then the picture unit of Ppu is refreshed by the cycles it *)
(* took, and requests its interrupts.  The two share the                   *)
(* registers LCDC, STAT, LY and LYC, which the program reads and writes at *)
(* their addresses while the picture unit changes them.                    *)
(*                                                                         *)
(* The timing and the screen are the code's own; what is bounded is the    *)
(* number of frames.                                                       *)
(*                                                                         *)
(* A definition named <definition>_<slip> is not part of the model: it is  *)
(* the definition after a plausible slip in the code.                      *)
(***************************************************************************)
EXTENDS Processor

CONSTANTS Counter,      \* where they count the vertical blanks they handle
          MaxFrames     \* bound on the vertical blanks

ASSUME MachineAssumption == MaxFrames \in Nat

VARIABLES
    cpu,                \* the structure cpu
    turn,               \* whose turn it is in exec_next: "cpu" or "ppu"
    lcdc_on, mode, dots_remaining, vblank_dots, ly, lyc, stat, raised,
    drawn, elapsed, ly_written,      \* the picture unit, as in Ppu
    blanks              \* history: the vertical blanks so far

ppu == <<lcdc_on, mode, dots_remaining, vblank_dots, ly, lyc, stat, raised,
         drawn, elapsed, ly_written>>
vars == <<cpu, turn, ppu, blanks>>

\* LY is not set to 153, which cuts a phase short, where the dots that are left
\* and those of the four phases would be more than an int16_t holds.
MaxDots == 32767 - (80 + 230 + 145 + 4560)

\* An instruction takes up to six cycles.
P == INSTANCE Ppu WITH
        DOTS_OAM <- 80, DOTS_DRAW <- 230, DOTS_HBLANK <- 145,
        DOTS_VBLANK <- 4560, DOTS_VBLANK_LINE <- 456,
        VisibleLines <- 144, LastLine <- 153, MaxTicks <- 6, MaxLy <- 255,
        WrittenRegs <- {"LCDC", "STAT", "LY", "LYC"},
        StatValues <- SUBSET (0..7), LyValues <- Byte,
        MaxDots <- MaxDots

LCDC == 65344
STAT == 65345
LY == 65348
LYC == 65349

Init ==
    /\ \E cart \in DOMAIN Cartridges : cpu = Boot(cart)
    /\ turn = "cpu"
    /\ P!Init
    /\ blanks = 0

\* The memory as the program finds it: ppu_rd answers for the registers of the
\* picture unit, of which LCDC is kept with the rest of the memory here.
ppu_rd(s) ==
    [s EXCEPT !.mem = Written(Written(Written(@, LYC, lyc), LY, ly), STAT, OfBits(stat))]

\* What the instruction, or the interrupt after it, leaves in them reaches the
\* picture unit: a value that is written again changes nothing there, and of LCDC
\* bit 7 does.  Bound: at most one of the four changes in a turn.  Left out so are
\* the words that lie on two of them, FF40 and FF41 or FF44 and FF45: pushed there
\* by an instruction or an interrupt, or written by LD (a16),SP; and a turn whose
\* instruction writes one of the four before an interrupt pushes onto another.
Shown(s, addr) ==
    LET value == monitor_rd_mem(s, addr)
    IN IF addr = LCDC THEN Bit(value, 7) ELSE value
Touched(before, after) ==
    {addr \in {LCDC, STAT, LY, LYC} : Shown(before, addr) # Shown(after, addr)}
ppu_wr(before, after) ==
    LET touched == Touched(before, after)
    IN  \/ touched = {} /\ UNCHANGED ppu
        \/ touched = {LCDC} /\ P!WriteLcdc
        \/ touched = {STAT} /\ P!WriteStat /\ stat' = Bits(Shown(after, STAT))
        \/ touched = {LY} /\ P!WriteLy /\ ly' = Shown(after, LY)
        \/ touched = {LYC} /\ P!WriteLyc /\ lyc' = Shown(after, LYC)

cpu_exec_next ==
    LET before == ppu_rd(cpu)
        after == handle_intrs(Clocked(before))
    IN  /\ turn = "cpu" /\ blanks < MaxFrames
        /\ turn' = "ppu"
        /\ ppu_wr(before, after)
        /\ cpu' = after
        /\ UNCHANGED blanks

Request(s, interrupts) ==
    LET bit == [VBLANK |-> VBLANK, LCD |-> LCD]
    IN  [s EXCEPT !.if_reg = OfBits(Bits(@) \cup {bit[i] : i \in interrupts})]

ppu_refresh_dots ==
    /\ turn = "ppu"
    /\ turn' = "cpu"
    /\ P!ppu_refresh(4 * cpu.cycles)
    /\ cpu' = Request(cpu, raised')
    /\ blanks' = IF "VBLANK" \in raised' THEN blanks + 1 ELSE blanks
ppu_refresh ==
    /\ turn = "ppu"
    /\ turn' = "cpu"
    /\ P!ppu_refresh(cpu.cycles)
    /\ cpu' = Request(cpu, raised')
    /\ blanks' = IF "VBLANK" \in raised' THEN blanks + 1 ELSE blanks

Next == cpu_exec_next \/ ppu_refresh
Spec == Init /\ [][Next]_vars

-----------------------------------------------------------------------------
(* Correctness.                                                            *)

\* Driven by the instructions of a program, the picture unit does what it does
\* in Ppu, where an instruction takes any time up to six cycles: so what is
\* proved of Ppu for every such sequence holds of it here.
PpuSpec == P!Spec

\* Every vertical blank is handled, and once, before the next one comes: the
\* request outlives the instruction in which it is made, a halted processor
\* wakes for it, and neither a handler nor another request swallows it.
BlanksHandledOnce ==
    blanks - monitor_rd_mem(cpu, Counter) \in {0, 1}

Enters(k) == turn = "cpu" /\ cpu'.pc = Handler(k)

\* A program that never holds interrupts off for a whole line handles the
\* vertical blank within it, and an interrupt of LYC on that line (but not on
\* the last line, 153, which is over with the next instruction); one that waits
\* for LY to turn the screen off does so in the vertical blank.
ProgramsMeetTheBeam ==
    [][/\ Enters(VBLANK) => mode = "VBLANK"
       /\ Enters(LCD) /\ lyc # 153 => ly = lyc
       /\ lcdc_on /\ ~lcdc_on' => mode = "VBLANK"]_vars
=============================================================================
