---------------------------- MODULE MachineProofs ---------------------------
(***************************************************************************)
(* Proofs about Machine, for any program: whatever it executes, the        *)
(* picture unit it drives keeps to the specification of Ppu.               *)
(***************************************************************************)
EXTENDS Machine, ProcessorProofs

\* Between an instruction and the refresh after it, the cycles it took are
\* there for the picture unit; its registers hold bytes.
MachineInv ==
    /\ cpu \in CpuType
    /\ turn = "ppu" => cpu.cycles \in 1..6
    /\ ly \in Byte /\ lyc \in Byte

-----------------------------------------------------------------------------
(* The registers of the picture unit in the memory of the program.          *)

LEMMA RegisterAddresses == LCDC \in Word /\ STAT \in Word /\ LY \in Word /\ LYC \in Word
  BY Ranges DEF LCDC, STAT, LY, LYC

LEMMA PutMemory ==
    ASSUME NEW s \in CpuType, NEW m \in Memory
    PROVE  [s EXCEPT !.mem = m] \in CpuType
  BY DEF CpuType, CpuFields

LEMMA ReadsTyped ==
    ASSUME NEW s \in CpuType, ly \in Byte, lyc \in Byte
    PROVE  ppu_rd(s) \in CpuType
<1> DEFINE m1 == Written(s.mem, LYC, lyc)
           m2 == Written(m1, LY, ly)
           m3 == Written(m2, STAT, OfBits(stat))
<1>0. s.mem \in Memory /\ OfBits(stat) \in Byte
  BY Fields, OfBitsType
<1>1. m1 \in Memory
  BY <1>0, MemoryType, RegisterAddresses
<1> HIDE DEF m1
<1>2. m2 \in Memory
  BY <1>1, MemoryType, RegisterAddresses
<1> HIDE DEF m2
<1>3. m3 \in Memory
  BY <1>0, <1>2, MemoryType, RegisterAddresses
<1>4. ppu_rd(s) = [s EXCEPT !.mem = m3]
  BY DEF ppu_rd, m1, m2
<1> HIDE DEF m3
<1> QED BY <1>3, <1>4, PutMemory

\* The processor's half: the instruction, its clocks and the interrupt after it.
LEMMA TurnTyped ==
    ASSUME NEW s \in CpuType
    PROVE  Lands(handle_intrs(Clocked(s)))
<1>1. Clocked(s) \in CpuType /\ Clocked(s).cycles \in 1..6
  BY ClockedType DEF Lands
<1> QED BY <1>1, HandlerType DEF Lands

LEMMA RequestTyped ==
    ASSUME NEW s \in CpuType, NEW interrupts
    PROVE  Request(s, interrupts) \in CpuType
<1> DEFINE S == Bits(s.if_reg) \cup {[VBLANK |-> VBLANK, LCD |-> LCD][i] : i \in interrupts}
<1>1. OfBits(S) \in Byte
  BY OfBitsType
<1>2. Request(s, interrupts) = [s EXCEPT !.if_reg = OfBits(S)]
  BY DEF Request
<1> HIDE DEF S
<1> QED BY <1>1, <1>2, PutRequests

\* The picture unit keeps LY and LYC within a byte.
LEMMA LineIsByte ==
    ASSUME ly \in Byte, lyc \in Byte, P!Next \/ UNCHANGED ppu
    PROVE  ly' \in Byte /\ lyc' \in Byte
<1>1. 0 \in Byte /\ P!NextLy \in Byte
  <2>1. ly \in Int
    BY Ranges
  <2> QED BY <2>1, Ranges DEF P!NextLy
<1>2. CASE UNCHANGED ppu
  BY <1>2 DEF ppu
<1>3. CASE P!wr_reg
  BY <1>1, <1>3 DEF P!wr_reg, P!WriteLcdc, P!WriteStat, P!WriteLy, P!WriteLyc,
        P!ppu_reset, P!registers
<1>4. CASE P!Refresh
  <2>1. PICK ticks \in P!Ticks : P!ppu_refresh(ticks)
    BY <1>4 DEF P!Refresh
  <2> QED BY <1>1, <2>1 DEF P!ppu_refresh, P!RefreshOff, P!EndOam, P!EndDraw,
        P!EndHblank, P!EnterVblank, P!EndVblank, P!StayInPhase, P!StayInVblank,
        P!Stay, P!registers
<1> QED BY <1>2, <1>3, <1>4 DEF P!Next

-----------------------------------------------------------------------------
(* The two halves of exec_next.                                             *)

\* What an instruction writes is a write of Ppu, or none.
LEMMA WritesRefine ==
    ASSUME NEW before, NEW after, ppu_wr(before, after)
    PROVE  P!Next \/ UNCHANGED ppu
  BY DEF ppu_wr, P!Next, P!wr_reg

LEMMA RefreshRefines ==
    ASSUME MachineInv, ppu_refresh
    PROVE  P!Next
<1>1. cpu.cycles \in P!Ticks
  BY DEF MachineInv, ppu_refresh, P!Ticks
<1> QED BY <1>1 DEF ppu_refresh, P!Next, P!Refresh

LEMMA PpuUnchanged == UNCHANGED ppu => UNCHANGED P!vars
  BY DEF ppu, P!vars, P!registers

LEMMA MachineInit == Init => MachineInv
<1> SUFFICES ASSUME Init PROVE MachineInv
  OBVIOUS
<1>1. PICK cart \in DOMAIN Cartridges : cpu = Boot(cart)
  BY DEF Init
<1>2. cpu \in CpuType
  BY <1>1, BootType
<1>3. turn # "ppu" /\ ly \in Byte /\ lyc \in Byte
  BY Ranges DEF Init, P!Init
<1> QED BY <1>2, <1>3 DEF MachineInv

LEMMA MachineStep ==
    ASSUME MachineInv, [Next]_vars
    PROVE  MachineInv' /\ (P!Next \/ UNCHANGED ppu)
<1>1. CASE cpu_exec_next
  <2> DEFINE before == ppu_rd(cpu)
             after == handle_intrs(Clocked(before))
  <2>1. before \in CpuType
    BY ReadsTyped DEF MachineInv
  <2>2. cpu' = after /\ ppu_wr(before, after)
    BY <1>1 DEF cpu_exec_next
  <2> HIDE DEF before
  <2>3. Lands(after)
    BY <2>1, TurnTyped
  <2> HIDE DEF after
  <2>4. P!Next \/ UNCHANGED ppu
    BY <2>2, WritesRefine
  <2>5. ly' \in Byte /\ lyc' \in Byte
    BY <2>4, LineIsByte DEF MachineInv
  <2> QED BY <2>2, <2>3, <2>4, <2>5 DEF MachineInv, Lands
<1>2. CASE ppu_refresh
  <2>1. P!Next
    BY <1>2, RefreshRefines
  <2>2. ly' \in Byte /\ lyc' \in Byte
    BY <2>1, LineIsByte DEF MachineInv
  <2>3. cpu' \in CpuType
    BY <1>2, RequestTyped DEF MachineInv, ppu_refresh
  <2>4. turn' # "ppu"
    BY <1>2 DEF ppu_refresh
  <2> QED BY <2>1, <2>2, <2>3, <2>4 DEF MachineInv
<1>3. CASE UNCHANGED vars
  BY <1>3 DEF vars, ppu, MachineInv
<1> QED BY <1>1, <1>2, <1>3 DEF Next

\* In every state that a program brings the machine to, the registers of the
\* processor are within their widths, and the instruction that exec_next hands to
\* ppu_refresh took from 1 to 6 cycles.
THEOREM MachineInvariant == Spec => []MachineInv
<1>1. MachineInv /\ [Next]_vars => MachineInv'
  BY MachineStep
<1> QED BY <1>1, MachineInit, PTL DEF Spec

\* exec_next drives the picture unit as Ppu says, for every program: each
\* instruction writes at most what wr_reg may write, and each refresh counts the
\* 1 to 6 cycles of an instruction.
THEOREM PictureInStep == Spec => PpuSpec
<1>1. Init => P!Init
  BY DEF Init
<1>2. MachineInv /\ [Next]_vars => [P!Next]_(P!vars)
  BY MachineStep, PpuUnchanged
<1> QED BY <1>1, <1>2, MachineInvariant, PTL DEF Spec, PpuSpec, P!Spec

-----------------------------------------------------------------------------
(* What is proved of Ppu, for the machine.                                  *)

PP == INSTANCE PpuProofs WITH
        DOTS_OAM <- 80, DOTS_DRAW <- 230, DOTS_HBLANK <- 145,
        DOTS_VBLANK <- 4560, DOTS_VBLANK_LINE <- 456,
        VisibleLines <- 144, LastLine <- 153, MaxTicks <- 6, MaxLy <- 255,
        WrittenRegs <- {"LCDC", "STAT", "LY", "LYC"},
        StatValues <- SUBSET (0..7), LyValues <- Byte,
        MaxDots <- MaxDots

\* The timing and the screen of the code are among those of PpuProofs.
LEMMA TimingAdmitted == PP!PpuAssumption
<1>1. Byte \subseteq 0..255
  BY DEF Byte, UINT8_MAX
<1> QED BY <1>1 DEF PP!PpuAssumption, MaxDots

\* Both instances of Ppu say the same.
LEMMA SamePpu == P!Spec <=> PP!Spec
<1>1. P!Init <=> PP!Init
  BY DEF P!Init, PP!Init
<1>2. P!vars = PP!vars /\ P!vars' = PP!vars'
  BY DEF P!vars, PP!vars, P!registers, PP!registers
<1>3. P!wr_reg <=> PP!wr_reg
  BY DEF P!wr_reg, P!WriteLcdc, P!WriteStat, P!WriteLy, P!WriteLyc, P!ppu_reset,
         P!registers, P!MODE_BITS,
         PP!wr_reg, PP!WriteLcdc, PP!WriteStat, PP!WriteLy, PP!WriteLyc,
         PP!ppu_reset, PP!registers, PP!MODE_BITS
<1>4. ASSUME NEW ticks PROVE P!ppu_refresh(ticks) <=> PP!ppu_refresh(ticks)
  BY DEF P!ppu_refresh, P!RefreshOff, P!EndOam, P!EndDraw, P!EndHblank,
         P!EnterVblank, P!EndVblank, P!StayInPhase, P!StayInVblank, P!Stay,
         P!PhaseOver, P!Budget, P!Elapse, P!Counted, P!NextLy, P!StatAtLine, P!LycRequest,
         P!StatRequest, P!ModeBits, P!registers, P!CYCLES_TO_DOTS, P!Frame, P!Line,
         P!MODE_BITS, P!LY_LYC_FLAG, P!STAT_INTR_VBLANK, P!STAT_INTR_OAM,
         P!STAT_INTR_LYLC,
         PP!ppu_refresh, PP!RefreshOff, PP!EndOam, PP!EndDraw, PP!EndHblank,
         PP!EnterVblank, PP!EndVblank, PP!StayInPhase, PP!StayInVblank, PP!Stay,
         PP!PhaseOver, PP!Budget, PP!Elapse, PP!Counted, PP!NextLy, PP!StatAtLine,
         PP!LycRequest, PP!StatRequest, PP!ModeBits, PP!registers,
         PP!CYCLES_TO_DOTS, PP!Frame, PP!Line, PP!MODE_BITS, PP!LY_LYC_FLAG,
         PP!STAT_INTR_VBLANK, PP!STAT_INTR_OAM, PP!STAT_INTR_LYLC
<1>5. P!Next <=> PP!Next
  BY <1>3, <1>4 DEF P!Next, PP!Next, P!Refresh, PP!Refresh, P!Ticks, PP!Ticks
<1>6. [P!Next]_(P!vars) <=> [PP!Next]_(PP!vars)
  BY <1>2, <1>5
<1> QED BY <1>1, <1>6, PTL DEF P!Spec, PP!Spec

\* Whatever program exec_next runs, with the timing of the code: from turning the
\* picture unit on until the program writes LY no dot is lost between it and the
\* processor, the lines are drawn once each and from the top, and LY follows the
\* beam; and whatever it writes, each phase ends with the instruction that uses it
\* up.
PictureFollows ==
    P!OnSchedule /\ P!LinesInOrder /\ P!LyFollowsBeam /\ P!PhaseEndsInTime

\* It holds for every program: exec_next refines Ppu, and Ppu keeps it.
THEOREM PictureFollowsProgram == Spec => []PictureFollows
<1> DEFINE Follows == /\ PP!OnSchedule /\ PP!LinesInOrder
                      /\ PP!LyFollowsBeam /\ PP!PhaseEndsInTime
<1>1. PP!Spec => []Follows
  BY TimingAdmitted, PP!BeamInStep, PP!BeamInOrder, PP!BeamOnTime, PP!PhasesEnd, PTL
<1>2. /\ PP!OnSchedule <=> P!OnSchedule
      /\ PP!LinesInOrder <=> P!LinesInOrder
      /\ PP!LyFollowsBeam <=> P!LyFollowsBeam
      /\ PP!PhaseEndsInTime <=> P!PhaseEndsInTime
  BY DEF P!OnSchedule, P!LinesInOrder, P!LyFollowsBeam, P!PhaseEndsInTime,
         P!Undisturbed, P!Due, P!Line, P!Frame, P!CYCLES_TO_DOTS,
         PP!OnSchedule, PP!LinesInOrder, PP!LyFollowsBeam, PP!PhaseEndsInTime,
         PP!Undisturbed, PP!Due, PP!Line, PP!Frame, PP!CYCLES_TO_DOTS
<1>3. Follows => PictureFollows
  BY <1>2 DEF PictureFollows
<1> QED BY <1>1, <1>3, SamePpu, PictureInStep, PTL DEF PpuSpec

\* Whatever the program writes, a vertical blank is requested with the refresh in
\* which it begins, and in no other step.
THEOREM BlanksAnnounced == Spec => P!VblankAnnounced
<1> DEFINE A == ("VBLANK" \in raised') <=> (mode # "VBLANK" /\ mode' = "VBLANK")
<1>1. PP!Spec => PP!VblankAnnounced
  BY TimingAdmitted, PP!BlankAnnounced, PTL
<1>2. P!vars = PP!vars /\ P!vars' = PP!vars'
  BY DEF P!vars, PP!vars, P!registers, PP!registers
<1>3. [A]_(PP!vars) => [A]_(P!vars)
  BY <1>2
<1>4. PP!VblankAnnounced => P!VblankAnnounced
  BY <1>3, PTL DEF PP!VblankAnnounced, P!VblankAnnounced
<1> QED BY <1>1, <1>4, SamePpu, PictureInStep, PTL DEF PpuSpec

-----------------------------------------------------------------------------
(* Requests of the picture unit.                                            *)

\* An interrupt never pushes its return address onto a register of the processor.
StackAway ==
    LET done == Clocked(ppu_rd(cpu))
    IN  turn = "cpu" /\ Accepts(done) => PushesAway(done)

\* Every vertical blank is requested when it is counted, and the request waits
\* until its handler is entered or an instruction writes IF.
BlanksWaitForTheirHandler ==
    [][/\ blanks' # blanks => VBLANK \in Bits(cpu'.if_reg)
       /\ VBLANK \in Bits(cpu.if_reg) /\ VBLANK \notin Bits(cpu'.if_reg)
             => /\ turn = "cpu"
                /\ \/ cpu'.pc = Handler(VBLANK)
                   \/ VBLANK \notin Bits(Execute(ppu_rd(cpu)).if_reg)]_vars

LEMMA RequestKeeps ==
    ASSUME NEW s \in CpuType, NEW interrupts
    PROVE  LET t == Request(s, interrupts)
           IN  /\ VBLANK \in Bits(s.if_reg) => VBLANK \in Bits(t.if_reg)
               /\ "VBLANK" \in interrupts => VBLANK \in Bits(t.if_reg)
<1> DEFINE bit == [VBLANK |-> VBLANK, LCD |-> LCD]
           S == Bits(s.if_reg) \cup {bit[i] : i \in interrupts}
           n == OfBits(S)
           t == Request(s, interrupts)
<1>1. t = [s EXCEPT !.if_reg = n]
  BY DEF Request
<1>2. VBLANK \in Interrupts
  BY DEF VBLANK, Interrupts
<1>3. VBLANK \in Bits(s.if_reg) => VBLANK \in S
  OBVIOUS
<1>4. "VBLANK" \in interrupts => VBLANK \in S
  <2>1. bit["VBLANK"] = VBLANK
    OBVIOUS
  <2> HIDE DEF bit
  <2> QED BY <2>1
<1> HIDE DEF S
<1>5. VBLANK \in S => VBLANK \in Bits(n)
  BY <1>2, KeptBits
<1> HIDE DEF n, t
<1>6. t.if_reg = n
  BY <1>1 DEF CpuType, CpuFields
<1> QED BY <1>3, <1>4, <1>5, <1>6 DEF t

\* What BlanksHandledOnce asks of the machine: between ppu_refresh and
\* handle_intrs no vertical blank is lost, whatever the program does, as long as
\* its stack is away from the registers of the processor.
THEOREM BlanksKept == Spec /\ []StackAway => BlanksWaitForTheirHandler
<1> DEFINE A == /\ blanks' # blanks => VBLANK \in Bits(cpu'.if_reg)
                /\ VBLANK \in Bits(cpu.if_reg) /\ VBLANK \notin Bits(cpu'.if_reg)
                      => /\ turn = "cpu"
                         /\ \/ cpu'.pc = Handler(VBLANK)
                            \/ VBLANK \notin Bits(Execute(ppu_rd(cpu)).if_reg)
<1>1. ASSUME MachineInv, StackAway, cpu_exec_next PROVE A
  <2> DEFINE before == ppu_rd(cpu)
  <2>1. before \in CpuType
    BY <1>1, ReadsTyped DEF MachineInv
  <2>2. cpu' = handle_intrs(Clocked(before)) /\ turn = "cpu" /\ blanks' = blanks
    BY <1>1 DEF cpu_exec_next
  <2>3. Accepts(Clocked(before)) => PushesAway(Clocked(before))
    BY <1>1, <2>2 DEF StackAway
  <2>4. VBLANK \in Interrupts
    BY DEF VBLANK, Interrupts
  <2> HIDE DEF before
  <2>5. VBLANK \in Bits(Execute(before).if_reg) =>
           VBLANK \in Bits(cpu'.if_reg) \/ cpu'.pc = Handler(VBLANK)
    BY <2>1, <2>2, <2>3, <2>4, RequestsWait
  <2> QED BY <2>2, <2>5 DEF before
<1>2. ASSUME MachineInv, ppu_refresh PROVE A
  <2>1. /\ cpu' = Request(cpu, raised')
        /\ blanks' = IF "VBLANK" \in raised' THEN blanks + 1 ELSE blanks
    BY <1>2 DEF ppu_refresh
  <2>2. blanks' # blanks => "VBLANK" \in raised'
    BY <2>1
  <2> QED BY <1>2, <2>1, <2>2, RequestKeeps DEF MachineInv
<1>3. MachineInv /\ StackAway /\ [Next]_vars => [A]_vars
  BY <1>1, <1>2 DEF Next
<1> QED BY <1>3, MachineInvariant, PTL DEF Spec, BlanksWaitForTheirHandler
=============================================================================
