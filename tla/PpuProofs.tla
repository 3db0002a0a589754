----------------------------- MODULE PpuProofs -----------------------------
(***************************************************************************)
(* Proofs about Ppu, for every timing and size of the screen that          *)
(* PpuAssumption admits, and for every program: what a write to LY         *)
(* disturbs is promised from turning the unit on to the first such write.  *)
(***************************************************************************)
EXTENDS Ppu, TLAPS

\* What holds between the beam, the dots and the lines; the first conjuncts
\* give the types that the arithmetic needs.
BeamInv ==
    /\ lcdc_on \in BOOLEAN /\ mode \in Modes
    /\ dots_remaining \in Int /\ elapsed \in Int /\ drawn \in Int
    /\ vblank_dots \in Nat /\ ly \in 0..MaxLy /\ ly_written \in BOOLEAN
    /\ lcdc_on /\ mode = "VBLANK" => vblank_dots < DOTS_VBLANK_LINE
    /\ PhaseEndsInTime /\ OnSchedule /\ LinesInOrder /\ LyFollowsBeam

\* The assumption on the constants, as the facts that the steps use.
LEMMA Constants ==
    /\ DOTS_OAM \in Nat \ {0} /\ DOTS_DRAW \in Nat \ {0}
    /\ DOTS_HBLANK \in Nat \ {0} /\ DOTS_VBLANK \in Nat \ {0}
    /\ DOTS_VBLANK_LINE \in Nat \ {0} /\ VisibleLines \in Nat \ {0}
    /\ LastLine \in Nat \ {0} /\ MaxTicks \in Nat \ {0} /\ MaxLy \in Nat
    /\ VisibleLines <= LastLine /\ LastLine < MaxLy
    /\ 4 * MaxTicks <= DOTS_VBLANK_LINE /\ 4 * MaxTicks <= DOTS_VBLANK
    /\ 4 * MaxTicks <= DOTS_OAM /\ 4 * MaxTicks <= DOTS_DRAW
    /\ 4 * MaxTicks <= DOTS_HBLANK
  BY PpuAssumption

\* One more line takes a line's dots more.
LEMMA OneMoreLine ==
    ASSUME NEW n \in Nat
    PROVE  /\ Line \in Nat /\ n * Line \in Nat /\ Frame \in Nat
           /\ (n + 1) * Line = n * Line + Line
  BY Constants DEF Line, Frame

\* LY wraps around only past its largest value.
LEMMA NextLyIsSucc ==
    ASSUME ly \in 0..MaxLy, ly < MaxLy
    PROVE  NextLy = ly + 1
  BY Constants DEF NextLy

\* LY stays an 8 bit register.
LEMMA NextLyType ==
    ASSUME ly \in 0..MaxLy
    PROVE  NextLy \in 0..MaxLy
  <1>0. ly + 1 \in Nat
    BY Constants
  <1>1. ASSUME NEW n \in Nat, NEW m \in Nat \ {0} PROVE n % m \in 0..(m - 1)
    OBVIOUS
  <1>2. MaxLy + 1 \in Nat \ {0} /\ (MaxLy + 1) - 1 = MaxLy
    BY Constants
  <1>3. (ly + 1) % (MaxLy + 1) \in 0..((MaxLy + 1) - 1)
    BY <1>0, <1>1, <1>2
  <1> QED BY <1>2, <1>3 DEF NextLy

\* The remainder of a number between n and 2n.
LEMMA ModOnce ==
    ASSUME NEW d \in Nat, NEW n \in Nat \ {0}, n <= d, d < 2 * n
    PROVE  d % n = d - n
  OBVIOUS

\* A line further down, the beam has a line's dots less before it.
LEMMA Balance ==
    ASSUME NEW t \in Int,
           VisibleLines \in Nat, DOTS_VBLANK_LINE \in Nat,
           ly \in Nat, VisibleLines <= ly,
           vblank_dots \in Int, dots_remaining \in Int,
           vblank_dots' = vblank_dots + t - DOTS_VBLANK_LINE,
           dots_remaining' = dots_remaining - t
    PROVE  ((ly + 1) - VisibleLines) * DOTS_VBLANK_LINE
              + vblank_dots' + dots_remaining'
             = (ly - VisibleLines) * DOTS_VBLANK_LINE
                 + vblank_dots + dots_remaining
  <1> DEFINE into == ly - VisibleLines
             before == into * DOTS_VBLANK_LINE
  <1>1. into \in Nat /\ (ly + 1) - VisibleLines = into + 1
    OBVIOUS
  <1> HIDE DEF into
  <1>2. before \in Int /\ (into + 1) * DOTS_VBLANK_LINE = before + DOTS_VBLANK_LINE
    BY <1>1
  <1> HIDE DEF before
  <1>3. before + DOTS_VBLANK_LINE + vblank_dots' + dots_remaining'
          = before + vblank_dots + dots_remaining
    BY <1>2
  <1> QED BY <1>1, <1>2, <1>3 DEF into, before

\* Every step of a program that leaves LY alone keeps the beam in order: the
\* phases of ppu_refresh take exactly their dots, each line is drawn once and in
\* turn, and the vertical blank is over before LY passes its last line.
THEOREM BeamInvariant == Spec => []BeamInv
  <1>1. Init => BeamInv
    <2> SUFFICES ASSUME Init PROVE BeamInv
      OBVIOUS
    <2>1. ~lcdc_on
      BY DEF Init
    <2>2. mode \in Modes
      BY DEF Init, Modes
    <2>3. /\ dots_remaining \in Int /\ elapsed \in Int /\ drawn \in Int
          /\ vblank_dots \in Nat
      BY DEF Init
    <2>4. ly \in 0..MaxLy
      BY Constants DEF Init
    <2>5. PhaseEndsInTime /\ OnSchedule /\ LinesInOrder /\ LyFollowsBeam
      BY <2>1, Zenon DEF PhaseEndsInTime, OnSchedule, LinesInOrder,
         LyFollowsBeam, Undisturbed
    <2>6. lcdc_on \in BOOLEAN /\ ly_written \in BOOLEAN
      BY Zenon DEF Init
    <2> QED
      BY <2>1, <2>2, <2>3, <2>4, <2>5, <2>6, Zenon DEF BeamInv
  <1>2. BeamInv /\ [Next]_vars => BeamInv'
    <2> SUFFICES ASSUME BeamInv, [Next]_vars
                 PROVE  BeamInv'
      OBVIOUS
    <2> USE Constants DEF BeamInv, Modes, PhaseEndsInTime, OnSchedule,
            LinesInOrder, LyFollowsBeam, Undisturbed, Counted,
            CYCLES_TO_DOTS, registers
    <2>1. ASSUME NEW ticks \in Ticks, RefreshOff(ticks)
          PROVE  BeamInv'
      BY <2>1 DEF RefreshOff
    <2>2. ASSUME NEW ticks \in Ticks, lcdc_on, EndOam(ticks)
          PROVE  BeamInv'
      <3> USE <2>2, OneMoreLine DEF EndOam, PhaseOver, Budget, Elapse, Ticks
      <3>1. Due = ly * Line + DOTS_OAM /\ Due' = ly * Line + DOTS_OAM + DOTS_DRAW
        BY DEF Due
      <3>2. OnSchedule'
        BY <3>1
      <3>3. PhaseEndsInTime'
        OBVIOUS
      <3>4. LinesInOrder'
        OBVIOUS
      <3>5. LyFollowsBeam'
        OBVIOUS
      <3>6. /\ lcdc_on' \in BOOLEAN /\ mode' \in Modes
            /\ dots_remaining' \in Int /\ elapsed' \in Int /\ drawn' \in Int
            /\ vblank_dots' \in Nat /\ ly' \in 0..MaxLy /\ ly_written' \in BOOLEAN
            /\ mode' = "VBLANK" => vblank_dots' < DOTS_VBLANK_LINE
        OBVIOUS
      <3> QED BY <3>2, <3>3, <3>4, <3>5, <3>6
    <2>3. ASSUME NEW ticks \in Ticks, lcdc_on, EndDraw(ticks)
          PROVE  BeamInv'
      <3> USE <2>3, OneMoreLine DEF EndDraw, PhaseOver, Budget, Elapse, Ticks
      <3>1. Due = ly * Line + DOTS_OAM + DOTS_DRAW /\ Due' = ly * Line + Line
        BY DEF Due
      <3>2. OnSchedule'
        BY <3>1 DEF Line
      <3>3. PhaseEndsInTime'
        OBVIOUS
      <3>4. LinesInOrder'
        OBVIOUS
      <3>5. LyFollowsBeam'
        OBVIOUS
      <3>6. /\ lcdc_on' \in BOOLEAN /\ mode' \in Modes
            /\ dots_remaining' \in Int /\ elapsed' \in Int /\ drawn' \in Int
            /\ vblank_dots' \in Nat /\ ly' \in 0..MaxLy /\ ly_written' \in BOOLEAN
            /\ mode' = "VBLANK" => vblank_dots' < DOTS_VBLANK_LINE
        OBVIOUS
      <3> QED BY <3>2, <3>3, <3>4, <3>5, <3>6
    <2>4. ASSUME NEW ticks \in Ticks, lcdc_on, EndHblank(ticks)
          PROVE  BeamInv'
      <3> USE <2>4 DEF EndHblank, PhaseOver, Budget, Elapse, Ticks
      <3>1. PhaseEndsInTime'
        OBVIOUS
      <3>2. /\ lcdc_on' \in BOOLEAN /\ mode' \in Modes
            /\ dots_remaining' \in Int /\ elapsed' \in Int /\ drawn' \in Int
            /\ vblank_dots' \in Nat /\ ly' \in 0..MaxLy /\ ly_written' \in BOOLEAN
            /\ mode' = "VBLANK" => vblank_dots' < DOTS_VBLANK_LINE
        BY NextLyType
      <3>3. CASE ly_written
        BY <3>1, <3>2, <3>3
      <3>4. CASE ~ly_written
        <4> USE <3>4
        <4>1. ly \in Nat /\ ly < VisibleLines /\ ly' = ly + 1
          BY NextLyIsSucc
        <4>2. Due = ly * Line + Line /\ Due' = (ly + 1) * Line + DOTS_OAM
          BY <4>1 DEF Due
        <4>3. OnSchedule'
          BY <4>1, <4>2, OneMoreLine
        <4>4. LinesInOrder' /\ LyFollowsBeam'
          BY <4>1
        <4> QED BY <3>1, <3>2, <4>3, <4>4
      <3> QED BY <3>3, <3>4
    <2>5. ASSUME NEW ticks \in Ticks, lcdc_on, EnterVblank(ticks)
          PROVE  BeamInv'
      <3> USE <2>5 DEF EnterVblank, PhaseOver, Budget, Elapse, Ticks
      <3>1. PhaseEndsInTime'
        OBVIOUS
      <3>2. /\ lcdc_on' \in BOOLEAN /\ mode' \in Modes
            /\ dots_remaining' \in Int /\ elapsed' \in Int /\ drawn' \in Int
            /\ vblank_dots' \in Nat /\ ly' \in 0..MaxLy /\ ly_written' \in BOOLEAN
            /\ mode' = "VBLANK" => vblank_dots' < DOTS_VBLANK_LINE
        BY NextLyType
      <3>3. CASE ly_written
        BY <3>1, <3>2, <3>3
      <3>4. CASE ~ly_written
        <4> USE <3>4
        <4>1. ly \in Nat /\ ly + 1 = VisibleLines /\ ly' = VisibleLines
          BY NextLyIsSucc
        <4>2. Due = VisibleLines * Line /\ Due' = Frame
          BY <4>1, OneMoreLine DEF Due
        <4>3. OnSchedule'
          BY <4>2, OneMoreLine DEF Frame
        <4>4. LinesInOrder'
          BY <4>1
        <4>5. LyFollowsBeam'
          <5>1. ~(ly = LastLine)
            BY <4>1
          <5>2. /\ vblank_dots' = 0
                /\ dots_remaining' \in (DOTS_VBLANK - 4 * MaxTicks + 1)..DOTS_VBLANK
            BY <5>1
          <5>3. (ly' - VisibleLines) * DOTS_VBLANK_LINE = 0
            BY <4>1
          <5> QED BY <4>1, <5>2, <5>3
        <4> QED BY <3>1, <3>2, <4>3, <4>4, <4>5
      <3> QED BY <3>3, <3>4
    <2>6. ASSUME NEW ticks \in Ticks, lcdc_on, EndVblank(ticks)
          PROVE  BeamInv'
      <3> USE <2>6, OneMoreLine DEF EndVblank, PhaseOver, Budget, Ticks
      <3>1. Due = Frame /\ Due' = DOTS_OAM
        BY DEF Due
      <3>2. OnSchedule'
        BY <3>1
      <3>3. PhaseEndsInTime'
        OBVIOUS
      <3>4. LinesInOrder'
        OBVIOUS
      <3>5. LyFollowsBeam'
        OBVIOUS
      <3>6. /\ lcdc_on' \in BOOLEAN /\ mode' \in Modes
            /\ dots_remaining' \in Int /\ elapsed' \in Int /\ drawn' \in Int
            /\ vblank_dots' \in Nat /\ ly' \in 0..MaxLy /\ ly_written' \in BOOLEAN
            /\ mode' = "VBLANK" => vblank_dots' < DOTS_VBLANK_LINE
        OBVIOUS
      <3> QED BY <3>2, <3>3, <3>4, <3>5, <3>6
    <2>7. ASSUME NEW ticks \in Ticks, lcdc_on, StayInPhase(ticks)
          PROVE  BeamInv'
      BY <2>7, OneMoreLine DEF StayInPhase, Stay, PhaseOver, Elapse, Due, Ticks
    <2>8. ASSUME NEW ticks \in Ticks, lcdc_on, StayInVblank(ticks)
          PROVE  BeamInv'
      <3> DEFINE dots == vblank_dots + 4 * ticks
                 into == ly - VisibleLines
      <3> USE <2>8 DEF StayInVblank, Stay, PhaseOver, Elapse, Ticks
      <3>1. PhaseEndsInTime'
        OBVIOUS
      <3>2. /\ lcdc_on' \in BOOLEAN /\ mode' \in Modes
            /\ dots_remaining' \in Int /\ elapsed' \in Int /\ drawn' \in Int
            /\ vblank_dots' \in Nat /\ ly' \in 0..MaxLy /\ ly_written' \in BOOLEAN
            /\ vblank_dots' < DOTS_VBLANK_LINE
        BY NextLyType
      <3>3. CASE ly_written
        BY <3>1, <3>2, <3>3
      <3>4. CASE ~ly_written
        <4> USE <3>4
        <4>1. /\ dots \in Nat /\ dots < 2 * DOTS_VBLANK_LINE
              /\ ly \in VisibleLines..LastLine /\ ly # LastLine
              /\ into \in Nat /\ NextLy = ly + 1
              /\ mode' = "VBLANK"
          BY NextLyIsSucc
        <4>2. OnSchedule' /\ LinesInOrder'
          BY DEF Due
        <4>3. CASE dots >= DOTS_VBLANK_LINE
          <5>1. ly' = ly + 1 /\ vblank_dots' = dots - DOTS_VBLANK_LINE
            BY <4>1, <4>3, ModOnce
          <5>2. /\ ly' - VisibleLines = into + 1
                /\ dots_remaining' = dots_remaining - 4 * ticks
                /\ vblank_dots' = vblank_dots + 4 * ticks - DOTS_VBLANK_LINE
            BY <4>1, <5>1
          <5>3. LyFollowsBeam'
            <6>1. ly' \in VisibleLines..LastLine /\ mode' = "VBLANK"
              <7>1. ly' = ly + 1 /\ ly \in VisibleLines..LastLine /\ ly # LastLine
                BY <4>1, <5>1
              <7> HIDE <2>8
              <7> QED BY <4>1, <7>1
            <6>2. (ly' - VisibleLines) * DOTS_VBLANK_LINE + vblank_dots' + dots_remaining'
                    = into * DOTS_VBLANK_LINE + vblank_dots + dots_remaining
              <7>1. /\ VisibleLines \in Nat /\ DOTS_VBLANK_LINE \in Nat
                    /\ ly \in Nat /\ VisibleLines <= ly /\ ly' = ly + 1
                    /\ vblank_dots \in Int /\ dots_remaining \in Int
                    /\ 4 * ticks \in Int
                BY <4>1, <5>1
              <7>2. /\ dots_remaining' = dots_remaining - 4 * ticks
                    /\ vblank_dots' = vblank_dots + 4 * ticks - DOTS_VBLANK_LINE
                BY <5>2
              <7>3. ((ly + 1) - VisibleLines) * DOTS_VBLANK_LINE
                       + vblank_dots' + dots_remaining'
                      = (ly - VisibleLines) * DOTS_VBLANK_LINE
                          + vblank_dots + dots_remaining
                BY <7>1, <7>2, Balance, Zenon
              <7> QED BY <7>1, <7>3, Zenon DEF into
            <6> QED BY <6>1, <6>2
          <5> QED BY <3>1, <3>2, <4>1, <4>2, <5>1, <5>3
        <4>4. CASE dots < DOTS_VBLANK_LINE
          <5>1. ly' = ly /\ vblank_dots' = dots
            BY <4>1, <4>4
          <5>2. LyFollowsBeam'
            BY <4>1, <5>1
          <5> QED BY <3>1, <3>2, <4>1, <4>2, <4>4, <5>1, <5>2
        <4> QED BY <4>1, <4>3, <4>4
      <3> QED BY <3>3, <3>4
    <2>9. CASE WriteLcdc
      <3>1. /\ mode' = "OAM" /\ dots_remaining' = DOTS_OAM /\ ly' = 0
            /\ drawn' = 0 /\ elapsed' = 0 /\ vblank_dots' = vblank_dots
        BY <2>9 DEF WriteLcdc, ppu_reset
      <3>2. lcdc_on' \in BOOLEAN /\ ly_written' \in BOOLEAN
        BY <2>9, Zenon DEF WriteLcdc
      <3>3. Due' = DOTS_OAM
        BY <3>1, OneMoreLine DEF Due
      <3> QED BY <3>1, <3>2, <3>3
    <2>10. CASE WriteStat
      BY <2>10 DEF WriteStat, Due
    <2>11. CASE WriteLyc
      BY <2>11 DEF WriteLyc, Due
    <2>12. CASE WriteLy
      <3>1. /\ lcdc_on' \in BOOLEAN /\ mode' \in Modes
            /\ UNCHANGED <<lcdc_on, mode, dots_remaining, vblank_dots>>
            /\ elapsed' = 0 /\ drawn' = 0
        BY <2>12 DEF WriteLy
      <3>2. ly' \in 0..MaxLy /\ ly_written' = TRUE
        BY <2>12, PpuAssumption DEF WriteLy
      <3> QED BY <3>1, <3>2
    <2>13. CASE UNCHANGED vars
      BY <2>13 DEF vars, Due
    <2> QED
      BY <2>1, <2>2, <2>3, <2>4, <2>5, <2>6, <2>7, <2>8, <2>9, <2>10, <2>11,
         <2>12, <2>13 DEF Next, Refresh, ppu_refresh, wr_reg
  <1> QED BY <1>1, <1>2, PTL DEF Spec

\* The picture keeps in step with the processor: ppu_refresh loses and gains no dot.
THEOREM BeamInStep == Spec => []OnSchedule
  <1>1. BeamInv => OnSchedule
    BY Zenon DEF BeamInv
  <1> QED BY <1>1, BeamInvariant, PTL

\* The lines of a frame are drawn once each, from the top (ppu_render_line in the
\* drawing phase).
THEOREM BeamInOrder == Spec => []LinesInOrder
  <1>1. BeamInv => LinesInOrder
    BY Zenon DEF BeamInv
  <1> QED BY <1>1, BeamInvariant, PTL

\* LY and the dots of the vertical blank fit together.
THEOREM BeamOnTime == Spec => []LyFollowsBeam
  <1>1. BeamInv => LyFollowsBeam
    BY Zenon DEF BeamInv
  <1> QED BY <1>1, BeamInvariant, PTL

\* A phase ends with the instruction that uses up its dots.
THEOREM PhasesEnd == Spec => []PhaseEndsInTime
  <1>1. BeamInv => PhaseEndsInTime
    BY Zenon DEF BeamInv
  <1> QED BY <1>1, BeamInvariant, PTL

\* A vertical blank is announced when it begins, and at no other time.
THEOREM BlankAnnounced == Spec => VblankAnnounced
  <1> DEFINE Announced ==
        ("VBLANK" \in raised') <=> (mode # "VBLANK" /\ mode' = "VBLANK")
  <1>1. ASSUME [Next]_vars PROVE [Announced]_vars
    <2>1. ASSUME NEW line PROVE "VBLANK" \notin LycRequest(line)
      BY DEF LycRequest
    <2>2. ASSUME NEW bit PROVE "VBLANK" \notin StatRequest(bit)
      BY DEF StatRequest
    <2>3. ASSUME NEW ticks \in Ticks, ppu_refresh(ticks) PROVE Announced
      <3>1. CASE RefreshOff(ticks)
        BY <3>1 DEF RefreshOff
      <3>2. CASE EndOam(ticks)
        BY <3>2 DEF EndOam
      <3>3. CASE EndDraw(ticks)
        BY <3>3 DEF EndDraw
      <3>4. CASE EndHblank(ticks)
        BY <2>1, <2>2, <3>4 DEF EndHblank
      <3>5. CASE EnterVblank(ticks)
        BY <3>5 DEF EnterVblank
      <3>6. CASE EndVblank(ticks)
        BY <2>1, <3>6 DEF EndVblank
      <3>7. CASE StayInPhase(ticks)
        BY <3>7 DEF StayInPhase, Stay
      <3>8. CASE StayInVblank(ticks)
        BY <2>1, <3>8 DEF StayInVblank, Stay
      <3> QED BY <2>3, <3>1, <3>2, <3>3, <3>4, <3>5, <3>6, <3>7, <3>8 DEF ppu_refresh
    <2>4. ASSUME wr_reg PROVE Announced
      BY <2>4 DEF wr_reg, WriteLcdc, ppu_reset, WriteStat, WriteLy, WriteLyc
    <2> QED BY <1>1, <2>3, <2>4 DEF Next, Refresh
  <1> QED BY <1>1, PTL DEF Spec, VblankAnnounced

\* A step of ppu_refresh sets and clears no bit of STAT but the flag of LYC and the
\* mode bits; the former does not touch the latter.
LEMMA FlagApart ==
    ASSUME NEW line
    PROVE  StatAtLine(line) \cap MODE_BITS = stat \cap MODE_BITS
  BY DEF StatAtLine, MODE_BITS, LY_LYC_FLAG

\* What STAT shows of the mode, for every program, whatever it writes to STAT: when
\* the mode bits are right, when they are made right again, and when they are not.
THEOREM StatFollowsMode == Spec => StatShowsMode
  <1> DEFINE Keeps == StatShown /\ ~WriteStat /\ ~TurnOn => StatShown'
             Left == TurnOn => stat' \cap MODE_BITS = stat \cap MODE_BITS
             Restores ==
               lcdc_on /\ mode # mode'
                 /\ (mode = "VBLANK" \/ mode' \in {"DRAW", "HBLANK"}) => StatShown'
             Clears == lcdc_on /\ ~lcdc_on' => StatShown'
             Shows == Keeps /\ Left /\ Restores /\ Clears
  <1>1. ASSUME [Next]_vars PROVE [Shows]_vars
    <2>1. ASSUME NEW ticks \in Ticks, ppu_refresh(ticks) PROVE Shows
      <3> USE DEF StatShown, TurnOn, ModeBits, MODE_BITS, registers
      <3>1. CASE RefreshOff(ticks)
        BY <3>1 DEF RefreshOff
      <3>2. CASE lcdc_on /\ EndOam(ticks)
        BY <3>2 DEF EndOam
      <3>3. CASE lcdc_on /\ EndDraw(ticks)
        BY <3>3 DEF EndDraw
      <3>4. CASE lcdc_on /\ EndHblank(ticks)
        BY <3>4, FlagApart DEF EndHblank
      <3>5. CASE lcdc_on /\ EnterVblank(ticks)
        BY <3>5, FlagApart DEF EnterVblank
      <3>6. CASE lcdc_on /\ EndVblank(ticks)
        BY <3>6 DEF EndVblank
      <3>7. CASE lcdc_on /\ StayInPhase(ticks)
        BY <3>7 DEF StayInPhase, Stay
      <3>8. CASE lcdc_on /\ StayInVblank(ticks)
        BY <3>8, FlagApart DEF StayInVblank, Stay
      <3> QED BY <2>1, <3>1, <3>2, <3>3, <3>4, <3>5, <3>6, <3>7, <3>8 DEF ppu_refresh
    <2>2. CASE WriteLcdc
      <3>1. CASE lcdc_on'
        BY <2>2, <3>1 DEF WriteLcdc, StatShown, TurnOn
      <3>2. CASE ~lcdc_on'
        BY <2>2, <3>2 DEF WriteLcdc, StatShown, TurnOn
      <3> QED BY <3>1, <3>2
    <2>3. CASE WriteStat
      BY <2>3 DEF WriteStat, TurnOn, registers
    <2>4. CASE WriteLy
      BY <2>4 DEF WriteLy, StatShown, TurnOn
    <2>5. CASE WriteLyc
      BY <2>5 DEF WriteLyc, StatShown, TurnOn
    <2> QED BY <1>1, <2>1, <2>2, <2>3, <2>4, <2>5 DEF Next, Refresh, wr_reg
  <1> QED BY <1>1, PTL DEF Spec, StatShowsMode
=============================================================================
