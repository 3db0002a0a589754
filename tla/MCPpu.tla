------------------------------- MODULE MCPpu -------------------------------
(* Instances of Ppu for TLC, in which the program writes to the registers at
   any time: a small screen, and the real one. *)
EXTENDS Ppu

AllRegs == {"LCDC", "STAT", "LY", "LYC"}
SmallLyAndBeyond == {0, 5, 7}
LyBeyond == {0, 200}

\* Enable bits, and mode bits that the program writes over.
WrittenToStat == {{}, {STAT_INTR_OAM, 0}, {STAT_INTR_LYLC, STAT_INTR_VBLANK, 1}}
=============================================================================
