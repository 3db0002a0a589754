----------------------------- MODULE MCMachine -----------------------------
(* Programs for the machine, assembled by hand: they count the vertical     *)
(* blanks they handle at FF80, and take an interrupt on line LYC.           *)
EXTENDS Machine, TLC

\* bytes from address at on
Code(at, bytes) == [a \in at..(at + Len(bytes) - 1) |-> bytes[a - at + 1]]

\* LD SP,FFFE; IE = 3; LYC = line; STAT = 40; LCDC = 91; EI; JP 0080
Setup(line) ==
    Code(0, <<49, 254, 255, 62, 3, 224, 255, 62, line, 224, 69, 62, 64, 224, 65,
              62, 145, 224, 64, 251, 195, 128, 0>>)
\* JP 0060; JP 0070
Vectors == Code(64, <<195, 96, 0>>) @@ Code(72, <<195, 112, 0>>)
VblankHandler ==                    \* PUSH AF; increment (FF80); POP AF; RETI
    Code(96, <<245, 240, 128, 60, 224, 128, 241, 217>>)
\* PUSH AF; A = LYC + step; wrap below 99; LYC = A; POP AF; RETI
LcdHandler(step) ==
    Code(112, <<245, 240, 69, 198, step, 254, 153, 56, 1, 175, 224, 69, 241, 217>>)

HaltLoop == Code(128, <<118, 24, 253>>)             \* HALT; again
\* DI; B = 18; count B down; EI; again
CriticalLoop == Code(128, <<243, 6, 24, 5, 32, 253, 251, 24, 247>>)
\* wait for LY = 90; LCDC = 11; LY = 11; LCDC = 91; wait for LY # 90; again
OffLoop ==
    Code(128, <<240, 68, 254, 144, 32, 250, 62, 17, 224, 64, 224, 68, 62, 145,
                224, 64, 240, 68, 254, 144, 40, 250, 24, 232>>)

\* JP 00FC; LD A,1; disable_bootrom = A: on into the cartridge at 0100.
MCBootImage == Code(0, <<195, 252, 0>>) @@ Code(252, <<62, 1, 224, 80>>)
Entry == Code(256, <<195, 0, 0>>)                   \* JP 0000

Program(line, step, loop) ==
    Entry @@ Setup(line) @@ Vectors @@ VblankHandler @@ LcdHandler(step) @@ loop
Loops == [halt |-> HaltLoop, critical |-> CriticalLoop, off |-> OffLoop]
MCCartridges ==
    [p \in {0, 100, 144, 153} \X {0, 7} \X DOMAIN Loops |->
        [banks |-> 2, bytes |-> Program(p[1], p[2], Loops[p[3]])]]
=============================================================================
