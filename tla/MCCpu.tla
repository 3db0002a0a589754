-------------------------------- MODULE MCCpu -------------------------------
(* Programs for the processor, assembled by hand.                           *)
EXTENDS Cpu, TLC

\* bytes from address at on
Code(at, bytes) == [a \in at..(at + Len(bytes) - 1) |-> bytes[a - at + 1]]

\* PUSH AF; bank 1; back to the bank whose number is there; POP AF; RETI
VblankHandler ==
    Code(64, <<195, 192, 0>>) @@
    Code(192, <<245, 62, 1, 234, 0, 32, 250, 0, 64, 234, 0, 32, 241, 217>>) @@
    Code(16384, <<2>>)
LcdHandler ==                           \* EI; PUSH AF; SCF; POP AF; RETI
    Code(72, <<251, 245, 55, 241, 217>>)
TimerHandler ==                         \* PUSH AF; complement (FF80); POP AF; RETI
    Code(80, <<245, 240, 128, 47, 224, 128, 241, 217>>)

\* LD SP,FFFE; IE = 7; TMA = TIMA = tma; TAC = tac; bank 2; JP 0080
Setup(tma, tac) ==
    Code(0, <<49, 254, 255, 62, 7, 224, 255, 62, tma, 224, 6, 224, 5, 62, tac,
              224, 7, 62, 2, 234, 0, 32, 195, 128, 0>>)

\* EI; LD HL,C000; complement (HL); CALL 4000; HALT; DIV = 0; again
WorkLoop == Code(128, <<251, 33, 0, 192, 126, 47, 119, 205, 0, 64, 118, 224, 4,
                        24, 241>>)
\* in bank 2: PUSH AF; ADD A,(HL); LD (C001),A; POP AF; RET
Subroutine == Code(32768, <<245, 134, 234, 1, 192, 241, 201>>)
\* DI; HALT; XOR A; IF = 0; DIV = 0; again
PollLoop == Code(128, <<243, 118, 175, 224, 15, 224, 4, 24, 247>>)

\* JP 00FC; LD A,1; disable_bootrom = A: on into the cartridge at 0100.
MCBootImage == Code(0, <<195, 252, 0>>) @@ Code(252, <<62, 1, 224, 80>>)
Entry == Code(256, <<195, 0, 0>>)                   \* JP 0000

Handlers == VblankHandler @@ LcdHandler @@ TimerHandler
Work(tma, tac) == Entry @@ Setup(tma, tac) @@ Handlers @@ WorkLoop @@ Subroutine
Poll(tma, tac) == Entry @@ Setup(tma, tac) @@ PollLoop

\* Dividers 64 and 4; the timer leaves the programs time to run.
MCCartridges ==
    [work |-> [banks |-> 3, bytes |-> Work(255, 7)],
     poll |-> [banks |-> 2, bytes |-> Poll(250, 5)]]
MCPrivate == {65408}
=============================================================================
