--------------------------- MODULE MCInstructions ---------------------------
(* The bytes and stack pointers the laws are checked on.                    *)
EXTENDS InstructionLaws, TLC

\* Decimal numbers, and the bytes around which carries, signs and nibbles change.
MCOperands == {0, 1, 5, 9, 15, 16, 25, 69, 80, 114, 127, 128, 144, 153, 255}
MCEdges == {0, 1, 127, 128, 165, 255}
\* The stack in the middle of memory and at its end, and a low byte of FF.
MCStacks == {0, 49664, 50175, 65534}

\* Two banks with a RET at 8 and 40, and images of 3, 4 and 32 banks in which
\* the bytes at 0 and 3F00 of a bank tell which one it is.
Numbered(banks) ==
    [banks |-> banks,
     bytes |-> [a \in {BankSize * n + d : n \in 0..(banks - 1), d \in {0, 16128}} |->
                   a \div BankSize + (IF a % BankSize = 0 THEN 1 ELSE 101)]]
MCCartridges ==
    [plain |-> [banks |-> 2, bytes |-> 8 :> 201 @@ 64 :> 201],
     three |-> Numbered(3), four |-> Numbered(4), full |-> Numbered(32)]
MCBootImage == <<>>      \* the programs start without it
MCWriteTo == {0, 31, 32, 63, 64, 127}
MCReadFrom == {0, 63, 64, 127}
=============================================================================
