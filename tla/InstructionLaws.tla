--------------------------- MODULE InstructionLaws --------------------------
(***************************************************************************)
(* Laws of the instruction set, on short programs run from many states.    *)
(***************************************************************************)
EXTENDS Processor

CONSTANTS Operands,     \* the bytes added and subtracted
          Plain,        \* the cartridge most programs run with
          WriteTo,      \* the high bytes of the addresses written to, and of
          ReadFrom,     \* those read from, in the cartridge
          Edges,        \* the bytes every opcode and pair runs on
          Stacks        \* the stack pointers they run with

ASSUME LawsAssumption ==
    /\ Operands \subseteq Byte /\ Edges \subseteq Byte
    /\ WriteTo \subseteq Byte /\ ReadFrom \subseteq Byte
    /\ Plain \in DOMAIN Cartridges

\* The programs and their data.
CodeBase == 53248
DataBase == 49152
InCode(a) == a \in {CodeBase, CodeBase + 1, CodeBase + 2}

\* The stacks lie where what is written can be read again: in memory, the last
\* byte of the address space (IE) included, and not in the program.
ASSUME StacksAssumption ==
    \A sp \in Stacks : sp \in Word /\ \A a \in BelowStack(sp) : Keeps(a) /\ ~InCode(a)

VARIABLES start,        \* the state before the program
          now,          \* the state it has reached
          steps         \* the instructions executed

vars == <<start, now, steps>>

\* bytes from address at on
Code(at, bytes) == [a \in at..(at + Len(bytes) - 1) |-> bytes[a - at + 1]]

\* A program at D000 with HL on its data at C000; other is the value of B, C, D and E.
\* (The cartridge has a RET for CALL 0040 and RST 8.)
STACK_TOP == 65534
Machine(cart, a, f, other, byte, sp, program) ==
    [Boot(cart) EXCEPT
        !.booting = FALSE, !.mem = Written(Code(CodeBase, program), DataBase, byte),
        !.reg = [r \in Registers |->
                    CASE r = "A" -> a [] r = "H" -> 192 [] r = "L" -> 0
                      [] OTHER -> other],
        !.f = f, !.sp = sp, !.pc = CodeBase]

DAA == 39
\* ADD, ADC, SUB, SBC and CP of a register, of memory and of the next byte, the
\* first two followed by DAA.
StartSum ==
    \E a \in Byte, v \in Operands, f \in {{}, {"CARRY"}}, y \in {0, 1, 2, 3, 7} :
        \E program \in {<<128 + 8 * y, DAA>>, <<134 + 8 * y, DAA>>, <<198 + 8 * y, v>>} :
            now = Machine(Plain, a, f, v, v, STACK_TOP, program)

\* Every opcode, with the operands 64, 0 and b, 0, and every prefixed one.
StartOpcode ==
    \E op \in Byte, b \in Edges, f \in {{}, Flags}, sp \in Stacks :
        \E program \in {<<op, 64, 0>>, <<op, b, 0>>, <<OPCODE_PREFIX, op>>} :
            now = Machine(Plain, b, f, b, b, sp, program)

\* Two instructions that undo each other.
Inverses ==
    {<<197, 193>>, <<213, 209>>, <<229, 225>>, <<245, 241>>} \cup   \* PUSH, POP
    {<<8 * y + 4, 8 * y + 5>> : y \in 0..7} \cup                    \* INC, DEC
    {<<16 * p + 3, 16 * p + 11>> : p \in 0..3} \cup                 \* INC, DEC pair
    {<<7, 15>>, <<15, 7>>, <<23, 31>>, <<31, 23>>, <<47, 47>>}      \* rotate A, CPL
StartPair ==
    \E pair \in Inverses, b \in Edges, f \in {{}, {"CARRY"}, Flags}, sp \in Stacks :
        now = Machine(Plain, b, f, 255 - b, b, sp, pair)

\* LD (BC),A and LD A,(DE): a write to the cartridge, then a read, through the
\* window on any bank.
Banking == <<2, 26>>
StartBanks ==
    \E cart \in DOMAIN Cartridges, v \in Byte, b \in WriteTo, d \in ReadFrom :
        \E window \in 0..(Cartridges[cart].banks - 1) :
            now = [Machine(cart, v, {}, 0, 0, STACK_TOP, Banking) EXCEPT
                      !.window = window, !.reg["B"] = b, !.reg["D"] = d]

MaxSteps == 2           \* bound: the longest program

Init == (StartSum \/ StartOpcode \/ StartPair \/ StartBanks) /\ start = now /\ steps = 0

Step ==
    /\ steps < MaxSteps
    /\ now' = Execute(now)
    /\ steps' = steps + 1
    /\ UNCHANGED start

Next == Step
Spec == Init /\ [][Next]_vars

-----------------------------------------------------------------------------
\* The opcodes of the program and their place in the table.
Opcode(s) == N8(s)
Second(s) == N8(ADVANCE_PC(s, 1))
X(op) == op \div 64
Y(op) == (op \div 8) % 8
Z(op) == op % 8

\* Sums, differences and comparisons as the manual has them, on the byte the
\* handler takes from a register, from memory or from the program: the result
\* modulo 256, CARRY out of bit 7, HCARRY out of bit 3.  The handlers find the
\* carries in comparisons and exclusive ors of values that C has promoted to
\* int, and some of them in a signed byte.  Of SP and a signed byte, the
\* carries are those of the low bytes.
Adds(op) == X(op) \in {2, 3} /\ Y(op) \in {0, 1} /\ (X(op) = 3 => Z(op) = 6)
Subtracts(op) ==
    X(op) \in {2, 3} /\ Y(op) \in {2, 3, 7} /\ (X(op) = 3 => Z(op) = 6)
OperandOf(s) ==
    IF X(Opcode(s)) = 3 THEN N8(ADVANCE_PC(s, 1)) ELSE Get(s, Operand[Z(Opcode(s)) + 1])
Sum(a, v, c) ==
    Result(a + v + c, When((a + v + c) % 256 = 0, "ZERO")
                        \cup When(a + v + c > 255, "CARRY")
                        \cup When((a % 16) + (v % 16) + c > 15, "HCARRY"))
OffsetOps == {232, 248}     \* ADD SP,e8 and LD HL,SP+e8
OffsetFlags(sp, b) ==
    When((sp % 16) + (b % 16) > 15, "HCARRY") \cup When((sp % 256) + b > 255, "CARRY")
Difference(a, v, c) ==
    Result(a - v - c, When((a - v - c) % 256 = 0, "ZERO") \cup {"SUB"}
                        \cup When(a < v + c, "CARRY")
                        \cup When(a % 16 < (v % 16) + c, "HCARRY"))
SumsAgree ==
    LET op == Opcode(start)
        a == start.reg["A"]
        carry == IF Y(op) \in {1, 3} THEN CarryOf(start.f) ELSE 0
        got == [value |-> now.reg["A"], f |-> now.f]
        difference == Difference(a, OperandOf(start), carry)
    IN steps = 1 =>
          /\ Adds(op) => got = Sum(a, OperandOf(start), carry)
          /\ Subtracts(op) =>
                got = IF Y(op) = 7 THEN [difference EXCEPT !.value = a] ELSE difference
          /\ op \in OffsetOps => now.f = OffsetFlags(start.sp, OperandOf(start))

\* DAA after a sum of two decimal numbers is their decimal sum, with CARRY for
\* the hundred; after a difference that does not borrow, their difference.
\* (After one that borrows op_daa takes off 60, not 0x60.)
Decimal(b) == 10 * (b \div 16) + (b % 16)
IsDecimal(b) == b \div 16 < 10 /\ b % 16 < 10
DaaAdjusts ==
    LET op == Opcode(start)
        a == start.reg["A"]
        v == OperandOf(start)
        c == IF Y(op) \in {1, 3} THEN CarryOf(start.f) ELSE 0
        total == Decimal(a) + Decimal(v) + c
    IN steps = 2 /\ Second(start) = DAA /\ X(op) = 2 /\ IsDecimal(a) /\ IsDecimal(v) =>
          /\ Adds(op) =>
                /\ IsDecimal(now.reg["A"]) /\ Decimal(now.reg["A"]) = total % 100
                /\ ("CARRY" \in now.f) = (total >= 100)
                /\ ("ZERO" \in now.f) = (total % 100 = 0)
          /\ Subtracts(op) /\ Y(op) # 7 /\ Decimal(a) >= Decimal(v) + c =>
                /\ IsDecimal(now.reg["A"])
                /\ Decimal(now.reg["A"]) = Decimal(a) - Decimal(v) - c
                /\ "CARRY" \notin now.f

\* op_len, which the debugger steps over an instruction with, agrees with the
\* handlers: it is how far PC advances, and what CALL and RST push is where
\* the debugger expects them back.  The opcodes the processor does not have
\* take one byte whatever op_len says of them.
Invalid == {211, 219, 221, 227, 228, 235, 236, 237, 244, 252, 253}
Jumps == {24, 32, 40, 48, 56, 194, 195, 202, 210, 218, 233} \cup
         {192, 200, 201, 208, 216, 217}
Restarts == {8 * y + 199 : y \in 0..7}
Calls == {196, 204, 205, 212, 220} \cup Restarts
LengthsAgree ==
    LET op == Opcode(start)
        after == W16(start.pc + op_len(op))
    IN steps = 1 /\ ~start.is_halted /\ op \notin Invalid =>
          /\ op \notin Jumps \cup Calls => now.pc = after
          /\ op \in Calls =>
                IF now.sp # start.sp THEN Pushed(now) = after ELSE now.pc = after

\* Two instructions that undo each other give back registers and memory: what
\* PUSH leaves is what POP finds, also at the end of the address space, RET
\* comes back from CALL and RST, a rotation reversed is no rotation.
CALL == 205
RET == 201
Target(s) ==
    IF Opcode(s) = CALL THEN N16(ADVANCE_PC(s, 1)) ELSE 8 * Y(Opcode(s))
ComesBack(s) ==
    /\ Opcode(s) \in {CALL} \cup Restarts /\ monitor_rd_mem(s, Target(s)) = RET
    /\ W16(Target(s)) \notin BelowStack(s.sp)
Kept(s, t) ==
    /\ t.reg = s.reg /\ t.sp = s.sp
    /\ \A a \in DOMAIN s.mem \ BelowStack(s.sp) :
          monitor_rd_mem(t, a) = monitor_rd_mem(s, a)
RoundTrips ==
    steps = 2 =>
        /\ <<Opcode(start), Second(start)>> \in Inverses =>
              Kept(start, now) /\ now.pc = W16(start.pc + 2)
        /\ <<Opcode(start), Second(start)>> = <<245, 241>> => now.f = start.f
        /\ ComesBack(start) =>
              Kept(start, now) /\ now.pc = W16(start.pc + op_len(Opcode(start)))

\* Every instruction takes from 1 to 6 machine cycles, which is what the
\* schedule of the picture unit (MaxTicks) and the clocks are built on.
CyclesInRange == steps > 0 => now.cycles \in 1..6

\* The window is on the bank that the last write to 2000-3FFF asked for, in five
\* bits and with 0 asking for bank 1 (32 asks for bank 0), unless the image ends
\* before it: then, and for a write elsewhere, it is where it was.  The first
\* bank is always in place.
Asked(v) == IF v = 0 THEN 1 ELSE v % 32
BanksFollowWrites ==
    LET image == Cartridges[start.cart]
        to == Get16(start, "BC")
        from == Get16(start, "DE")
        v == start.reg["A"]
        bank == IF to \div 8192 = 1 /\ Asked(v) < image.banks THEN Asked(v) ELSE start.window
    IN  /\ steps = 2 /\ <<Opcode(start), Second(start)>> = Banking
        /\ to < CartridgeEnd /\ from < CartridgeEnd
        => now.reg["A"] = At(image.bytes, IF from < BankSize THEN from
                                          ELSE (from % BankSize) + BankSize * bank)
=============================================================================
