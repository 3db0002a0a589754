---------------------------- MODULE Instructions ----------------------------
(***************************************************************************)
(* The instruction set (src/emu/cpu/cpu_ops.c) and the registers a program *)
(* reaches by their address (cpu_rd and cpu_wr of cpu.c): what every       *)
(* opcode does to the registers, to the memory and to the program counter, *)
(* and how many machine cycles it reports.                                 *)
(*                                                                         *)
(* A state of the processor is a record; a handler maps the state after    *)
(* the fetch of its opcode to the state after it.  The functions of a      *)
(* family that differ in their register are one operator, and the table of *)
(* handlers is laid out by the fields x, y, z of the opcode (bits 7-6, 5-3 *)
(* and 2-0), which is how its rows and columns repeat.                     *)
(*                                                                         *)
(* The memory is the registers of the processor that have an address, the  *)
(* cartridge behind its controller (src/emu/mem/mbc1.c), and a flat RAM    *)
(* for the rest, 0 where it was never written: what the picture unit and   *)
(* the joypad do with their addresses belongs to them.                     *)
(*                                                                         *)
(* A definition named <definition>_<slip> is not part of the model: it is  *)
(* the definition after a plausible slip in the code.                      *)
(***************************************************************************)
EXTENDS Integers, Sequences

CONSTANTS Cartridges,   \* by name: the image's banks and its bytes, 0 elsewhere
          BootImage     \* the bytes that stand over the image at the start

UINT8_MAX == 255
UINT16_MAX == 65535
Byte == 0..UINT8_MAX
Word == 0..UINT16_MAX

ASSUME CartridgeAssumption ==
    /\ \A name \in DOMAIN Cartridges :
          /\ Cartridges[name].banks \in Nat \ {0, 1}
          /\ \A a \in DOMAIN Cartridges[name].bytes : Cartridges[name].bytes[a] \in Byte
    /\ \A a \in DOMAIN BootImage : BootImage[a] \in Byte

Registers == {"A", "B", "C", "D", "E", "H", "L"}
Flags == {"ZERO", "SUB", "HCARRY", "CARRY"}     \* the four bits of F in use

W8(n) == n % 256
W16(n) == n % 65536
Int8(b) == IF b < 128 THEN b ELSE b - 256
Bit(n, k) == (n \div 2^k) % 2

\* A byte as the set of its bits.
Bits(n) == {k \in 0..7 : Bit(n, k) = 1}
OfBits(S) ==
    LET v(k) == IF k \in S THEN 2^k ELSE 0
    IN v(0) + v(1) + v(2) + v(3) + v(4) + v(5) + v(6) + v(7)

-----------------------------------------------------------------------------
(* Operands                                                                 *)

\* The registers cpu_rd and cpu_wr find by their address.
IoRegister ==
    [addr \in {65284, 65285, 65286, 65287, 65295, 65360, 65535} |->
        CASE addr = 65284 -> "div_reg" [] addr = 65285 -> "tima_reg"
          [] addr = 65286 -> "tma_reg" [] addr = 65287 -> "tac_reg"
          [] addr = 65295 -> "if_reg"  [] addr = 65360 -> "disable_bootrom"
          [] addr = 65535 -> "ie_reg"]
Divider == <<256, 4, 16, 64>>

cpu_wr(s, addr, value) ==
    CASE IoRegister[addr] = "div_reg" -> [s EXCEPT !.div_reg = 0]
      [] IoRegister[addr] = "if_reg" -> [s EXCEPT !.if_reg = value % 32]
      [] IoRegister[addr] = "tac_reg" ->
            [s EXCEPT !.tac_reg = value % 8, !.tima_enabled = Bit(value, 2) = 1,
                      !.tac_divider = Divider[(value % 4) + 1]]
      [] IoRegister[addr] = "disable_bootrom" ->
            [s EXCEPT !.disable_bootrom = IF value = 0 THEN 0 ELSE 1]
      [] OTHER -> [s EXCEPT ![IoRegister[addr]] = value]

At(bytes, addr) == IF addr \in DOMAIN bytes THEN bytes[addr] ELSE 0
Written(bytes, addr, value) ==
    [a \in DOMAIN bytes \cup {addr} |-> IF a = addr THEN value ELSE bytes[a]]

\* The cartridge: bank 0 of the image, under the boot image until a write to
\* disable_bootrom reads the image over it again, and a window on another bank.
BankSize == 16384
CartridgeEnd == 2 * BankSize

mbc1_rd_mem(s, addr) ==
    CASE addr < BankSize /\ s.booting /\ addr \in DOMAIN BootImage -> BootImage[addr]
      [] addr < BankSize /\ ~(s.booting /\ addr \in DOMAIN BootImage) ->
            At(Cartridges[s.cart].bytes, addr)
      [] addr >= BankSize ->
            At(Cartridges[s.cart].bytes, BankSize * (s.window - 1) + addr)

\* The window stays as it is when the image ends before the bank.
Select_BankZero(s, value) ==
    LET bank == value % 32
    IN  IF bank < Cartridges[s.cart].banks THEN [s EXCEPT !.window = bank] ELSE s
Select(s, value) ==
    LET bank == IF value = 0 THEN 1 ELSE value % 32
    IN  IF bank < Cartridges[s.cart].banks THEN [s EXCEPT !.window = bank] ELSE s

mbc1_wr_mem(s, addr, value) ==
    IF 8192 <= addr /\ addr < BankSize THEN Select(s, value) ELSE s

monitor_rd_mem(s, address) ==
    LET addr == W16(address)
    IN CASE addr \in DOMAIN IoRegister -> s[IoRegister[addr]]
         [] addr < CartridgeEnd -> mbc1_rd_mem(s, addr)
         [] addr >= CartridgeEnd /\ addr \notin DOMAIN IoRegister -> At(s.mem, addr)
monitor_wr_mem(s, address, value) ==
    LET addr == W16(address)
        t == cpu_wr(s, addr, W8(value))
    IN CASE addr \in DOMAIN IoRegister ->
               IF IoRegister[addr] = "disable_bootrom" THEN [t EXCEPT !.booting = FALSE] ELSE t
         [] addr < CartridgeEnd -> mbc1_wr_mem(s, addr, W8(value))
         [] addr >= CartridgeEnd /\ addr \notin DOMAIN IoRegister ->
               [s EXCEPT !.mem = Written(@, addr, W8(value))]

RD_WORD(s, addr) == monitor_rd_mem(s, addr) + 256 * monitor_rd_mem(s, addr + 1)
WR_WORD_HighFirst(s, addr, value) ==
    monitor_wr_mem(monitor_wr_mem(s, addr, value \div 256), addr + 1, W8(value))
WR_WORD(s, addr, value) ==
    monitor_wr_mem(monitor_wr_mem(s, addr, W8(value)), addr + 1, value \div 256)

\* F is the low byte of AF.
FlagByte(f) ==
    LET v(flag, n) == IF flag \in f THEN n ELSE 0
    IN v("ZERO", 128) + v("SUB", 64) + v("HCARRY", 32) + v("CARRY", 16)
FlagsOf(b) ==
    {flag \in Flags :
        Bit(b, CASE flag = "ZERO" -> 7 [] flag = "SUB" -> 6
                 [] flag = "HCARRY" -> 5 [] flag = "CARRY" -> 4) = 1}

\* The eight operands of the opcode fields y and z, and the pairs.
Operand == <<"B", "C", "D", "E", "H", "L", "IND_HL", "A">>
Pair == <<"BC", "DE", "HL", "SP">>

HighOf(p) == CASE p = "BC" -> "B" [] p = "DE" -> "D" [] p = "HL" -> "H"
LowOf(p) == CASE p = "BC" -> "C" [] p = "DE" -> "E" [] p = "HL" -> "L"

Get16(s, p) ==
    CASE p = "SP" -> s.sp
      [] p = "AF" -> 256 * s.reg["A"] + FlagByte(s.f)
      [] OTHER -> 256 * s.reg[HighOf(p)] + s.reg[LowOf(p)]
Put16(s, p, v) ==
    CASE p = "SP" -> [s EXCEPT !.sp = W16(v)]
      [] p = "AF" -> [s EXCEPT !.reg["A"] = W16(v) \div 256, !.f = FlagsOf(W8(v))]
      [] OTHER -> [s EXCEPT !.reg[HighOf(p)] = W16(v) \div 256,
                            !.reg[LowOf(p)] = W8(v)]

HL(s) == Get16(s, "HL")
Get(s, r) == IF r = "IND_HL" THEN monitor_rd_mem(s, HL(s)) ELSE s.reg[r]
Put(s, r, v) ==
    IF r = "IND_HL" THEN monitor_wr_mem(s, HL(s), v) ELSE [s EXCEPT !.reg[r] = W8(v)]

\* The byte and the word after the opcode.
N8(s) == monitor_rd_mem(s, s.pc)
N16(s) == RD_WORD(s, s.pc)

ADVANCE_PC(s, n) == [s EXCEPT !.pc = W16(@ + n)]
Took(s, n) == [s EXCEPT !.cycles = n]

\* The flags named in changed become those of set.
PutFlags(s, changed, set) == [s EXCEPT !.f = (@ \ changed) \cup set]
When(cond, flag) == IF cond THEN {flag} ELSE {}

-----------------------------------------------------------------------------
(* Sums: the macros IS_ADD_..., IS_SUB_... and IS_CP_... look for a carry   *)
(* out of bit 3 (or 11) in the exclusive or of operands and result.         *)

CarryInto(k, x, y, z) == (Bit(x, k) + Bit(y, k) + Bit(z, k)) % 2 = 1

IS_ADD_CARRY(a, v) == W8(a + v) < a
IS_ADD_HALF_CARRY(a, v) == CarryInto(4, a, v, a + v)
IS_ADD16_CARRY(a, v) == W16(a + v) < a
IS_ADD16_HALF_CARRY(a, v) == CarryInto(12, a, v, a + v)
IS_SUB_CARRY(a, v) == a < W8(a - v)
IS_SUB_HALF_CARRY(a, v) == CarryInto(4, a, v, a - v)

\* What an operation on the accumulator leaves in A and F.
Result(value, f) == [value |-> W8(value), f |-> f]
ZeroFlag(value) == When(W8(value) = 0, "ZERO")

DO_ADD(a, v) ==
    Result(a + v, ZeroFlag(a + v) \cup When(IS_ADD_CARRY(a, v), "CARRY")
                    \cup When(IS_ADD_HALF_CARRY(a, v), "HCARRY"))

CarryOf(f) == IF "CARRY" \in f THEN 1 ELSE 0

DO_ADC_ForgetsCarryIn(a, v, f) ==
    LET sum == a + v + CarryOf(f) IN
    Result(sum, ZeroFlag(sum) \cup When(W8(sum) < a, "CARRY")
                  \cup When(CarryInto(4, a, v, sum), "HCARRY"))
DO_ADC(a, v, f) ==
    LET sum == a + v + CarryOf(f) IN
    Result(sum, ZeroFlag(sum) \cup When(sum > 255, "CARRY")
                  \cup When(CarryInto(4, a, v, sum), "HCARRY"))

DO_SUB(a, v) ==
    Result(a - v, {"SUB"} \cup ZeroFlag(a - v)
                    \cup When(IS_SUB_CARRY(a, v), "CARRY")
                    \cup When(IS_SUB_HALF_CARRY(a, v), "HCARRY"))

DO_SBC(a, v, f) ==
    LET sum == W16(a - (v + CarryOf(f))) IN
    Result(sum, {"SUB"} \cup ZeroFlag(sum) \cup When(sum > 255, "CARRY")
                  \cup When(CarryInto(4, a, v, sum), "HCARRY"))

DO_AND(a, v) ==
    LET r == OfBits(Bits(a) \cap Bits(v)) IN Result(r, ZeroFlag(r) \cup {"HCARRY"})
DO_XOR(a, v) ==
    LET r == OfBits((Bits(a) \ Bits(v)) \cup (Bits(v) \ Bits(a)))
    IN Result(r, ZeroFlag(r))
DO_OR(a, v) ==
    LET r == OfBits(Bits(a) \cup Bits(v)) IN Result(r, ZeroFlag(r))
DO_CP(a, v) == [DO_SUB(a, v) EXCEPT !.value = a]

\* The operations of the accumulator, by the field y.
Accumulate(y, a, v, f) ==
    CASE y = 0 -> DO_ADD(a, v) [] y = 1 -> DO_ADC(a, v, f)
      [] y = 2 -> DO_SUB(a, v) [] y = 3 -> DO_SBC(a, v, f)
      [] y = 4 -> DO_AND(a, v) [] y = 5 -> DO_XOR(a, v)
      [] y = 6 -> DO_OR(a, v)  [] y = 7 -> DO_CP(a, v)

\* ADD and SUB read a byte from memory as an int8_t, the others as an uint8_t.
FromMemory(y, b) == IF y \in {0, 2} THEN Int8(b) ELSE b

AluOn(s, y, v) ==
    LET r == Accumulate(y, s.reg["A"], v, s.f)
    IN [s EXCEPT !.reg["A"] = r.value, !.f = r.f]

op_alu_reg(s, y, r) == Took(AluOn(s, y, s.reg[r]), 1)
\* DO_SUB returns from the handler itself, with 1.
op_alu_ind_hl(s, y) ==
    Took(AluOn(s, y, FromMemory(y, Get(s, "IND_HL"))), IF y = 2 THEN 1 ELSE 2)
op_alu_n8(s, y) ==
    Took(ADVANCE_PC(AluOn(s, y, FromMemory(y, N8(s))), 1), IF y = 2 THEN 1 ELSE 2)

-----------------------------------------------------------------------------
(* Increments, 16 bit sums and the rest of the accumulator's own            *)

op_inc(s, r) ==
    LET v == Get(s, r) IN
    Took(PutFlags(Put(s, r, v + 1), {"SUB", "HCARRY", "ZERO"},
                  ZeroFlag(v + 1) \cup When(IS_ADD_HALF_CARRY(v, 1), "HCARRY")),
         IF r = "IND_HL" THEN 3 ELSE 1)
op_dec(s, r) ==
    LET v == Get(s, r) IN
    Took(PutFlags(Put(s, r, v - 1), {"SUB", "HCARRY", "ZERO"},
                  {"SUB"} \cup ZeroFlag(v - 1)
                    \cup When(IS_SUB_HALF_CARRY(v, 1), "HCARRY")),
         IF r = "IND_HL" THEN 3 ELSE 1)

op_inc16(s, p) == Took(Put16(s, p, Get16(s, p) + 1), 2)
op_dec16(s, p) == Took(Put16(s, p, Get16(s, p) - 1), 2)

op_add_hl(s, p) ==
    LET v == Get16(s, p) IN
    Took(PutFlags(Put16(s, "HL", HL(s) + v), {"CARRY", "HCARRY", "SUB"},
                  When(IS_ADD16_CARRY(HL(s), v), "CARRY")
                    \cup When(IS_ADD16_HALF_CARRY(HL(s), v), "HCARRY")), 2)

\* The stack pointer and a signed byte; CARRY is looked for in the result.
SpPlus(s) == W16(s.sp + Int8(N8(s)))
SpFlags(s) ==
    When(IS_ADD_HALF_CARRY(s.sp, Int8(N8(s))), "HCARRY")
      \cup When(SpPlus(s) < Int8(N8(s)) \/ W8(SpPlus(s)) < N8(s), "CARRY")
op_add_sp_e8(s) ==
    Took(ADVANCE_PC([s EXCEPT !.sp = SpPlus(s), !.f = SpFlags(s)], 1), 4)
op_ld_hl_sp_e8(s) ==
    Took(ADVANCE_PC(Put16([s EXCEPT !.f = SpFlags(s)], "HL", SpPlus(s)), 1), 3)

DaaSum_DigitsOnly(a, f) ==
    IF "SUB" \in f
      THEN LET low == IF a % 16 > 9 THEN W8(a - 6) ELSE a
           IN IF "CARRY" \in f THEN W16(low - 60) ELSE low
      ELSE LET low == IF a % 16 > 9 THEN a + 6 ELSE a
           IN IF "CARRY" \in f \/ low > 159 THEN low + 96 ELSE low
\* The decimal adjustment of A, as a 16 bit sum.
DaaSum(a, f) ==
    IF "SUB" \in f
      THEN LET low == IF "HCARRY" \in f THEN W8(a - 6) ELSE a
           IN IF "CARRY" \in f THEN W16(low - 60) ELSE low
      ELSE LET low == IF "HCARRY" \in f \/ a % 16 > 9 THEN a + 6 ELSE a
           IN IF "CARRY" \in f \/ low > 159 THEN low + 96 ELSE low
Daa(a, f) ==
    LET sum == DaaSum(a, f) IN
    Result(sum, (f \ {"HCARRY", "ZERO"}) \cup ZeroFlag(sum)
                  \cup When(Bit(sum, 8) = 1, "CARRY"))
op_daa(s) ==
    LET r == Daa(s.reg["A"], s.f)
    IN Took([s EXCEPT !.reg["A"] = r.value, !.f = r.f], 1)

op_cpl(s) ==
    Took(PutFlags(Put(s, "A", 255 - s.reg["A"]), {}, {"SUB", "HCARRY"}), 1)
op_scf(s) == Took(PutFlags(s, {"SUB", "HCARRY"}, {"CARRY"}), 1)
op_ccf(s) ==
    Took(PutFlags(s, {"SUB", "HCARRY", "CARRY"}, {"CARRY"} \ s.f), 1)

-----------------------------------------------------------------------------
(* Rotations, shifts and single bits (the prefixed half of the table)       *)

Top(v) == v \div 128
Low(v) == v % 2

\* The new value and the bit that goes to CARRY.
DO_RLC(v) == <<W8(2 * v) + Top(v), Top(v)>>
DO_RRC(v) == <<v \div 2 + 128 * Low(v), Low(v)>>
DO_RL(v, f) == <<W8(2 * v) + CarryOf(f), Top(v)>>
DO_RR(v, f) == <<v \div 2 + 128 * CarryOf(f), Low(v)>>
DO_SLA(v) == <<W8(2 * v), Top(v)>>
DO_SRA(v) == <<v \div 2 + 128 * Top(v), Low(v)>>
DO_SWP(v) == <<v \div 16 + 16 * (v % 16), 0>>
DO_SRL(v) == <<v \div 2, Low(v)>>

\* The rotations and shifts, by the field y.
Turn(y, v, f) ==
    CASE y = 0 -> DO_RLC(v)   [] y = 1 -> DO_RRC(v)
      [] y = 2 -> DO_RL(v, f) [] y = 3 -> DO_RR(v, f)
      [] y = 4 -> DO_SLA(v)   [] y = 5 -> DO_SRA(v)
      [] y = 6 -> DO_SWP(v)   [] y = 7 -> DO_SRL(v)

op_turn(s, y, r) ==
    LET t == Turn(y, Get(s, r), s.f) IN
    Took([Put(s, r, t[1]) EXCEPT
             !.f = ZeroFlag(t[1]) \cup When(t[2] = 1, "CARRY")],
         IF r = "IND_HL" THEN 4 ELSE 2)

\* RLCA, RRCA, RLA and RRA clear ZERO.
op_turn_a(s, y) ==
    LET t == op_turn(s, y, "A") IN Took([t EXCEPT !.f = @ \ {"ZERO"}], 1)

op_bit(s, k, r) ==
    Took(PutFlags(s, {"ZERO", "SUB"},
                  {"HCARRY"} \cup When(k \notin Bits(Get(s, r)), "ZERO")),
         IF r = "IND_HL" THEN 3 ELSE 2)
op_rst(s, k, r) ==
    Took(Put(s, r, OfBits(Bits(Get(s, r)) \ {k})), IF r = "IND_HL" THEN 4 ELSE 2)
op_set(s, k, r) ==
    Took(Put(s, r, OfBits(Bits(Get(s, r)) \cup {k})), IF r = "IND_HL" THEN 4 ELSE 2)

-----------------------------------------------------------------------------
(* Loads                                                                    *)

op_ld_reg_reg(s, d, r) == Took(Put(s, d, s.reg[r]), 1)
\* Five of the seven loads from (HL) report one cycle.
op_ld_reg_ind_hl(s, d) ==
    Took(Put(s, d, Get(s, "IND_HL")), IF d \in {"A", "B"} THEN 2 ELSE 1)
op_ld_ind_hl_reg(s, r) == Took(Put(s, "IND_HL", s.reg[r]), 2)
op_ld_n8(s, d) ==
    Took(ADVANCE_PC(Put(s, d, N8(s)), 1), IF d = "IND_HL" THEN 3 ELSE 2)
op_ld_n16(s, p) == Took(ADVANCE_PC(Put16(s, p, N16(s)), 2), 3)

op_ld_ind_a(s, addr) == Took(monitor_wr_mem(s, addr, s.reg["A"]), 2)
op_ld_a_ind(s, addr) == Took(Put(s, "A", monitor_rd_mem(s, addr)), 2)
\* LDI and LDD: HL moves by step after the access.
ThenHL(s, step) == Put16(s, "HL", HL(s) + step)

op_ld_ind_a16_sp(s) == Took(ADVANCE_PC(WR_WORD(s, N16(s), s.sp), 2), 5)
op_ld_ind_a16_a(s) == Took(ADVANCE_PC(op_ld_ind_a(s, N16(s)), 2), 4)
op_ld_a_ind_a16(s) == Took(ADVANCE_PC(op_ld_a_ind(s, N16(s)), 2), 4)

HighPage(b) == 65280 + b
op_ldh_ind_a8_a(s) == Took(ADVANCE_PC(op_ld_ind_a(s, HighPage(N8(s))), 1), 2)
op_ldh_a_ind_a8(s) == Took(ADVANCE_PC(op_ld_a_ind(s, HighPage(N8(s))), 1), 3)
op_ldh_ind_c_a(s) == op_ld_ind_a(s, HighPage(s.reg["C"]))
op_ldh_a_ind_c(s) == op_ld_a_ind(s, HighPage(s.reg["C"]))

op_ld_sp_hl(s) == Took([s EXCEPT !.sp = HL(s)], 1)

-----------------------------------------------------------------------------
(* The stack, jumps and calls                                               *)

Push(s, v) ==
    LET t == [s EXCEPT !.sp = W16(@ - 2)] IN WR_WORD(t, t.sp, v)
Pushed(s) == RD_WORD(s, s.sp)
Drop(s) == [s EXCEPT !.sp = W16(@ + 2)]

op_push(s, p) == Took(Push(s, Get16(s, p)), 3)
\* POP AF clears the low half of F.
op_pop(s, p) == Took(Drop(Put16(s, p, Pushed(s))), 3)

\* The condition of the field cc: NZ, Z, NC, C.
Cond(s, cc) ==
    CASE cc = 0 -> "ZERO" \notin s.f [] cc = 1 -> "ZERO" \in s.f
      [] cc = 2 -> "CARRY" \notin s.f [] cc = 3 -> "CARRY" \in s.f

DO_JMP(s) == Took([s EXCEPT !.pc = N16(s)], 4)
op_jmp_cond(s, cond) == IF cond THEN DO_JMP(s) ELSE Took(ADVANCE_PC(s, 2), 3)
op_jmp_hl(s) == Took([s EXCEPT !.pc = HL(s)], 1)

DO_JR(s) == Took(ADVANCE_PC(s, 1 + Int8(N8(s))), 3)
op_jr_cond(s, cond) == IF cond THEN DO_JR(s) ELSE Took(ADVANCE_PC(s, 1), 2)

\* OP_RESTART and process_intr as well: PC is pushed, addr is next.
CallTo(s, addr) == [Push(s, s.pc) EXCEPT !.pc = addr]
DO_CALL_PushesOperand(s) == Took(CallTo(s, N16(s)), 6)
DO_CALL(s) == Took(CallTo(ADVANCE_PC(s, 2), N16(s)), 6)
op_call_cond(s, cond) == IF cond THEN DO_CALL(s) ELSE Took(ADVANCE_PC(s, 2), 3)
op_restart(s, y) == Took(CallTo(s, 8 * y), 4)

DO_RET(s) == Drop([s EXCEPT !.pc = Pushed(s)])
op_ret(s) == Took(DO_RET(s), 4)
op_ret_cond(s, cond) == IF cond THEN Took(DO_RET(s), 5) ELSE Took(s, 2)
op_reti(s) == Took([DO_RET(s) EXCEPT !.ime_enabled = TRUE], 4)

op_nop(s) == Took(s, 1)         \* op_inval and the prefix byte as well
op_stop_n8(s) == Took(ADVANCE_PC(s, 1), 2)
op_halt(s) == Took([s EXCEPT !.is_halted = TRUE], 1)
op_dis_ints(s) == Took([s EXCEPT !.ime_enabled = FALSE], 1)
op_ena_ints(s) == Took([s EXCEPT !.ime_enabled = TRUE], 1)

-----------------------------------------------------------------------------
(* The table of handlers                                                    *)

Block0(s, y, z) ==
    LET p == Pair[y \div 2 + 1]
        r == Operand[y + 1]
        odd == y % 2 = 1
    IN CASE z = 0 -> (CASE y = 0 -> op_nop(s)
                        [] y = 1 -> op_ld_ind_a16_sp(s)
                        [] y = 2 -> op_stop_n8(s)
                        [] y = 3 -> DO_JR(s)
                        [] y \in 4..7 -> op_jr_cond(s, Cond(s, y - 4)))
         [] z = 1 -> IF odd THEN op_add_hl(s, p) ELSE op_ld_n16(s, p)
         [] z = 2 -> (CASE y \in {0, 2} -> op_ld_ind_a(s, Get16(s, p))
                        [] y \in {1, 3} -> op_ld_a_ind(s, Get16(s, p))
                        [] y = 4 -> ThenHL(op_ld_ind_a(s, HL(s)), 1)
                        [] y = 5 -> ThenHL(op_ld_a_ind(s, HL(s)), 1)
                        [] y = 6 -> ThenHL(op_ld_ind_a(s, HL(s)), -1)
                        [] y = 7 -> ThenHL(op_ld_a_ind(s, HL(s)), -1))
         [] z = 3 -> IF odd THEN op_dec16(s, p) ELSE op_inc16(s, p)
         [] z = 4 -> op_inc(s, r)
         [] z = 5 -> op_dec(s, r)
         [] z = 6 -> op_ld_n8(s, r)
         [] z = 7 -> (CASE y \in 0..3 -> op_turn_a(s, y)
                        [] y = 4 -> op_daa(s) [] y = 5 -> op_cpl(s)
                        [] y = 6 -> op_scf(s) [] y = 7 -> op_ccf(s))

Block1(s, y, z) ==
    LET d == Operand[y + 1]
        r == Operand[z + 1]
    IN CASE d = "IND_HL" /\ r = "IND_HL" -> op_halt(s)
         [] d = "IND_HL" /\ r # "IND_HL" -> op_ld_ind_hl_reg(s, r)
         [] d # "IND_HL" /\ r = "IND_HL" -> op_ld_reg_ind_hl(s, d)
         [] OTHER -> op_ld_reg_reg(s, d, r)

Block2(s, y, z) ==
    IF z = 6 THEN op_alu_ind_hl(s, y) ELSE op_alu_reg(s, y, Operand[z + 1])

Block3(s, y, z) ==
    LET p == <<"BC", "DE", "HL", "AF">>[y \div 2 + 1]
        odd == y % 2 = 1
    IN CASE z = 0 -> (CASE y \in 0..3 -> op_ret_cond(s, Cond(s, y))
                        [] y = 4 -> op_ldh_ind_a8_a(s)
                        [] y = 5 -> op_add_sp_e8(s)
                        [] y = 6 -> op_ldh_a_ind_a8(s)
                        [] y = 7 -> op_ld_hl_sp_e8(s))
         [] z = 1 -> (CASE ~odd -> op_pop(s, p)
                        [] y = 1 -> op_ret(s)
                        [] y = 3 -> op_reti(s)
                        [] y = 5 -> op_jmp_hl(s)
                        [] y = 7 -> op_ld_sp_hl(s))
         [] z = 2 -> (CASE y \in 0..3 -> op_jmp_cond(s, Cond(s, y))
                        [] y = 4 -> op_ldh_ind_c_a(s)
                        [] y = 5 -> op_ld_ind_a16_a(s)
                        [] y = 6 -> op_ldh_a_ind_c(s)
                        [] y = 7 -> op_ld_a_ind_a16(s))
         [] z = 3 -> (CASE y = 0 -> DO_JMP(s)
                        [] y \in 1..5 -> op_nop(s)
                        [] y = 6 -> op_dis_ints(s)
                        [] y = 7 -> op_ena_ints(s))
         [] z = 4 -> IF y < 4 THEN op_call_cond(s, Cond(s, y)) ELSE op_nop(s)
         [] z = 5 -> (CASE ~odd -> op_push(s, p)
                        [] y = 1 -> DO_CALL(s)
                        [] y \in {3, 5, 7} -> op_nop(s))
         [] z = 6 -> op_alu_n8(s, y)
         [] z = 7 -> op_restart(s, y)

Prefixed(s, x, y, z) ==
    LET r == Operand[z + 1]
    IN CASE x = 0 -> op_turn(s, y, r) [] x = 1 -> op_bit(s, y, r)
         [] x = 2 -> op_rst(s, y, r)  [] x = 3 -> op_set(s, y, r)

ops_table_dispatch(s, op, prefix) ==
    LET x == op \div 64
        y == (op \div 8) % 8
        z == op % 8
    IN CASE prefix -> Prefixed(s, x, y, z)
         [] ~prefix /\ x = 0 -> Block0(s, y, z)
         [] ~prefix /\ x = 1 -> Block1(s, y, z)
         [] ~prefix /\ x = 2 -> Block2(s, y, z)
         [] ~prefix /\ x = 3 -> Block3(s, y, z)

-----------------------------------------------------------------------------
(* Execution                                                                *)

OPCODE_PREFIX == 203

Execute_StopsClocks(s) ==
    LET op == N8(s)
        t == ADVANCE_PC(s, 1)
    IN CASE s.is_halted -> Took(s, 0)
         [] ~s.is_halted /\ op = OPCODE_PREFIX ->
               ops_table_dispatch(ADVANCE_PC(t, 1), N8(t), TRUE)
         [] ~s.is_halted /\ op # OPCODE_PREFIX -> ops_table_dispatch(t, op, FALSE)
\* The fetch and the execution at the head of cpu_exec_next.
Execute(s) ==
    LET op == N8(s)
        t == ADVANCE_PC(s, 1)
    IN CASE s.is_halted -> Took(s, 3)
         [] ~s.is_halted /\ op = OPCODE_PREFIX ->
               ops_table_dispatch(ADVANCE_PC(t, 1), N8(t), TRUE)
         [] ~s.is_halted /\ op # OPCODE_PREFIX -> ops_table_dispatch(t, op, FALSE)

\* op_len, the lengths the monitor steps over an instruction with; those of
\* the first and last quarter of the table, 1 where not listed.
Len3 == {1, 8, 17, 33, 49} \cup {194, 195, 196, 202, 204, 205} \cup
        {210, 211, 212, 218, 220, 221} \cup {227, 228, 234, 236, 237} \cup
        {244, 250, 252, 253}
Len2 == {6, 14, 16, 22, 24, 30, 32, 38, 40, 46, 48, 54, 56, 62} \cup
        {198, 203, 206, 214, 222, 224, 230, 232, 238, 240, 246, 248, 254}
op_len(op) == CASE op \in Len3 -> 3 [] op \in Len2 -> 2 [] OTHER -> 1
=============================================================================
