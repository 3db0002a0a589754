-------------------------- MODULE InstructionProofs -------------------------
(***************************************************************************)
(* Laws of InstructionLaws, for every byte, word, stack and cartridge.     *)
(***************************************************************************)
EXTENDS InstructionLaws, ProcessorProofs

-----------------------------------------------------------------------------
(* The programs and the states they start from.                             *)

\* A program fits between its first byte and the end of memory.
LEMMA CodeType ==
    ASSUME NEW program \in Seq(Byte), Len(program) <= 3
    PROVE  Code(CodeBase, program) \in Memory
<1> DEFINE end == CodeBase + Len(program) - 1
           D == CodeBase..end
<1>1. CodeBase = 53248 /\ Len(program) \in Nat /\ end \in Int
  BY DEF CodeBase
<1>2. D \subseteq Word
  <2>1. \A n \in D : n \in Int /\ CodeBase <= n /\ n <= end
    <3> HIDE DEF end
    <3> QED BY <1>1
  <2>2. \A n \in D : 0 <= n /\ n < 65536
    BY <1>1, <2>1
  <2> HIDE DEF D
  <2> QED BY <2>1, <2>2, Ranges
<1>3. \A n \in D : program[n - CodeBase + 1] \in Byte
  <2>1. ASSUME NEW n \in D PROVE n - CodeBase + 1 \in 1..Len(program)
    BY <1>1
  <2> QED BY <2>1
<1>4. Code(CodeBase, program) \in [D -> Byte]
  <2> HIDE DEF end
  <2> QED BY <1>3 DEF Code, end
<1> HIDE DEF D
<1> QED BY <1>2, <1>4 DEF Memory

LEMMA MachineType ==
    ASSUME NEW cart \in DOMAIN Cartridges, NEW a \in Byte, NEW f \in SUBSET Flags,
           NEW other \in Byte, NEW byte \in Byte, NEW sp \in Word,
           NEW program \in Seq(Byte), Len(program) <= 3, NEW s,
           s = Machine(cart, a, f, other, byte, sp, program)
    PROVE  /\ s \in CpuType /\ ~s.is_halted
           /\ s.sp = sp /\ s.pc = CodeBase /\ s.cart = cart /\ ~s.booting
           /\ s.f = f /\ s.window = 1
           /\ s.mem = Written(Code(CodeBase, program), DataBase, byte)
           /\ s.reg["A"] = a /\ s.reg["H"] = 192 /\ s.reg["L"] = 0
           /\ \A r \in {"B", "C", "D", "E"} : s.reg[r] = other
           /\ HL(s) = DataBase
<1> DEFINE m == Written(Code(CodeBase, program), DataBase, byte)
           g == [r \in Registers |->
                    CASE r = "A" -> a [] r = "H" -> 192 [] r = "L" -> 0
                      [] OTHER -> other]
           b == Boot(cart)
<1>1. m \in Memory /\ CodeBase \in Word
  <2>1. DataBase \in Word /\ CodeBase \in Word
    BY Ranges DEF DataBase, CodeBase
  <2> QED BY <2>1, CodeType, MemoryType
<1>2. g \in [Registers -> Byte]
  <2>1. 192 \in Byte /\ 0 \in Byte
    BY Ranges
  <2> QED BY <2>1
<1>3. /\ g["A"] = a /\ g["H"] = 192 /\ g["L"] = 0
      /\ \A r \in {"B", "C", "D", "E"} : g[r] = other
  BY DEF Registers
<1>4. b \in CpuType /\ ~b.is_halted /\ b.window = 1 /\ b.cart = cart
  BY BootType DEF Boot
<1>5. s = [b EXCEPT !.booting = FALSE, !.mem = m, !.reg = g, !.f = f, !.sp = sp,
                    !.pc = CodeBase]
  BY DEF Machine
<1> HIDE DEF m, g, b
<1>6. s \in CpuType
  BY <1>1, <1>2, <1>4, <1>5, ZenonT(60) DEF CpuType, CpuFields
<1>7. /\ ~s.is_halted /\ s.sp = sp /\ s.pc = CodeBase /\ s.cart = cart /\ ~s.booting
      /\ s.mem = m /\ s.reg = g /\ s.window = 1 /\ s.f = f
  BY <1>4, <1>5 DEF CpuType, CpuFields
<1>8. HL(s) = 256 * s.reg["H"] + s.reg["L"]
  BY DEF HL, Get16, HighOf, LowOf
<1>9. HL(s) = DataBase
  BY <1>3, <1>7, <1>8 DEF DataBase
<1> QED BY <1>3, <1>6, <1>7, <1>9 DEF m

\* A stack pointer below which a word does not reach into the program.
Apart(sp) == \A a \in BelowStack(sp) : ~InCode(a)

\* A machine about to run one of the programs.
Ready(s) ==
    /\ s \in CpuType /\ KeepsWord(s.sp)
    /\ ~s.is_halted /\ ~s.booting /\ s.pc = CodeBase
    /\ HL(s) = DataBase /\ Apart(s.sp)

LEMMA StacksKeep ==
    /\ KeepsWord(STACK_TOP) /\ Apart(STACK_TOP)
    /\ \A sp \in Stacks : KeepsWord(sp) /\ Apart(sp)
<1>1. STACK_TOP \in Word
  BY Ranges DEF STACK_TOP
<1>2. Keeps(W16(STACK_TOP - 1)) /\ Keeps(W16(STACK_TOP - 2))
  BY IoNames DEF Keeps, CartridgeEnd, BankSize, Io, W16, STACK_TOP
<1>3. KeepsWord(STACK_TOP)
  BY <1>1, <1>2 DEF KeepsWord, BelowStack
<1>4. Apart(STACK_TOP)
  BY DEF Apart, BelowStack, InCode, CodeBase, W16, STACK_TOP
<1>5. \A sp \in Stacks : KeepsWord(sp) /\ Apart(sp)
  BY StacksAssumption DEF KeepsWord, Apart, BelowStack
<1> QED BY <1>3, <1>4, <1>5

\* The bytes of the programs.
Short(p) == p \in Seq(Byte) /\ Len(p) <= 3

\* The pairs of Inverses, one family at a time.
LEMMA InversePairs ==
    ASSUME NEW p, p \in Inverses
    PROVE  \/ \E y \in 0..7 : p = <<8 * y + 4, 8 * y + 5>>
           \/ \E q \in 0..3 : p = <<16 * q + 3, 16 * q + 11>>
           \/ p \in {<<197, 193>>, <<213, 209>>, <<229, 225>>, <<245, 241>>}
           \/ p \in {<<7, 15>>, <<15, 7>>, <<23, 31>>, <<31, 23>>, <<47, 47>>}
<1> DEFINE pushes == {<<197, 193>>, <<213, 209>>, <<229, 225>>, <<245, 241>>}
           incs == {<<8 * y + 4, 8 * y + 5>> : y \in 0..7}
           pairs == {<<16 * q + 3, 16 * q + 11>> : q \in 0..3}
           turns == {<<7, 15>>, <<15, 7>>, <<23, 31>>, <<31, 23>>, <<47, 47>>}
<1>1. Inverses = pushes \cup incs \cup pairs \cup turns
  BY DEF Inverses
<1>2. p \in incs => \E y \in 0..7 : p = <<8 * y + 4, 8 * y + 5>>
  OBVIOUS
<1>3. p \in pairs => \E q \in 0..3 : p = <<16 * q + 3, 16 * q + 11>>
  OBVIOUS
<1>4. p \in pushes \/ p \in incs \/ p \in pairs \/ p \in turns
  <2> HIDE DEF pushes, incs, pairs, turns
  <2> QED BY <1>1
<1> HIDE DEF incs, pairs
<1> QED BY <1>2, <1>3, <1>4

LEMMA Programs ==
    /\ \A p \in Inverses : Short(p)
    /\ \A n, m \in Byte : Short(<<n, m>>)
    /\ \A op, b \in Byte :
          \A p \in {<<op, 64, 0>>, <<op, b, 0>>, <<OPCODE_PREFIX, op>>} :
             Short(p)
    /\ Short(Banking)
<1>1. \A n, m \in Byte : Short(<<n, m>>)
  BY DEF Short
<1>2. \A n, m, k \in Byte : Short(<<n, m, k>>)
  BY DEF Short
<1>3. \A p \in Inverses : Short(p)
  <2>1. \A y \in 0..7 : 8 * y + 4 \in Byte /\ 8 * y + 5 \in Byte
    BY Ranges
  <2>2. \A p \in 0..3 : 16 * p + 3 \in Byte /\ 16 * p + 11 \in Byte
    BY Ranges
  <2>3. /\ 197 \in Byte /\ 193 \in Byte /\ 213 \in Byte /\ 209 \in Byte
        /\ 229 \in Byte /\ 225 \in Byte /\ 245 \in Byte /\ 241 \in Byte
        /\ 7 \in Byte /\ 15 \in Byte /\ 23 \in Byte /\ 31 \in Byte /\ 47 \in Byte
    BY Ranges
  <2> SUFFICES ASSUME NEW p \in Inverses PROVE \E n, m \in Byte : p = <<n, m>>
    BY <1>1, Zenon
  <2>4. \/ \E y \in 0..7 : p = <<8 * y + 4, 8 * y + 5>>
        \/ \E q \in 0..3 : p = <<16 * q + 3, 16 * q + 11>>
        \/ p \in {<<197, 193>>, <<213, 209>>, <<229, 225>>, <<245, 241>>}
        \/ p \in {<<7, 15>>, <<15, 7>>, <<23, 31>>, <<31, 23>>, <<47, 47>>}
    BY InversePairs
  <2>5. CASE \E y \in 0..7 : p = <<8 * y + 4, 8 * y + 5>>
    BY <2>1, <2>5, Zenon
  <2>6. CASE \E q \in 0..3 : p = <<16 * q + 3, 16 * q + 11>>
    BY <2>2, <2>6, Zenon
  <2>7. CASE p \in {<<197, 193>>, <<213, 209>>, <<229, 225>>, <<245, 241>>}
    BY <2>3, <2>7, ZenonT(40)
  <2>8. CASE p \in {<<7, 15>>, <<15, 7>>, <<23, 31>>, <<31, 23>>, <<47, 47>>}
    BY <2>3, <2>8, Zenon
  <2> QED BY <2>4, <2>5, <2>6, <2>7, <2>8, Zenon
<1>5. ASSUME NEW op \in Byte, NEW b \in Byte,
             NEW p \in {<<op, 64, 0>>, <<op, b, 0>>, <<OPCODE_PREFIX, op>>}
      PROVE  Short(p)
  <2>1. 64 \in Byte /\ 0 \in Byte /\ OPCODE_PREFIX \in Byte
    BY Ranges DEF OPCODE_PREFIX
  <2>2. (\E n, m \in Byte : p = <<n, m>>) \/ (\E n, m, k \in Byte : p = <<n, m, k>>)
    BY <2>1, Zenon
  <2>3. CASE \E n, m \in Byte : p = <<n, m>>
    BY <1>1, <2>3
  <2>4. CASE \E n, m, k \in Byte : p = <<n, m, k>>
    BY <1>2, <2>4
  <2> QED BY <2>2, <2>3, <2>4
<1>6. Short(Banking)
  <2>1. 2 \in Byte /\ 26 \in Byte
    BY Ranges
  <2> QED BY <1>1, <2>1 DEF Banking
<1> QED BY <1>1, <1>3, <1>5, <1>6

LEMMA InitReady == Init => Ready(start) /\ now = start /\ steps = 0
<1> SUFFICES ASSUME Init PROVE Ready(now)
  BY DEF Init
<1>1. ASSUME NEW cart \in DOMAIN Cartridges, NEW a \in Byte, NEW f \in SUBSET Flags,
             NEW other \in Byte, NEW byte \in Byte, NEW sp, KeepsWord(sp),
             Apart(sp), NEW program, Short(program)
      PROVE  Ready(Machine(cart, a, f, other, byte, sp, program))
  <2> DEFINE s == Machine(cart, a, f, other, byte, sp, program)
  <2>1. sp \in Word
    BY <1>1 DEF KeepsWord
  <2>2. /\ s \in CpuType /\ ~s.is_halted /\ s.sp = sp /\ s.pc = CodeBase /\ ~s.booting
        /\ HL(s) = DataBase
    BY <1>1, <2>1, MachineType DEF Short
  <2> HIDE DEF s
  <2>3. Ready(s)
    BY <1>1, <2>2 DEF Ready
  <2> QED BY <2>3 DEF s
<1>2. {} \in SUBSET Flags /\ Flags \in SUBSET Flags /\ {"CARRY"} \in SUBSET Flags
  BY DEF Flags
<1>4. CASE StartSum
  <2>1. PICK a \in Byte, v \in Operands, f \in {{}, {"CARRY"}}, y \in {0, 1, 2, 3, 7} :
           \E program \in {<<128 + 8 * y, DAA>>, <<134 + 8 * y, DAA>>, <<198 + 8 * y, v>>} :
              now = Machine(Plain, a, f, v, v, STACK_TOP, program)
    BY <1>4, Zenon DEF StartSum
  <2>2. PICK program \in {<<128 + 8 * y, DAA>>, <<134 + 8 * y, DAA>>, <<198 + 8 * y, v>>} :
           now = Machine(Plain, a, f, v, v, STACK_TOP, program)
    BY <2>1
  <2>3. v \in Byte /\ Plain \in DOMAIN Cartridges /\ f \in SUBSET Flags
    BY <1>2, LawsAssumption
  <2>4. Short(program)
    <3>1. /\ 128 + 8 * y \in Byte /\ 134 + 8 * y \in Byte /\ 198 + 8 * y \in Byte
          /\ DAA \in Byte
      BY Ranges DEF DAA
    <3>2. program = <<128 + 8 * y, DAA>> \/ program = <<134 + 8 * y, DAA>>
            \/ program = <<198 + 8 * y, v>>
      OBVIOUS
    <3>3. \A n, m \in Byte : Short(<<n, m>>)
      BY Programs
    <3>4. /\ Short(<<128 + 8 * y, DAA>>) /\ Short(<<134 + 8 * y, DAA>>)
          /\ Short(<<198 + 8 * y, v>>)
      BY <2>3, <3>1, <3>3
    <3> QED BY <3>2, <3>4
  <2> QED BY <1>1, <2>2, <2>3, <2>4, StacksKeep
<1>5. CASE StartOpcode
  <2>1. PICK op \in Byte, b \in Edges, f \in {{}, Flags}, sp \in Stacks :
           \E program \in {<<op, 64, 0>>, <<op, b, 0>>, <<OPCODE_PREFIX, op>>} :
              now = Machine(Plain, b, f, b, b, sp, program)
    BY <1>5 DEF StartOpcode
  <2>2. PICK program \in {<<op, 64, 0>>, <<op, b, 0>>, <<OPCODE_PREFIX, op>>} :
           now = Machine(Plain, b, f, b, b, sp, program)
    BY <2>1
  <2>3. b \in Byte /\ Plain \in DOMAIN Cartridges /\ f \in SUBSET Flags
    BY <1>2, LawsAssumption
  <2>4. Short(program)
    BY <2>3, Programs, Zenon
  <2> QED BY <1>1, <2>2, <2>3, <2>4, StacksKeep
<1>6. CASE StartPair
  <2>1. PICK pair \in Inverses, b \in Edges, f \in {{}, {"CARRY"}, Flags}, sp \in Stacks :
           now = Machine(Plain, b, f, 255 - b, b, sp, pair)
    BY <1>6 DEF StartPair
  <2>2. b \in Byte /\ Plain \in DOMAIN Cartridges /\ f \in SUBSET Flags
    BY <1>2, LawsAssumption
  <2>3. 255 - b \in Byte
    BY <2>2, Ranges
  <2>4. Short(pair)
    BY Programs, Zenon
  <2> QED BY <1>1, <2>1, <2>2, <2>3, <2>4, StacksKeep
<1>7. CASE StartBanks
  <2>1. PICK cart \in DOMAIN Cartridges, v \in Byte, b \in WriteTo, d \in ReadFrom :
           \E window \in 0..(Cartridges[cart].banks - 1) :
              now = [Machine(cart, v, {}, 0, 0, STACK_TOP, Banking) EXCEPT
                        !.window = window, !.reg["B"] = b, !.reg["D"] = d]
    BY <1>7, Zenon DEF StartBanks
  <2> DEFINE s == Machine(cart, v, {}, 0, 0, STACK_TOP, Banking)
  <2>2. PICK window \in 0..(Cartridges[cart].banks - 1) :
           now = [s EXCEPT !.window = window, !.reg["B"] = b, !.reg["D"] = d]
    BY <2>1, Zenon
  <2>3. window \in Nat /\ b \in Byte /\ d \in Byte /\ 0 \in Byte
    BY LawsAssumption, CartridgeAssumption, Ranges
  <2>4. Short(Banking)
    BY Programs
  <2>5. Ready(s)
    BY <1>1, <1>2, <2>3, <2>4, StacksKeep
  <2> HIDE DEF s
  <2>6. now \in CpuType /\ now.sp = s.sp /\ now.is_halted = s.is_halted
        /\ now.booting = s.booting /\ now.pc = s.pc
        /\ now.reg["H"] = s.reg["H"] /\ now.reg["L"] = s.reg["L"]
    BY <2>2, <2>3, <2>5 DEF Ready, CpuType, CpuFields, Registers
  <2>7. HL(now) = HL(s)
    BY <2>6 DEF HL, Get16, HighOf, LowOf
  <2> QED BY <2>5, <2>6, <2>7 DEF Ready
<1> QED BY <1>4, <1>5, <1>6, <1>7 DEF Init

RunInv ==
    /\ Ready(start)
    /\ \/ steps = 0 /\ now = start
       \/ steps = 1 /\ now = Execute(start)
       \/ steps = 2 /\ now = Execute(Execute(start))

\* In a run of Step, now is what one or two instructions make of start.
THEOREM RunInvariant == Spec => []RunInv
<1>1. Init => RunInv
  BY InitReady DEF RunInv
<1>2. RunInv /\ [Next]_vars => RunInv'
  <2> SUFFICES ASSUME RunInv, [Next]_vars PROVE RunInv'
    OBVIOUS
  <2>1. CASE Step
    <3>1. start' = start /\ now' = Execute(now) /\ steps' = steps + 1 /\ steps < 2
      BY <2>1 DEF Step, MaxSteps
    <3>2. CASE steps = 0 /\ now = start
      BY <3>1, <3>2 DEF RunInv
    <3>3. CASE steps = 1 /\ now = Execute(start)
      BY <3>1, <3>3 DEF RunInv
    <3>4. ~(steps = 2)
      BY <3>1
    <3> QED BY <3>2, <3>3, <3>4 DEF RunInv
  <2>2. CASE UNCHANGED vars
    BY <2>2 DEF RunInv, vars
  <2> QED BY <2>1, <2>2 DEF Next
<1> QED BY <1>1, <1>2, PTL DEF Spec

-----------------------------------------------------------------------------
(* Cycles and lengths.                                                      *)

\* Every instruction, of every program and from every state, takes from 1 to 6
\* cycles (the values that the handlers of cpu_ops.c return).
THEOREM CyclesBounded == Spec => []CyclesInRange
<1>1. RunInv => CyclesInRange
  <2> SUFFICES ASSUME RunInv, steps > 0 PROVE now.cycles \in 1..6
    BY DEF CyclesInRange
  <2>1. PICK s \in CpuType : now = Execute(s)
    <3>1. start \in CpuType /\ Execute(start) \in CpuType
      BY ExecuteEnds DEF RunInv, Ready, Lands
    <3>2. steps # 0
      OBVIOUS
    <3> QED BY <3>1, <3>2 DEF RunInv
  <2> QED BY <2>1, ExecuteEnds DEF Lands
<1> QED BY <1>1, RunInvariant, PTL

LEMMA OpLen ==
    /\ \A op \in Len3 : op_len(op) = 3
    /\ \A op \in Len2 : op_len(op) = 2
    /\ \A op : op \notin Len2 \cup Len3 => op_len(op) = 1
<1>1. Len2 \cap Len3 = {}
  BY DEF Len2, Len3
<1> QED BY <1>1, Zenon DEF op_len

LEMMA Block0Lengths ==
    ASSUME NEW y \in Field, NEW z \in Field, NEW op, op = 8 * y + z,
           op \notin Jumps
    PROVE  ~Leaves(0, y, z) /\ op_len(op) = 1 + OperandBytes(0, y, z)
<1>1. ASSUME z = 0, y = 0
      PROVE  ~Leaves(0, y, z) /\ op_len(op) = 1 /\ OperandBytes(0, y, z) = 0
  <2>1. op \notin Len2 \cup Len3
    BY <1>1, Fields8 DEF Len2, Len3
  <2>2. OperandBytes(0, y, z) = 0
    BY <1>1, Fields8 DEF OperandBytes
  <2>3. ~Leaves(0, y, z)
    BY <1>1, Fields8 DEF Leaves
  <2> QED BY <2>1, <2>2, <2>3, OpLen, Zenon
<1>2. ASSUME z = 0, y = 1
      PROVE  ~Leaves(0, y, z) /\ op_len(op) = 3 /\ OperandBytes(0, y, z) = 2
  <2>1. op \in Len3
    BY <1>2, Fields8 DEF Len3
  <2>2. OperandBytes(0, y, z) = 2
    BY <1>2, Fields8 DEF OperandBytes
  <2>3. ~Leaves(0, y, z)
    BY <1>2, Fields8 DEF Leaves
  <2> QED BY <2>1, <2>2, <2>3, OpLen, Zenon
<1>3. ASSUME z = 0, y = 2
      PROVE  ~Leaves(0, y, z) /\ op_len(op) = 2 /\ OperandBytes(0, y, z) = 1
  <2>1. op \in Len2
    BY <1>3, Fields8 DEF Len2
  <2>2. OperandBytes(0, y, z) = 1
    BY <1>3, Fields8 DEF OperandBytes
  <2>3. ~Leaves(0, y, z)
    BY <1>3, Fields8 DEF Leaves
  <2> QED BY <2>1, <2>2, <2>3, OpLen, Zenon
<1>4. ~(z = 0 /\ y \in {3, 4, 5, 6, 7})
  BY Fields8 DEF Jumps
<1>5. ASSUME z = 1, y \in {0, 2, 4, 6}
      PROVE  ~Leaves(0, y, z) /\ op_len(op) = 3 /\ OperandBytes(0, y, z) = 2
  <2>1. op \in Len3
    BY <1>5, Fields8 DEF Len3
  <2>2. OperandBytes(0, y, z) = 2
    BY <1>5, Fields8 DEF OperandBytes
  <2>3. ~Leaves(0, y, z)
    BY <1>5, Fields8 DEF Leaves
  <2> QED BY <2>1, <2>2, <2>3, OpLen, Zenon
<1>6. ASSUME z = 1, y \in {1, 3, 5, 7}
      PROVE  ~Leaves(0, y, z) /\ op_len(op) = 1 /\ OperandBytes(0, y, z) = 0
  <2>1. op \notin Len2 \cup Len3
    BY <1>6, Fields8 DEF Len2, Len3
  <2>2. OperandBytes(0, y, z) = 0
    BY <1>6, Fields8 DEF OperandBytes
  <2>3. ~Leaves(0, y, z)
    BY <1>6, Fields8 DEF Leaves
  <2> QED BY <2>1, <2>2, <2>3, OpLen, Zenon
<1>7. ASSUME z \in {2, 3, 4, 5, 7}
      PROVE  ~Leaves(0, y, z) /\ op_len(op) = 1 /\ OperandBytes(0, y, z) = 0
  <2>1. op \notin Len2 \cup Len3
    BY <1>7, Fields8 DEF Len2, Len3
  <2>2. OperandBytes(0, y, z) = 0
    BY <1>7, Fields8 DEF OperandBytes
  <2>3. ~Leaves(0, y, z)
    BY <1>7, Fields8 DEF Leaves
  <2> QED BY <2>1, <2>2, <2>3, OpLen, Zenon
<1>8. ASSUME z = 6
      PROVE  ~Leaves(0, y, z) /\ op_len(op) = 2 /\ OperandBytes(0, y, z) = 1
  <2>1. op \in Len2
    BY <1>8, Fields8 DEF Len2
  <2>2. OperandBytes(0, y, z) = 1
    BY <1>8, Fields8 DEF OperandBytes
  <2>3. ~Leaves(0, y, z)
    BY <1>8, Fields8 DEF Leaves
  <2> QED BY <2>1, <2>2, <2>3, OpLen, Zenon
<1> QED BY <1>1, <1>2, <1>3, <1>4, <1>5, <1>6, <1>7, <1>8, Fields8

LEMMA Block3Lengths ==
    ASSUME NEW y \in Field, NEW z \in Field, NEW op, op = 192 + 8 * y + z,
           op \notin Jumps, op \notin Calls, op \notin Invalid, op # OPCODE_PREFIX
    PROVE  ~Leaves(3, y, z) /\ op_len(op) = 1 + OperandBytes(3, y, z)
<1>1. ASSUME z = 0, y \in {4, 5, 6, 7}
      PROVE  ~Leaves(3, y, z) /\ op_len(op) = 2 /\ OperandBytes(3, y, z) = 1
  <2>1. op \in Len2
    BY <1>1, Fields8 DEF Len2
  <2>2. OperandBytes(3, y, z) = 1
    BY <1>1, Fields8 DEF OperandBytes
  <2>3. ~Leaves(3, y, z)
    BY <1>1, Fields8 DEF Leaves
  <2> QED BY <2>1, <2>2, <2>3, OpLen, Zenon
<1>2. ~(z = 0 /\ y \in {0, 1, 2, 3})
  BY Fields8 DEF Jumps, Calls, Restarts, Invalid, OPCODE_PREFIX
<1>3. ASSUME z = 1, y \in {0, 2, 4, 6, 7}
      PROVE  ~Leaves(3, y, z) /\ op_len(op) = 1 /\ OperandBytes(3, y, z) = 0
  <2>1. op \notin Len2 \cup Len3
    BY <1>3, Fields8 DEF Len2, Len3
  <2>2. OperandBytes(3, y, z) = 0
    BY <1>3, Fields8 DEF OperandBytes
  <2>3. ~Leaves(3, y, z)
    BY <1>3, Fields8 DEF Leaves
  <2> QED BY <2>1, <2>2, <2>3, OpLen, Zenon
<1>4. ~(z = 1 /\ y \in {1, 3, 5})
  BY Fields8 DEF Jumps, Calls, Restarts, Invalid, OPCODE_PREFIX
<1>5. ASSUME z = 2, y \in {4, 6}
      PROVE  ~Leaves(3, y, z) /\ op_len(op) = 1 /\ OperandBytes(3, y, z) = 0
  <2>1. op \notin Len2 \cup Len3
    BY <1>5, Fields8 DEF Len2, Len3
  <2>2. OperandBytes(3, y, z) = 0
    BY <1>5, Fields8 DEF OperandBytes
  <2>3. ~Leaves(3, y, z)
    BY <1>5, Fields8 DEF Leaves
  <2> QED BY <2>1, <2>2, <2>3, OpLen, Zenon
<1>6. ASSUME z = 2, y \in {5, 7}
      PROVE  ~Leaves(3, y, z) /\ op_len(op) = 3 /\ OperandBytes(3, y, z) = 2
  <2>1. op \in Len3
    BY <1>6, Fields8 DEF Len3
  <2>2. OperandBytes(3, y, z) = 2
    BY <1>6, Fields8 DEF OperandBytes
  <2>3. ~Leaves(3, y, z)
    BY <1>6, Fields8 DEF Leaves
  <2> QED BY <2>1, <2>2, <2>3, OpLen, Zenon
<1>7. ~(z = 2 /\ y \in {0, 1, 2, 3})
  BY Fields8 DEF Jumps, Calls, Restarts, Invalid, OPCODE_PREFIX
<1>8. ASSUME z = 3, y \in {6, 7}
      PROVE  ~Leaves(3, y, z) /\ op_len(op) = 1 /\ OperandBytes(3, y, z) = 0
  <2>1. op \notin Len2 \cup Len3
    BY <1>8, Fields8 DEF Len2, Len3
  <2>2. OperandBytes(3, y, z) = 0
    BY <1>8, Fields8 DEF OperandBytes
  <2>3. ~Leaves(3, y, z)
    BY <1>8, Fields8 DEF Leaves
  <2> QED BY <2>1, <2>2, <2>3, OpLen, Zenon
<1>9. ~(z = 3 /\ y \in {0, 1, 2, 3, 4, 5})
  BY Fields8 DEF Jumps, Calls, Restarts, Invalid, OPCODE_PREFIX
<1>10. ~(z \in {4, 7})
  BY Fields8 DEF Jumps, Calls, Restarts, Invalid, OPCODE_PREFIX
<1>11. ASSUME z = 5, y \in {0, 2, 4, 6}
      PROVE  ~Leaves(3, y, z) /\ op_len(op) = 1 /\ OperandBytes(3, y, z) = 0
  <2>1. op \notin Len2 \cup Len3
    BY <1>11, Fields8 DEF Len2, Len3
  <2>2. OperandBytes(3, y, z) = 0
    BY <1>11, Fields8 DEF OperandBytes
  <2>3. ~Leaves(3, y, z)
    BY <1>11, Fields8 DEF Leaves
  <2> QED BY <2>1, <2>2, <2>3, OpLen, Zenon
<1>12. ~(z = 5 /\ y \in {1, 3, 5, 7})
  BY Fields8 DEF Jumps, Calls, Restarts, Invalid, OPCODE_PREFIX
<1>13. ASSUME z = 6
      PROVE  ~Leaves(3, y, z) /\ op_len(op) = 2 /\ OperandBytes(3, y, z) = 1
  <2>1. op \in Len2
    BY <1>13, Fields8 DEF Len2
  <2>2. OperandBytes(3, y, z) = 1
    BY <1>13, Fields8 DEF OperandBytes
  <2>3. ~Leaves(3, y, z)
    BY <1>13, Fields8 DEF Leaves
  <2> QED BY <2>1, <2>2, <2>3, OpLen, Zenon
<1> QED BY <1>1, <1>2, <1>3, <1>4, <1>5, <1>6, <1>7, <1>8, <1>9, <1>10, <1>11, <1>12, <1>13, Fields8

\* op_len agrees with the table, but for jumps, calls and what does not exist.
LEMMA Lengths ==
    ASSUME NEW op \in Byte, op # OPCODE_PREFIX,
           op \notin Jumps, op \notin Calls, op \notin Invalid
    PROVE  LET x == op \div 64
               y == (op \div 8) % 8
               z == op % 8
           IN ~Leaves(x, y, z) /\ op_len(op) = 1 + OperandBytes(x, y, z)
<1> DEFINE x == op \div 64
           y == (op \div 8) % 8
           z == op % 8
<1>1. x \in 0..3 /\ y \in Field /\ z \in Field /\ op = 64 * x + 8 * y + z
  BY OpcodeFields
<1> HIDE DEF x, y, z
<1>2. y \in 0..7 /\ z \in 0..7
  BY <1>1 DEF Field
<1>3. CASE x = 0
  <2>1. op = 8 * y + z
    BY <1>1, <1>2, <1>3
  <2> QED BY <1>1, <1>3, <2>1, Block0Lengths DEF x, y, z
<1>4. CASE x = 3
  <2>1. op = 192 + 8 * y + z
    BY <1>1, <1>2, <1>4
  <2> QED BY <1>1, <1>4, <2>1, Block3Lengths DEF x, y, z
<1>5. CASE x = 1 \/ x = 2
  <2>1. 64 <= op /\ op < 192 /\ op \in Int
    BY <1>1, <1>2, <1>5
  <2>2. op \notin Len2 \cup Len3
    BY <2>1 DEF Len2, Len3
  <2>3. ~Leaves(x, y, z)
    BY <1>5 DEF Leaves
  <2>4. OperandBytes(x, y, z) = 0
    BY <1>5 DEF OperandBytes
  <2>5. op_len(op) = 1
    BY <2>2, OpLen, Zenon
  <2> QED BY <2>3, <2>4, <2>5 DEF x, y, z
<1> QED BY <1>1, <1>3, <1>4, <1>5

\* What CALL, RST and an interrupt leave on the stack is where they were.
LEMMA CalledFrom ==
    ASSUME NEW s \in CpuType, KeepsWord(s.sp), NEW a \in Word, NEW n \in 1..6
    PROVE  /\ Pushed(Took(CallTo(s, a), n)) = s.pc
           /\ Took(CallTo(s, a), n).sp # s.sp
<1> DEFINE p == Push(s, s.pc)
           t == Took(CallTo(s, a), n)
<1>1. p \in CpuType /\ p.sp = W16(s.sp - 2) /\ s.pc \in Word
  BY Fields, PushType DEF Inside
<1>2. Pushed(p) = s.pc
  BY <1>1, PushedBack
<1>3. t = [p EXCEPT !.pc = a, !.cycles = n]
  BY DEF CallTo, Took
<1> HIDE DEF p, t
<1>4. SameMemory(p, t) /\ t.sp = p.sp
  BY <1>1, <1>3 DEF SameMemory, CpuType, CpuFields
<1>5. Pushed(t) = Pushed(p)
  <2>1. p.sp \in Int /\ p.sp + 1 \in Int
    BY <1>1, Fields, Ranges
  <2> QED BY <1>4, <2>1, SameReads DEF Pushed, RD_WORD
<1>6. W16(s.sp - 2) # s.sp
  <2>1. s.sp \in Int /\ 0 <= s.sp /\ s.sp < 65536
    BY Fields, Ranges
  <2> QED BY <2>1 DEF W16
<1> QED BY <1>1, <1>2, <1>4, <1>5, <1>6 DEF t

LEMMA CallFields ==
    ASSUME NEW op \in Calls
    PROVE  /\ op # OPCODE_PREFIX /\ op \div 64 = 3
           /\ \/ op % 8 = 4 /\ (op \div 8) % 8 \in 0..3 /\ op_len(op) = 3
              \/ op % 8 = 5 /\ (op \div 8) % 8 = 1 /\ op_len(op) = 3
              \/ op % 8 = 7 /\ (op \div 8) % 8 \in 0..7 /\ op_len(op) = 1
<1>1. CASE op \in {196, 204, 205, 212, 220}
  <2>1. op \in Len3
    BY <1>1 DEF Len3
  <2>2. op_len(op) = 3
    BY <2>1, OpLen
  <2>3. op # OPCODE_PREFIX /\ op \div 64 = 3
    BY <1>1 DEF OPCODE_PREFIX
  <2> QED BY <1>1, <2>2, <2>3
<1>2. CASE op \in Restarts
  <2>1. PICK y \in 0..7 : op = 8 * y + 199
    BY <1>2 DEF Restarts
  <2>2. op \notin Len2 \cup Len3
    BY <2>1 DEF Len2, Len3
  <2>3. op_len(op) = 1
    BY <2>2, OpLen, Zenon
  <2>4. op # OPCODE_PREFIX /\ op \div 64 = 3 /\ op % 8 = 7 /\ (op \div 8) % 8 \in 0..7
    BY <2>1 DEF OPCODE_PREFIX
  <2> QED BY <2>3, <2>4
<1> QED BY <1>1, <1>2 DEF Calls

LEMMA CallsReturn ==
    ASSUME NEW s \in CpuType, ~s.is_halted, KeepsWord(s.sp), N8(s) \in Calls
    PROVE  LET t == Execute(s)
               after == W16(s.pc + op_len(N8(s)))
           IN  IF t.sp # s.sp THEN Pushed(t) = after ELSE t.pc = after
<1> DEFINE op == N8(s)
           y == (op \div 8) % 8
           z == op % 8
           u == ADVANCE_PC(s, 1)
           v == ADVANCE_PC(u, 2)
           t == Execute(s)
<1>1. /\ u \in CpuType /\ u.pc = W16(s.pc + 1) /\ u.sp = s.sp
      /\ v \in CpuType /\ v.pc = W16(s.pc + 3) /\ v.sp = s.sp
  <2>1. u \in CpuType /\ u.pc = W16(s.pc + 1) /\ u.sp = s.sp
    <3>1. Inside(s, s)
      BY DEF Inside
    <3>2. u \in CpuType /\ u.pc = W16(s.pc + 1)
      BY <3>1, Advanced, Counts
    <3> QED BY <3>2 DEF ADVANCE_PC, CpuType, CpuFields
  <2> HIDE DEF u
  <2>2. v \in CpuType /\ v.pc = W16(u.pc + 2) /\ v.sp = u.sp
    <3>1. Inside(u, u)
      BY <2>1 DEF Inside
    <3>2. v \in CpuType /\ v.pc = W16(u.pc + 2)
      BY <2>1, <3>1, Advanced, Counts
    <3> QED BY <2>1, <3>2 DEF ADVANCE_PC, CpuType, CpuFields
  <2>3. W16(u.pc + 2) = W16(s.pc + 3)
    <3>1. s.pc \in Int /\ 2 \in Int
      BY Fields, Words
    <3>2. s.pc + 1 \in Int
      BY <3>1
    <3>3. W16(W16(s.pc + 1) + 2) = W16(s.pc + 1 + 2)
      BY <3>1, <3>2, StepTwice, Zenon
    <3> QED BY <2>1, <3>1, <3>3
  <2> QED BY <2>1, <2>2, <2>3
<1>2. N16(u) \in Word
  BY <1>1, GetType
<1>3. t = Block3(u, y, z)
  <2>1. op # OPCODE_PREFIX /\ op \div 64 = 3
    BY CallFields
  <2>2. t = ops_table_dispatch(u, op, FALSE)
    BY <2>1, Zenon DEF Execute
  <2> HIDE DEF u, op, t
  <2>3. ~(op \div 64 = 0) /\ ~(op \div 64 = 1) /\ ~(op \div 64 = 2)
    BY <2>1
  <2> QED BY <2>1, <2>2, <2>3, Zenon DEF ops_table_dispatch, y, z
<1> HIDE DEF u, v, t, y, z
<1>4. Pushed(DO_CALL(u)) = v.pc /\ DO_CALL(u).sp # s.sp
  BY <1>1, <1>2, CalledFrom, Counts DEF DO_CALL, v
<1>5. Took(v, 3).pc = v.pc /\ Took(v, 3).sp = s.sp
  BY <1>1 DEF Took, CpuType, CpuFields
<1>6. CASE z = 4 /\ y \in 0..3 /\ op_len(op) = 3
  <2>1. t = op_call_cond(u, Cond(u, y))
    <3>1. y < 4 /\ z # 0 /\ z # 1 /\ z # 2 /\ z # 3 /\ z # 5 /\ z # 6 /\ z # 7
      BY <1>6
    <3> QED BY <1>3, <1>6, <3>1, Zenon DEF Block3
  <2>2. t = DO_CALL(u) \/ t = Took(v, 3)
    BY <2>1, Zenon DEF op_call_cond, v
  <2> HIDE DEF op
  <2> QED BY <1>1, <1>4, <1>5, <1>6, <2>2 DEF t, op
<1>7. CASE z = 5 /\ y = 1 /\ op_len(op) = 3
  <2>1. t = DO_CALL(u)
    <3>1. /\ z # 0 /\ z # 1 /\ z # 2 /\ z # 3 /\ z # 4 /\ z # 6 /\ z # 7
          /\ ~(~(y % 2 = 1)) /\ y \notin {3, 5, 7}
      BY <1>7
    <3>2. Block3(u, y, 5) = DO_CALL(u)
      BY <1>7, <3>1 DEF Block3
    <3> QED BY <1>3, <1>7, <3>2
  <2> QED BY <1>1, <1>4, <1>7, <2>1 DEF t, op
<1>8. CASE z = 7 /\ y \in 0..7 /\ op_len(op) = 1
  <2>1. t = op_restart(u, y)
    <3>1. z # 0 /\ z # 1 /\ z # 2 /\ z # 3 /\ z # 4 /\ z # 5 /\ z # 6
      BY <1>8
    <3> QED BY <1>3, <1>8, <3>1, Zenon DEF Block3
  <2>2. 8 * y \in Word
    BY <1>8, Ranges
  <2>3. Pushed(t) = u.pc /\ t.sp # s.sp
    BY <1>1, <2>1, <2>2, CalledFrom, Counts DEF op_restart
  <2> QED BY <1>1, <1>8, <2>3 DEF t, op
<1> QED BY <1>6, <1>7, <1>8, CallFields DEF y, z

\* op_len tells where every instruction ends, whatever its operands and from
\* every state: PC goes there, and CALL and RST push it.
THEOREM LengthsTrue == Spec => []LengthsAgree
<1>1. RunInv => LengthsAgree
  <2> DEFINE op == Opcode(start)
             after == W16(start.pc + op_len(op))
  <2> SUFFICES ASSUME RunInv, steps = 1, op \notin Invalid
               PROVE  /\ op \notin Jumps \cup Calls => now.pc = after
                      /\ op \in Calls =>
                            IF now.sp # start.sp THEN Pushed(now) = after
                                                 ELSE now.pc = after
    BY DEF LengthsAgree
  <2>1. /\ start \in CpuType /\ ~start.is_halted /\ KeepsWord(start.sp)
        /\ now = Execute(start)
    BY DEF RunInv, Ready
  <2>2. op = N8(start) /\ op \in Byte /\ start.pc \in Int
    BY <2>1, GetType, Fields, Words DEF Opcode
  <2>3. ASSUME op \in Calls
        PROVE  IF now.sp # start.sp THEN Pushed(now) = after ELSE now.pc = after
    BY <2>1, <2>2, <2>3, CallsReturn
  <2>4. ASSUME op \notin Jumps \cup Calls PROVE now.pc = after
    <3>1. CASE op = OPCODE_PREFIX
      <4>1. op \in Len2
        BY <3>1 DEF OPCODE_PREFIX, Len2
      <4>2. op_len(op) = 2
        BY <4>1, OpLen
      <4> QED BY <2>1, <2>2, <3>1, <4>2, ExecuteEnds
    <3>2. CASE op # OPCODE_PREFIX
      <4> DEFINE x == op \div 64
                 y == (op \div 8) % 8
                 z == op % 8
      <4>1. ~Leaves(x, y, z) /\ op_len(op) = 1 + OperandBytes(x, y, z)
        BY <2>2, <2>4, <3>2, Lengths
      <4>2. now.pc = W16(start.pc + 1 + OperandBytes(x, y, z))
        BY <2>1, <2>2, <3>2, <4>1, ExecuteEnds
      <4>3. OperandBytes(x, y, z) \in Int
        BY DEF OperandBytes
      <4>4. start.pc + 1 + OperandBytes(x, y, z) = start.pc + op_len(op)
        <5> HIDE DEF op, x, y, z
        <5> QED BY <2>2, <4>1, <4>3
      <4> QED BY <4>2, <4>4
    <3> QED BY <3>1, <3>2
  <2> QED BY <2>3, <2>4
<1> QED BY <1>1, RunInvariant, PTL

-----------------------------------------------------------------------------
(* Sums.                                                                    *)

\* The exclusive or of operands and result has bit 4 where a carry comes out
\* of bit 3.
LEMMA HalfCarry ==
    ASSUME NEW a \in Int, NEW w \in Int, NEW c \in {0, 1}
    PROVE  /\ CarryInto(4, a, w, a + w + c) <=> (a % 16) + (w % 16) + c > 15
           /\ CarryInto(4, a, w, a - w - c) <=> a % 16 < (w % 16) + c
<1> DEFINE qa == a \div 16
           ra == a % 16
           qw == w \div 16
           rw == w % 16
<1>1. /\ qa \in Int /\ ra \in Int /\ 0 <= ra /\ ra <= 15 /\ a = 16 * qa + ra
      /\ qw \in Int /\ rw \in Int /\ 0 <= rw /\ rw <= 15 /\ w = 16 * qw + rw
  OBVIOUS
<1>2. \A x, y, z : CarryInto(4, x, y, z) <=>
         (((x \div 16) % 2) + ((y \div 16) % 2) + ((z \div 16) % 2)) % 2 = 1
  BY DEF CarryInto, Bit
<1>3. (a + w + c) \div 16 = IF ra + rw + c > 15 THEN qa + qw + 1 ELSE qa + qw
  <2> HIDE DEF qa, ra, qw, rw
  <2> QED BY <1>1
<1>4. (a - w - c) \div 16 = IF ra < rw + c THEN qa - qw - 1 ELSE qa - qw
  <2> HIDE DEF qa, ra, qw, rw
  <2> QED BY <1>1
<1>5. CarryInto(4, a, w, a + w + c) <=>
        ((qa % 2) + (qw % 2) + (((a + w + c) \div 16) % 2)) % 2 = 1
  BY <1>2
<1>6. CarryInto(4, a, w, a - w - c) <=>
        ((qa % 2) + (qw % 2) + (((a - w - c) \div 16) % 2)) % 2 = 1
  BY <1>2
<1> HIDE DEF qa, qw
<1>7. \A m, n \in Int : /\ ~(((m % 2) + (n % 2) + ((m + n) % 2)) % 2 = 1)
                        /\ ((m % 2) + (n % 2) + ((m + n + 1) % 2)) % 2 = 1
                        /\ ~(((m % 2) + (n % 2) + ((m - n) % 2)) % 2 = 1)
                        /\ ((m % 2) + (n % 2) + ((m - n - 1) % 2)) % 2 = 1
  OBVIOUS
<1> HIDE DEF ra, rw
<1>8. ASSUME ra + rw + c > 15 PROVE CarryInto(4, a, w, a + w + c)
  <2>1. (a + w + c) \div 16 = qa + qw + 1
    BY <1>3, <1>8
  <2>2. ((qa % 2) + (qw % 2) + ((qa + qw + 1) % 2)) % 2 = 1
    BY <1>1, <1>7
  <2> QED BY <1>5, <2>1, <2>2, Zenon
<1>9. ASSUME ~(ra + rw + c > 15) PROVE ~CarryInto(4, a, w, a + w + c)
  <2>1. (a + w + c) \div 16 = qa + qw
    BY <1>3, <1>9
  <2>2. ~(((qa % 2) + (qw % 2) + ((qa + qw) % 2)) % 2 = 1)
    BY <1>1, <1>7
  <2> QED BY <1>5, <2>1, <2>2, Zenon
<1>10. ASSUME ra < rw + c PROVE CarryInto(4, a, w, a - w - c)
  <2>1. (a - w - c) \div 16 = qa - qw - 1
    BY <1>4, <1>10
  <2>2. ((qa % 2) + (qw % 2) + ((qa - qw - 1) % 2)) % 2 = 1
    BY <1>1, <1>7
  <2> QED BY <1>6, <2>1, <2>2, Zenon
<1>11. ASSUME ~(ra < rw + c) PROVE ~CarryInto(4, a, w, a - w - c)
  <2>1. (a - w - c) \div 16 = qa - qw
    BY <1>4, <1>11
  <2>2. ~(((qa % 2) + (qw % 2) + ((qa - qw) % 2)) % 2 = 1)
    BY <1>1, <1>7
  <2> QED BY <1>6, <2>1, <2>2, Zenon
<1> QED BY <1>8, <1>9, <1>10, <1>11 DEF ra, rw

\* The byte as an int8_t or as an uint8_t: of the same nibbles.
LEMMA SignedByte ==
    ASSUME NEW v \in Byte, NEW w \in {v, Int8(v)}
    PROVE  /\ w \in Int /\ v \in Int /\ 0 <= v /\ v < 256
           /\ w = v \/ (w = v - 256 /\ v >= 128)
           /\ w % 16 = v % 16
<1>1. v \in Int /\ 0 <= v /\ v < 256
  BY Ranges
<1>2. w = v \/ (w = v - 256 /\ v >= 128)
  BY <1>1 DEF Int8
<1>3. (v - 256) % 16 = v % 16
  BY <1>1
<1> QED BY <1>1, <1>2, <1>3

LEMMA AddIsSum ==
    ASSUME NEW a \in Byte, NEW v \in Byte, NEW w \in {v, Int8(v)}
    PROVE  DO_ADD(a, w) = Sum(a, v, 0)
<1>1. /\ w \in Int /\ v \in Int /\ 0 <= v /\ v < 256 /\ a \in Int /\ 0 <= a /\ a < 256
      /\ w = v \/ (w = v - 256 /\ v >= 128)
      /\ w % 16 = v % 16
  BY SignedByte, Ranges
<1>2. W8(a + w) = W8(a + v + 0)
  BY <1>1 DEF W8
<1>3. ZeroFlag(a + w) = When((a + v + 0) % 256 = 0, "ZERO")
  BY <1>2 DEF ZeroFlag, W8, When
<1>4. When(IS_ADD_CARRY(a, w), "CARRY") = When(a + v + 0 > 255, "CARRY")
  <2>1. IS_ADD_CARRY(a, w) <=> a + v + 0 > 255
    BY <1>1 DEF IS_ADD_CARRY, W8
  <2> QED BY <2>1 DEF When
<1>5. When(IS_ADD_HALF_CARRY(a, w), "HCARRY") = When((a % 16) + (v % 16) + 0 > 15, "HCARRY")
  <2>1. CarryInto(4, a, w, a + w + 0) <=> (a % 16) + (w % 16) + 0 > 15
    BY <1>1, HalfCarry
  <2>2. a + w + 0 = a + w
    BY <1>1
  <2>3. IS_ADD_HALF_CARRY(a, w) <=> (a % 16) + (v % 16) + 0 > 15
    BY <1>1, <2>1, <2>2 DEF IS_ADD_HALF_CARRY
  <2> QED BY <2>3 DEF When
<1>6. DO_ADD(a, w).value = Sum(a, v, 0).value
  BY <1>2 DEF DO_ADD, Sum, Result
<1> QED BY <1>2, <1>3, <1>4, <1>5, Zenon DEF DO_ADD, Sum, Result

LEMMA AdcIsSum ==
    ASSUME NEW a \in Byte, NEW v \in Byte, NEW f
    PROVE  DO_ADC(a, v, f) = Sum(a, v, CarryOf(f))
<1> DEFINE c == CarryOf(f)
           sum == a + v + c
<1>1. v \in Int /\ 0 <= v /\ v < 256 /\ a \in Int /\ 0 <= a /\ a < 256 /\ c \in {0, 1}
  BY Ranges DEF CarryOf
<1> HIDE DEF c
<1>2. ZeroFlag(sum) = When(sum % 256 = 0, "ZERO")
  BY DEF ZeroFlag, W8
<1>3. When(CarryInto(4, a, v, sum), "HCARRY") = When((a % 16) + (v % 16) + c > 15, "HCARRY")
  <2>1. CarryInto(4, a, v, sum) <=> (a % 16) + (v % 16) + c > 15
    BY <1>1, HalfCarry
  <2> QED BY <2>1 DEF When
<1>4. DO_ADC(a, v, f) = Result(sum, ZeroFlag(sum) \cup When(sum > 255, "CARRY")
                                       \cup When(CarryInto(4, a, v, sum), "HCARRY"))
  BY DEF DO_ADC, c
<1>5. Sum(a, v, c) = Result(sum, When(sum % 256 = 0, "ZERO") \cup When(sum > 255, "CARRY")
                          \cup When((a % 16) + (v % 16) + c > 15, "HCARRY"))
  BY DEF Sum
<1> QED BY <1>2, <1>3, <1>4, <1>5 DEF c

LEMMA SubIsDifference ==
    ASSUME NEW a \in Byte, NEW v \in Byte, NEW w \in {v, Int8(v)}
    PROVE  DO_SUB(a, w) = Difference(a, v, 0)
<1>1. /\ w \in Int /\ v \in Int /\ 0 <= v /\ v < 256 /\ a \in Int /\ 0 <= a /\ a < 256
      /\ w = v \/ (w = v - 256 /\ v >= 128)
      /\ w % 16 = v % 16
  BY SignedByte, Ranges
<1>2. W8(a - w) = W8(a - v - 0)
  BY <1>1 DEF W8
<1>3. ZeroFlag(a - w) = When((a - v - 0) % 256 = 0, "ZERO")
  BY <1>2 DEF ZeroFlag, W8, When
<1>4. When(IS_SUB_CARRY(a, w), "CARRY") = When(a < v + 0, "CARRY")
  <2>1. IS_SUB_CARRY(a, w) <=> a < v + 0
    BY <1>1 DEF IS_SUB_CARRY, W8
  <2> QED BY <2>1 DEF When
<1>5. When(IS_SUB_HALF_CARRY(a, w), "HCARRY") = When(a % 16 < (v % 16) + 0, "HCARRY")
  <2>1. CarryInto(4, a, w, a - w - 0) <=> a % 16 < (w % 16) + 0
    BY <1>1, HalfCarry
  <2>2. a - w - 0 = a - w
    BY <1>1
  <2>3. IS_SUB_HALF_CARRY(a, w) <=> a % 16 < (v % 16) + 0
    BY <1>1, <2>1, <2>2 DEF IS_SUB_HALF_CARRY
  <2> QED BY <2>3 DEF When
<1>6. \A z, c, h : {"SUB"} \cup z \cup c \cup h = z \cup {"SUB"} \cup c \cup h
  OBVIOUS
<1> QED BY <1>2, <1>3, <1>4, <1>5, <1>6, Zenon DEF DO_SUB, Difference, Result

LEMMA SbcIsDifference ==
    ASSUME NEW a \in Byte, NEW v \in Byte, NEW f
    PROVE  DO_SBC(a, v, f) = Difference(a, v, CarryOf(f))
<1> DEFINE c == CarryOf(f)
           n == a - v - c
           sum == W16(a - (v + c))
<1>1. v \in Int /\ 0 <= v /\ v < 256 /\ a \in Int /\ 0 <= a /\ a < 256 /\ c \in {0, 1}
  BY Ranges DEF CarryOf
<1> HIDE DEF c
<1>2. sum = IF n < 0 THEN n + 65536 ELSE n
  BY <1>1 DEF W16
<1>3. n \in Int /\ -256 <= n /\ n < 256
  BY <1>1
<1>4. W8(sum) = W8(n)
  <2> HIDE DEF sum, n
  <2> QED BY <1>2, <1>3 DEF W8
<1>5. ZeroFlag(sum) = When(n % 256 = 0, "ZERO")
  BY <1>4 DEF ZeroFlag, W8, When
<1>6. When(sum > 255, "CARRY") = When(a < v + c, "CARRY")
  <2>1. sum > 255 <=> n < 0
    <3> HIDE DEF sum, n
    <3> QED BY <1>2, <1>3
  <2>2. n < 0 <=> a < v + c
    BY <1>1
  <2> HIDE DEF sum, n
  <2> QED BY <2>1, <2>2 DEF When
<1>7. When(CarryInto(4, a, v, sum), "HCARRY") = When(a % 16 < (v % 16) + c, "HCARRY")
  <2>1. CarryInto(4, a, v, n) <=> a % 16 < (v % 16) + c
    BY <1>1, HalfCarry
  <2>2. (sum \div 16) % 2 = (n \div 16) % 2
    <3> HIDE DEF sum, n
    <3> QED BY <1>2, <1>3
  <2> HIDE DEF sum, n
  <2>3. CarryInto(4, a, v, sum) <=> CarryInto(4, a, v, n)
    BY <2>2 DEF CarryInto, Bit
  <2> QED BY <2>1, <2>3 DEF When
<1> DEFINE zero == ZeroFlag(sum)
           carry == When(sum > 255, "CARRY")
           half == When(CarryInto(4, a, v, sum), "HCARRY")
<1>8. DO_SBC(a, v, f) = Result(sum, {"SUB"} \cup zero \cup carry \cup half)
  BY DEF DO_SBC, c
<1>9. Difference(a, v, c) = Result(n, zero \cup {"SUB"} \cup carry \cup half)
  <2>1. Difference(a, v, c) = Result(n, When(n % 256 = 0, "ZERO") \cup {"SUB"}
                                          \cup When(a < v + c, "CARRY")
                                          \cup When(a % 16 < (v % 16) + c, "HCARRY"))
    BY DEF Difference
  <2> QED BY <1>5, <1>6, <1>7, <2>1, Zenon
<1>10. {"SUB"} \cup zero \cup carry \cup half = zero \cup {"SUB"} \cup carry \cup half
  <2> HIDE DEF zero, carry, half
  <2> QED OBVIOUS
<1> HIDE DEF sum, n, zero, carry, half
<1>11. Result(sum, zero \cup {"SUB"} \cup carry \cup half)
         = Result(n, zero \cup {"SUB"} \cup carry \cup half)
  BY <1>4 DEF Result
<1>12. DO_SBC(a, v, f) = Difference(a, v, c)
  BY <1>8, <1>9, <1>10, <1>11, Zenon
<1> QED BY <1>12 DEF c

\* What ADD to CP leave in A and F, and of which operand.
LEMMA AluRuns ==
    ASSUME NEW s \in CpuType, ~s.is_halted,
           X(N8(s)) \in {2, 3}, X(N8(s)) = 3 => Z(N8(s)) = 6
    PROVE  LET y == Y(N8(s))
               v == OperandOf(s)
           IN  /\ v \in Byte
               /\ \E w \in {v, Int8(v)} :
                     LET r == Accumulate(y, s.reg["A"], w, s.f)
                     IN  /\ y \notin {0, 2} => w = v
                         /\ Execute(s).reg["A"] = r.value
                         /\ Execute(s).f = r.f
<1> DEFINE op == N8(s)
           x == op \div 64
           y == (op \div 8) % 8
           z == op % 8
           u == ADVANCE_PC(s, 1)
           v == OperandOf(s)
           t == Execute(s)
<1>1. /\ u \in CpuType /\ u.reg = s.reg /\ u.f = s.f
      /\ \A r \in Targets : Get(u, r) = Get(s, r)
  BY Fetched
<1>2. op \in Byte /\ x \in {2, 3} /\ y \in Field /\ z \in Field /\ (x = 3 => z = 6)
      /\ op = 64 * x + 8 * y + z
  <2>1. op \in Byte
    BY GetType
  <2> QED BY <2>1, OpcodeFields DEF X, Z
<1>3. t = ops_table_dispatch(u, op, FALSE)
  <2>1. op # OPCODE_PREFIX
    <3> HIDE DEF op
    <3> QED BY <1>2 DEF OPCODE_PREFIX
  <2> QED BY <2>1, Zenon DEF Execute
<1>4. v = IF x = 3 THEN N8(u) ELSE Get(s, Operand[z + 1])
  BY DEF OperandOf, Opcode, X, Z
<1>5. v \in Byte
  <2>1. Operand[z + 1] \in Targets
    BY <1>2, Fields8
  <2> QED BY <1>1, <1>4, <2>1, GetType
<1>6. X(op) = x /\ Y(op) = y /\ Z(op) = z
  BY DEF X, Y, Z
<1>7. \E w \in {v, Int8(v)} :
         /\ y \notin {0, 2} => w = v
         /\ t.reg = AluOn(u, y, w).reg /\ t.f = AluOn(u, y, w).f
  <2> HIDE DEF op, x, y, z, u, v, t
  <2>1. FromMemory(y, v) \in {v, Int8(v)} /\ (y \notin {0, 2} => FromMemory(y, v) = v)
    BY DEF FromMemory
  <2>2. \A e \in CpuType : \A n \in Nat :
           Took(e, n).reg = e.reg /\ Took(e, n).f = e.f
    BY DEF Took, CpuType, CpuFields
  <2>3. \A w \in Int : AluOn(u, y, w) \in CpuType
    BY <1>1, <1>2, AluType DEF Field, Inside
  <2>4. v \in Int /\ Int8(v) \in Int
    BY <1>5, Words
  <2>5. CASE x = 2 /\ z = 6
    <3>1. t = Block2(u, y, z)
      <4>1. x # 0 /\ x # 1 /\ x # 3
        BY <2>5
      <4> QED BY <1>3, <2>5, <4>1, Zenon DEF ops_table_dispatch, x, y, z
    <3>2. Get(u, "IND_HL") = v
      BY <1>1, <1>4, <2>5, Fields8 DEF Targets
    <3>3. t = Took(AluOn(u, y, FromMemory(y, v)), IF y = 2 THEN 1 ELSE 2)
      BY <2>5, <3>1, <3>2 DEF Block2, op_alu_ind_hl
    <3> QED BY <2>1, <2>2, <2>3, <2>4, <3>3
  <2>6. CASE x = 2 /\ z # 6
    <3>1. t = Block2(u, y, z)
      <4>1. x # 0 /\ x # 1 /\ x # 3
        BY <2>6
      <4> QED BY <1>3, <2>6, <4>1, Zenon DEF ops_table_dispatch, x, y, z
    <3>2. Operand[z + 1] \in Registers /\ "IND_HL" \notin Registers
      BY <1>2, <2>6, Fields8
    <3>3. u.reg[Operand[z + 1]] = v
      <4>1. Get(s, Operand[z + 1]) = s.reg[Operand[z + 1]]
        BY <3>2 DEF Get
      <4> QED BY <1>1, <1>4, <2>6, <4>1
    <3>4. t = Took(AluOn(u, y, v), 1)
      BY <2>6, <3>1, <3>3 DEF Block2, op_alu_reg
    <3> QED BY <2>2, <2>3, <2>4, <3>4
  <2>7. CASE x = 3
    <3>1. t = Block3(u, y, z)
      <4>1. x # 0 /\ x # 1 /\ x # 2
        BY <2>7
      <4> QED BY <1>3, <2>7, <4>1, Zenon DEF ops_table_dispatch, x, y, z
    <3>2. z = 6 /\ v = N8(u)
      BY <1>2, <1>4, <2>7
    <3>3. t = op_alu_n8(u, y)
      <4>1. z # 0 /\ z # 1 /\ z # 2 /\ z # 3 /\ z # 4 /\ z # 5 /\ z # 7
        BY <3>2
      <4> QED BY <3>1, <3>2, <4>1, Zenon DEF Block3
    <3> DEFINE e == AluOn(u, y, FromMemory(y, v))
               d == ADVANCE_PC(e, 1)
    <3>4. t = Took(d, IF y = 2 THEN 1 ELSE 2)
      BY <3>2, <3>3 DEF op_alu_n8
    <3>5. e \in CpuType
      BY <2>1, <2>3, <2>4
    <3> HIDE DEF e
    <3>6. d \in CpuType /\ d.reg = e.reg /\ d.f = e.f
      BY <3>5, Fetched
    <3> HIDE DEF d
    <3>7. t.reg = e.reg /\ t.f = e.f
      BY <2>2, <3>4, <3>6
    <3> QED BY <2>1, <3>7 DEF e
  <2> QED BY <1>2, <2>5, <2>6, <2>7
<1>8. ASSUME NEW w \in {v, Int8(v)}
      PROVE  LET r == Accumulate(y, s.reg["A"], w, s.f)
             IN  AluOn(u, y, w).reg["A"] = r.value /\ AluOn(u, y, w).f = r.f
  <2> DEFINE r == Accumulate(y, s.reg["A"], w, s.f)
  <2>1. AluOn(u, y, w) = [u EXCEPT !.reg["A"] = r.value, !.f = r.f]
    BY <1>1 DEF AluOn
  <2> HIDE DEF r, u
  <2> QED BY <1>1, <2>1, ZenonT(60) DEF CpuType, CpuFields, Registers, r
<1> HIDE DEF x, y, z, u, v, t
<1> QED BY <1>5, <1>6, <1>7, <1>8 DEF v, t, op

\* The carries of SP and a signed byte are those of SP's low byte.
LEMMA OffsetCarries ==
    ASSUME NEW sp \in Word, NEW b \in Byte
    PROVE  LET p == W16(sp + Int8(b))
           IN  /\ IS_ADD_HALF_CARRY(sp, Int8(b)) <=> (sp % 16) + (b % 16) > 15
               /\ (p < Int8(b) \/ W8(p) < b) <=> (sp % 256) + b > 255
<1> DEFINE i == Int8(b)
           p == W16(sp + i)
           h == sp \div 256
           l == sp % 256
<1>1. /\ i \in Int /\ b \in Int /\ 0 <= b /\ b < 256
      /\ i = b \/ (i = b - 256 /\ b >= 128)
      /\ i % 16 = b % 16
  BY SignedByte
<1>2. sp \in Int /\ 0 <= sp /\ sp < 65536
  BY Ranges
<1>3. h \in Int /\ l \in Int /\ sp = 256 * h + l /\ 0 <= l /\ l < 256 /\ 0 <= h /\ h < 256
  BY <1>2
<1> HIDE DEF i, p, h, l
<1>4. IS_ADD_HALF_CARRY(sp, i) <=> (sp % 16) + (b % 16) > 15
  <2>0. sp \in Int /\ i \in Int /\ 0 \in {0, 1}
    BY <1>1, <1>2
  <2>1. CarryInto(4, sp, i, sp + i + 0) <=> (sp % 16) + (i % 16) + 0 > 15
    BY <2>0, HalfCarry, Zenon
  <2>2. sp + i + 0 = sp + i
    BY <1>1, <1>2
  <2> QED BY <1>1, <1>2, <2>1, <2>2 DEF IS_ADD_HALF_CARRY
<1>5. p \in Int /\ \E k \in {-1, 0, 1} : p = sp + i + 65536 * k
  BY <1>1, <1>2 DEF W16, p
<1>6. W8(p) = IF l + b > 255 THEN l + b - 256 ELSE l + b
  BY <1>1, <1>3, <1>5 DEF W8
<1>7. 0 <= p /\ p < 65536
  BY <1>1, <1>2 DEF p, W16
<1>8. p < i => W8(p) < b
  BY <1>1, <1>5, <1>7 DEF W8
<1>9. (p < i \/ W8(p) < b) <=> l + b > 255
  BY <1>1, <1>3, <1>6, <1>8
<1> QED BY <1>4, <1>9 DEF i, p, l

\* ADD SP,e8 and LD HL,SP+e8.
LEMMA OffsetRuns ==
    ASSUME NEW s \in CpuType, ~s.is_halted, N8(s) \in OffsetOps
    PROVE  Execute(s).f = OffsetFlags(s.sp, OperandOf(s))
<1> DEFINE op == N8(s)
           u == ADVANCE_PC(s, 1)
           b == N8(u)
           t == Execute(s)
<1>1. u \in CpuType /\ u.sp = s.sp /\ b \in Byte /\ s.sp \in Word
  BY Fetched, GetType, Fields
<1>2. op = 232 \/ op = 248
  BY DEF OffsetOps
<1>3. op \div 64 = 3 /\ op % 8 = 0 /\ (op \div 8) % 8 = IF op = 232 THEN 5 ELSE 7
  <2> HIDE DEF op
  <2> QED BY <1>2
<1>4. OperandOf(s) = b
  BY <1>3 DEF OperandOf, Opcode, X
<1>5. SpFlags(u) = OffsetFlags(s.sp, b) /\ SpFlags(u) \in SUBSET Flags
  <2> HIDE DEF u, b
  <2>1. SpFlags(u) = When(IS_ADD_HALF_CARRY(s.sp, Int8(b)), "HCARRY") \cup
                     When(W16(s.sp + Int8(b)) < Int8(b) \/ W8(W16(s.sp + Int8(b))) < b,
                          "CARRY")
    BY <1>1 DEF SpFlags, SpPlus, b
  <2>2. /\ IS_ADD_HALF_CARRY(s.sp, Int8(b)) <=> (s.sp % 16) + (b % 16) > 15
        /\ (W16(s.sp + Int8(b)) < Int8(b) \/ W8(W16(s.sp + Int8(b))) < b)
              <=> (s.sp % 256) + b > 255
    BY <1>1, OffsetCarries
  <2>3. /\ When(IS_ADD_HALF_CARRY(s.sp, Int8(b)), "HCARRY")
             = When((s.sp % 16) + (b % 16) > 15, "HCARRY")
        /\ When(W16(s.sp + Int8(b)) < Int8(b) \/ W8(W16(s.sp + Int8(b))) < b, "CARRY")
             = When((s.sp % 256) + b > 255, "CARRY")
    BY <2>2, Zenon DEF When
  <2>4. SpFlags(u) = OffsetFlags(s.sp, b)
    BY <2>1, <2>3, Zenon DEF OffsetFlags
  <2>5. OffsetFlags(s.sp, b) \in SUBSET Flags
    BY Zenon DEF OffsetFlags, When, Flags
  <2> QED BY <2>4, <2>5
<1>6. SpPlus(u) \in Word /\ SpPlus(u) \in Int
  <2>1. s.sp + Int8(b) \in Int
    <3>1. s.sp \in Int /\ Int8(b) \in Int
      BY <1>1, Words, Zenon
    <3> QED BY <3>1
  <2>2. SpPlus(u) = W16(s.sp + Int8(b))
    BY <1>1 DEF SpPlus
  <2> QED BY <2>1, <2>2, Widths, Words
<1>7. t = Block3(u, (op \div 8) % 8, 0)
  <2>1. t = ops_table_dispatch(u, op, FALSE)
    <3>1. op # OPCODE_PREFIX
      <4> HIDE DEF op
      <4> QED BY <1>2 DEF OPCODE_PREFIX
    <3> QED BY <3>1, Zenon DEF Execute
  <2>2. op \div 64 # 0 /\ op \div 64 # 1 /\ op \div 64 # 2
    BY <1>3
  <2> HIDE DEF op, u
  <2> QED BY <1>3, <2>1, <2>2, Zenon DEF ops_table_dispatch
<1> HIDE DEF op, u, b, t
<1>8. CASE op = 232
  <2> DEFINE e == [u EXCEPT !.sp = SpPlus(u), !.f = SpFlags(u)]
  <2>1. t = op_add_sp_e8(u)
    <3>1. t = Block3(u, 5, 0)
      BY <1>3, <1>7, <1>8
    <3>2. 5 \notin 0..3 /\ 5 # 4 /\ 5 # 6 /\ 5 # 7
      OBVIOUS
    <3>3. 0 # 1 /\ 0 # 2 /\ 0 # 3 /\ 0 # 4 /\ 0 # 5 /\ 0 # 6 /\ 0 # 7
      OBVIOUS
    <3> QED BY <3>1, <3>2, <3>3, Zenon DEF Block3
  <2>2. t = Took(ADVANCE_PC(e, 1), 4)
    BY <2>1 DEF op_add_sp_e8
  <2>4. e \in CpuType /\ e.f = SpFlags(u)
    BY <1>1, <1>5, <1>6 DEF CpuType, CpuFields
  <2> HIDE DEF e
  <2>5. ADVANCE_PC(e, 1).f = e.f /\ ADVANCE_PC(e, 1) \in CpuType
    BY <2>4, Fetched
  <2>6. t.f = e.f
    BY <2>2, <2>5 DEF Took, CpuType, CpuFields
  <2> QED BY <1>4, <1>5, <2>4, <2>6 DEF t
<1>9. CASE op = 248
  <2> DEFINE d == [u EXCEPT !.f = SpFlags(u)]
             e == Put16(d, "HL", SpPlus(u))
  <2>1. t = op_ld_hl_sp_e8(u)
    <3>1. t = Block3(u, 7, 0)
      BY <1>3, <1>7, <1>9
    <3>2. 7 \notin 0..3 /\ 7 # 4 /\ 7 # 6 /\ 7 # 5
      OBVIOUS
    <3>3. 0 # 1 /\ 0 # 2 /\ 0 # 3 /\ 0 # 4 /\ 0 # 5 /\ 0 # 6 /\ 0 # 7
      OBVIOUS
    <3> QED BY <3>1, <3>2, <3>3, Zenon DEF Block3
  <2>2. t = Took(ADVANCE_PC(e, 1), 3)
    BY <2>1 DEF op_ld_hl_sp_e8
  <2>4. d \in CpuType /\ d.f = SpFlags(u)
    BY <1>1, <1>5 DEF CpuType, CpuFields
  <2> HIDE DEF d
  <2>5. e \in CpuType
    <3>1. Inside(d, d) /\ "HL" \in Pairs
      BY <2>4 DEF Inside, Pairs
    <3> QED BY <1>6, <2>4, <3>1, PutType DEF Inside
  <2>6. e.f = d.f
    BY <2>4 DEF Put16, HighOf, LowOf, CpuType, CpuFields
  <2> HIDE DEF e
  <2>7. ADVANCE_PC(e, 1).f = e.f /\ ADVANCE_PC(e, 1) \in CpuType
    BY <2>5, Fetched
  <2>8. t.f = e.f
    BY <2>2, <2>7 DEF Took, CpuType, CpuFields
  <2> QED BY <1>4, <1>5, <2>4, <2>6, <2>8 DEF t
<1> QED BY <1>2, <1>8, <1>9

\* ADD, ADC, SUB, SBC and CP, from any state.
LEMMA SumsExact ==
    ASSUME NEW s \in CpuType, ~s.is_halted, Adds(N8(s)) \/ Subtracts(N8(s))
    PROVE  LET y == Y(N8(s))
               a == s.reg["A"]
               v == OperandOf(s)
               c == IF y \in {1, 3} THEN CarryOf(s.f) ELSE 0
               got == [value |-> Execute(s).reg["A"], f |-> Execute(s).f]
               difference == Difference(a, v, c)
           IN  /\ v \in Byte
               /\ Adds(N8(s)) => got = Sum(a, v, c)
               /\ Subtracts(N8(s)) =>
                     got = IF y = 7 THEN [difference EXCEPT !.value = a] ELSE difference
<1> DEFINE op == N8(s)
           y == Y(op)
           a == s.reg["A"]
           v == OperandOf(s)
           c == IF y \in {1, 3} THEN CarryOf(s.f) ELSE 0
           got == [value |-> Execute(s).reg["A"], f |-> Execute(s).f]
           difference == Difference(a, v, c)
<1>1. a \in Byte
  BY Fields DEF Registers
<1>2. /\ v \in Byte
      /\ \E w \in {v, Int8(v)} :
            LET r == Accumulate(y, a, w, s.f)
            IN  (y \notin {0, 2} => w = v) /\ got = [value |-> r.value, f |-> r.f]
  <2>1. X(N8(s)) \in {2, 3} /\ (X(N8(s)) = 3 => Z(N8(s)) = 6)
    BY DEF Adds, Subtracts
  <2> QED BY <2>1, AluRuns
<1> HIDE DEF op, y, a, v, c, got
<1>3. \A x, z, w : [value |-> Result(x, z).value, f |-> Result(x, z).f] = Result(x, z)
  BY DEF Result
<1>4. ASSUME Adds(op) PROVE got = Sum(a, v, c)
  <2>1. y = 0 \/ y = 1
    BY <1>4 DEF Adds, y
  <2>2. PICK w \in {v, Int8(v)} :
           LET r == Accumulate(y, a, w, s.f)
           IN  (y \notin {0, 2} => w = v) /\ got = [value |-> r.value, f |-> r.f]
    BY <1>2, <1>4
  <2>3. CASE y = 0
    <3>1. Accumulate(y, a, w, s.f) = DO_ADD(a, w)
      BY <2>3 DEF Accumulate
    <3>2. DO_ADD(a, w) = Sum(a, v, 0)
      BY <1>1, <1>2, <1>4, AddIsSum
    <3>3. c = 0
      BY <2>3 DEF c
    <3> QED BY <1>3, <2>2, <3>1, <3>2, <3>3 DEF Sum
  <2>4. CASE y = 1
    <3>1. Accumulate(y, a, w, s.f) = DO_ADC(a, w, s.f)
      BY <2>4 DEF Accumulate
    <3>2. DO_ADC(a, v, s.f) = Sum(a, v, CarryOf(s.f))
      BY <1>1, <1>2, <1>4, AdcIsSum
    <3>3. w = v /\ c = CarryOf(s.f)
      BY <2>2, <2>4 DEF c
    <3> QED BY <1>3, <2>2, <3>1, <3>2, <3>3 DEF Sum
  <2> QED BY <2>1, <2>3, <2>4
<1>5. ASSUME Subtracts(op)
      PROVE  got = IF y = 7 THEN [difference EXCEPT !.value = a] ELSE difference
  <2>1. y = 2 \/ y = 3 \/ y = 7
    BY <1>5 DEF Subtracts, y
  <2>2. PICK w \in {v, Int8(v)} :
           LET r == Accumulate(y, a, w, s.f)
           IN  (y \notin {0, 2} => w = v) /\ got = [value |-> r.value, f |-> r.f]
    BY <1>2, <1>5
  <2>3. CASE y = 2
    <3>1. Accumulate(y, a, w, s.f) = DO_SUB(a, w)
      BY <2>3 DEF Accumulate
    <3>2. DO_SUB(a, w) = Difference(a, v, 0)
      BY <1>1, <1>2, <1>5, SubIsDifference
    <3>3. c = 0
      BY <2>3 DEF c
    <3> QED BY <1>3, <2>2, <2>3, <3>1, <3>2, <3>3 DEF Difference
  <2>4. CASE y = 3
    <3>1. Accumulate(y, a, w, s.f) = DO_SBC(a, w, s.f)
      BY <2>4 DEF Accumulate
    <3>2. DO_SBC(a, v, s.f) = Difference(a, v, CarryOf(s.f))
      BY <1>1, <1>2, <1>5, SbcIsDifference
    <3>3. w = v /\ c = CarryOf(s.f)
      BY <2>2, <2>4 DEF c
    <3> QED BY <1>3, <2>2, <2>4, <3>1, <3>2, <3>3 DEF Difference
  <2>5. CASE y = 7
    <3>1. Accumulate(y, a, w, s.f) = DO_CP(a, w)
      BY <2>5 DEF Accumulate
    <3>2. w = v /\ c = 0
      BY <2>2, <2>5 DEF c
    <3>3. DO_SUB(a, v) = Difference(a, v, 0)
      BY <1>1, <1>2, <1>5, SubIsDifference
    <3>4. DO_CP(a, v) = [difference EXCEPT !.value = a]
      BY <3>2, <3>3 DEF DO_CP
    <3>5. difference = [value |-> difference.value, f |-> difference.f]
      BY <1>3, ZenonT(40) DEF Difference
    <3> HIDE DEF difference
    <3>6. [difference EXCEPT !.value = a] = [value |-> a, f |-> difference.f]
      BY <3>5
    <3>7. got = [value |-> DO_CP(a, v).value, f |-> DO_CP(a, v).f]
      BY <2>2, <3>1, <3>2
    <3> QED BY <2>5, <3>4, <3>6, <3>7
  <2> QED BY <2>1, <2>3, <2>4, <2>5
<1> QED BY <1>2, <1>4, <1>5 DEF op, y, a, v, c, got

\* ADD, ADC, SUB, SBC and CP of every operand and from every state leave the
\* sum or difference and the carries of the manual: the comparisons and the
\* exclusive ors of the macros (IS_ADD_CARRY and those that follow it), which
\* the handlers apply to promoted and to signed operands, come to that.  So do
\* the flags of SP plus a signed byte.
THEOREM SumsTrue == Spec => []SumsAgree
<1>1. RunInv => SumsAgree
  <2>1. ASSUME RunInv, steps = 1
        PROVE  start \in CpuType /\ ~start.is_halted /\ now = Execute(start)
    BY <2>1 DEF RunInv, Ready
  <2>2. ASSUME RunInv, steps = 1, Opcode(start) \in OffsetOps
        PROVE  now.f = OffsetFlags(start.sp, OperandOf(start))
    BY <2>1, <2>2, OffsetRuns DEF Opcode
  <2> QED BY <2>1, <2>2, SumsExact DEF SumsAgree, Opcode
<1> QED BY <1>1, RunInvariant, PTL

-----------------------------------------------------------------------------
(* Decimal adjustment.                                                      *)

\* An operation on a register or on memory leaves memory as it is and PC behind
\* its opcode.
LEMMA InPlace ==
    ASSUME NEW s \in CpuType, ~s.is_halted, X(N8(s)) = 2
    PROVE  LET t == Execute(s)
           IN  /\ t \in CpuType /\ ~t.is_halted /\ SameMemory(s, t)
               /\ N8(t) = N8(ADVANCE_PC(s, 1))
<1> DEFINE op == N8(s)
           y == (op \div 8) % 8
           z == op % 8
           u == ADVANCE_PC(s, 1)
           t == Execute(s)
<1>1. /\ u \in CpuType /\ u.pc = W16(s.pc + 1) /\ SameMemory(s, u)
      /\ u.is_halted = s.is_halted
  <2>1. u.is_halted = s.is_halted
    BY DEF ADVANCE_PC, CpuType, CpuFields
  <2> QED BY <2>1, Fetched
<1>2. op \in Byte /\ op \div 64 = 2
  BY GetType DEF X
<1>3. t = Block2(u, y, z)
  <2>1. op # OPCODE_PREFIX
    <3> HIDE DEF op
    <3> QED BY <1>2 DEF OPCODE_PREFIX
  <2>2. t = ops_table_dispatch(u, op, FALSE)
    BY <2>1, Zenon DEF Execute
  <2>3. op \div 64 # 0 /\ op \div 64 # 1 /\ op \div 64 # 3
    BY <1>2
  <2> HIDE DEF op, u, t
  <2> QED BY <1>2, <2>2, <2>3, Zenon DEF ops_table_dispatch, y, z
<1>4. \E w, n : t = Took(AluOn(u, y, w), n)
  BY <1>3, Zenon DEF Block2, op_alu_ind_hl, op_alu_reg
<1>5. t \in CpuType
  BY ExecuteEnds DEF Lands
<1> HIDE DEF u, t
<1>6. t.pc = u.pc /\ t.is_halted = u.is_halted /\ SameMemory(u, t)
  <2>1. PICK w, n : t = Took(AluOn(u, y, w), n)
    BY <1>4
  <2>2. PICK v, f : AluOn(u, y, w) = [u EXCEPT !.reg["A"] = v, !.f = f]
    BY Zenon DEF AluOn
  <2>3. t = [u EXCEPT !.reg["A"] = v, !.f = f, !.cycles = n]
    BY <1>1, <2>1, <2>2 DEF Took, CpuType, CpuFields
  <2> QED BY <1>1, <2>3 DEF SameMemory, CpuType, CpuFields
<1>7. SameMemory(s, t)
  BY <1>1, <1>6 DEF SameMemory
<1>8. N8(t) = N8(u)
  <2>1. u.pc \in Int
    BY <1>1, Fields, Words
  <2> QED BY <1>6, <2>1, SameReads DEF N8
<1> QED BY <1>1, <1>5, <1>6, <1>7, <1>8 DEF u, t

LEMMA DaaRuns ==
    ASSUME NEW s \in CpuType, ~s.is_halted, N8(s) = DAA
    PROVE  /\ Execute(s).reg["A"] = Daa(s.reg["A"], s.f).value
           /\ Execute(s).f = Daa(s.reg["A"], s.f).f
<1> DEFINE u == ADVANCE_PC(s, 1)
           t == Execute(s)
           r == Daa(s.reg["A"], s.f)
<1>1. u \in CpuType /\ u.reg = s.reg /\ u.f = s.f
  BY Fetched
<1>2. t = ops_table_dispatch(u, DAA, FALSE)
  <2>1. DAA # OPCODE_PREFIX
    BY DEF DAA, OPCODE_PREFIX
  <2> QED BY <2>1, Zenon DEF Execute
<1> HIDE DEF u, t
<1>3. t = Block0(u, 4, 7)
  <2>1. DAA \div 64 = 0 /\ (DAA \div 8) % 8 = 4 /\ DAA % 8 = 7
    BY DEF DAA
  <2>2. 0 # 1 /\ 0 # 2 /\ 0 # 3
    OBVIOUS
  <2> QED BY <1>2, <2>1, <2>2, Zenon DEF ops_table_dispatch
<1>4. t = op_daa(u)
  <2>1. 7 # 0 /\ 7 # 1 /\ 7 # 2 /\ 7 # 3 /\ 7 # 4 /\ 7 # 5 /\ 7 # 6
    OBVIOUS
  <2>2. 4 \notin 0..3 /\ 4 # 5 /\ 4 # 6 /\ 4 # 7
    OBVIOUS
  <2> QED BY <1>3, <2>1, <2>2, Zenon DEF Block0
<1>5. t = Took([u EXCEPT !.reg["A"] = r.value, !.f = r.f], 1)
  BY <1>1, <1>4 DEF op_daa
<1> HIDE DEF r
<1>6. t.reg["A"] = r.value /\ t.f = r.f
  BY <1>1, <1>5 DEF Took, CpuType, CpuFields, Registers
<1> QED BY <1>6 DEF r, t

\* The digits of a sum or difference of two decimal numbers after DAA.
LEMMA DaaOfSum ==
    ASSUME NEW a \in Byte, NEW v \in Byte, NEW c \in {0, 1}, IsDecimal(a), IsDecimal(v)
    PROVE  LET r == Sum(a, v, c)
               t == Daa(r.value, r.f)
               total == Decimal(a) + Decimal(v) + c
           IN  /\ IsDecimal(t.value) /\ Decimal(t.value) = total % 100
               /\ ("CARRY" \in t.f) = (total >= 100)
               /\ ("ZERO" \in t.f) = (total % 100 = 0)
<1> DEFINE ah == a \div 16
           al == a % 16
           vh == v \div 16
           vl == v % 16
           e == ah + vh
           d == al + vl + c
           total == Decimal(a) + Decimal(v) + c
           r == Sum(a, v, c)
           sum == DaaSum(r.value, r.f)
           t == Daa(r.value, r.f)
<1>1. /\ a \in Int /\ v \in Int /\ 0 <= a /\ a < 256 /\ 0 <= v /\ v < 256
      /\ ah \in Int /\ al \in Int /\ vh \in Int /\ vl \in Int
      /\ a = 16 * ah + al /\ v = 16 * vh + vl
      /\ 0 <= ah /\ ah <= 9 /\ 0 <= al /\ al <= 9
      /\ 0 <= vh /\ vh <= 9 /\ 0 <= vl /\ vl <= 9
  BY Ranges DEF IsDecimal
<1> HIDE DEF ah, al, vh, vl
<1>2. /\ e \in Int /\ d \in Int /\ 0 <= e /\ e <= 18 /\ 0 <= d /\ d <= 19
      /\ a + v + c = 16 * e + d
  BY <1>1
<1>3. total = 10 * e + d
  BY <1>1 DEF Decimal, ah, al, vh, vl
<1> HIDE DEF total
<1>4. /\ r.value = (16 * e + d) % 256
      /\ "CARRY" \in r.f <=> 16 * e + d > 255
      /\ "HCARRY" \in r.f <=> d > 15
      /\ "SUB" \notin r.f
  BY <1>2 DEF Sum, Result, When, W8, al, vl
<1> HIDE DEF r, e, d
<1>5. sum = LET low == IF d > 15 \/ r.value % 16 > 9 THEN r.value + 6 ELSE r.value
            IN  IF 16 * e + d > 255 \/ low > 159 THEN low + 96 ELSE low
  BY <1>4 DEF DaaSum
<1>6. /\ t.value = W8(sum)
      /\ "CARRY" \in t.f <=> "CARRY" \in r.f \/ Bit(sum, 8) = 1
      /\ "ZERO" \in t.f <=> W8(sum) = 0
  <2> HIDE DEF sum
  <2> QED BY DEF Daa, Result, ZeroFlag, When, sum
<1> HIDE DEF sum, t
<1> DEFINE q == IF d > 9 THEN 1 ELSE 0       \* the carry of the units
           h == e + q - (IF e + q > 9 THEN 10 ELSE 0)
           l == d - 10 * q
<1>7. /\ q \in {0, 1} /\ h \in Int /\ l \in Int
      /\ 0 <= l /\ l <= 9 /\ 0 <= h /\ h <= 9
  BY <1>2
<1>8. total = 10 * (e + q) + l
  BY <1>2, <1>3
<1>9. /\ W8(sum) = 16 * h + l
      /\ (16 * e + d > 255 \/ Bit(sum, 8) = 1) <=> e + q > 9
  <2> DEFINE m == IF 16 * e + d > 255 THEN 16 * e + d - 256 ELSE 16 * e + d
             low == 16 * (e + q) + l - (IF 16 * e + d > 255 THEN 256 ELSE 0)
  <2>1. r.value = m /\ m \in Int /\ 0 <= m /\ m < 256
    BY <1>2, <1>4
  <2>2. m % 16 = IF d > 15 THEN d - 16 ELSE d
    BY <1>2
  <2>3. (IF d > 15 \/ m % 16 > 9 THEN m + 6 ELSE m) = low
    BY <1>2, <2>2
  <2>4. sum = IF 16 * e + d > 255 \/ low > 159 THEN low + 96 ELSE low
    <3> HIDE DEF m, low
    <3> QED BY <1>5, <2>1, <2>3
  <2>5. low \in Int /\ (16 * e + d > 255 \/ low > 159 <=> e + q > 9)
    BY <1>2
  <2>6. sum = IF e + q > 9
                THEN 16 * (e + q) + l + 96 - (IF 16 * e + d > 255 THEN 256 ELSE 0)
                ELSE 16 * (e + q) + l
    BY <1>2, <2>4, <2>5
  <2>7. Bit(sum, 8) = (sum \div 256) % 2
    BY DEF Bit
  <2>8. CASE e + q > 9 /\ 16 * e + d > 255
    <3>1. sum = 16 * h + l
      BY <1>2, <2>6, <2>8
    <3> QED BY <1>7, <2>8, <3>1 DEF W8
  <2>9. CASE e + q > 9 /\ ~(16 * e + d > 255)
    <3>1. sum = 16 * h + l + 256
      BY <1>2, <2>6, <2>9
    <3> QED BY <1>7, <2>7, <2>9, <3>1 DEF W8
  <2>10. CASE ~(e + q > 9)
    <3>1. sum = 16 * h + l /\ ~(16 * e + d > 255)
      BY <1>2, <2>6, <2>10
    <3> QED BY <1>7, <2>7, <2>10, <3>1 DEF W8
  <2> QED BY <2>8, <2>9, <2>10
<1> HIDE DEF q, h, l
<1>10. IsDecimal(t.value) /\ Decimal(t.value) = 10 * h + l
  <2>1. t.value = 16 * h + l
    BY <1>6, <1>9
  <2>2. (16 * h + l) \div 16 = h /\ (16 * h + l) % 16 = l
    BY <1>7
  <2> QED BY <1>7, <2>1, <2>2 DEF IsDecimal, Decimal
<1>11. total % 100 = 10 * h + l /\ (total >= 100 <=> e + q > 9)
  BY <1>2, <1>7, <1>8 DEF h
<1>12. "CARRY" \in t.f <=> total >= 100
  BY <1>4, <1>6, <1>9, <1>11
<1>13. "ZERO" \in t.f <=> total % 100 = 0
  BY <1>6, <1>7, <1>9, <1>11
<1> QED BY <1>10, <1>11, <1>12, <1>13 DEF t, r, total

LEMMA DaaOfDifference ==
    ASSUME NEW a \in Byte, NEW v \in Byte, NEW c \in {0, 1}, IsDecimal(a), IsDecimal(v),
           Decimal(a) >= Decimal(v) + c
    PROVE  LET r == Difference(a, v, c)
               t == Daa(r.value, r.f)
           IN  /\ IsDecimal(t.value) /\ Decimal(t.value) = Decimal(a) - Decimal(v) - c
               /\ "CARRY" \notin t.f
<1> DEFINE ah == a \div 16
           al == a % 16
           vh == v \div 16
           vl == v % 16
           e == ah - vh
           d == al - vl - c
           r == Difference(a, v, c)
           sum == DaaSum(r.value, r.f)
           t == Daa(r.value, r.f)
<1>1. /\ a \in Int /\ v \in Int /\ 0 <= a /\ a < 256 /\ 0 <= v /\ v < 256
      /\ ah \in Int /\ al \in Int /\ vh \in Int /\ vl \in Int
      /\ a = 16 * ah + al /\ v = 16 * vh + vl
      /\ 0 <= ah /\ ah <= 9 /\ 0 <= al /\ al <= 9
      /\ 0 <= vh /\ vh <= 9 /\ 0 <= vl /\ vl <= 9
  BY Ranges DEF IsDecimal
<1>2. Decimal(a) = 10 * ah + al /\ Decimal(v) = 10 * vh + vl
  BY DEF Decimal
<1> HIDE DEF ah, al, vh, vl
<1>3. /\ e \in Int /\ d \in Int /\ e <= 9 /\ -10 <= d /\ d <= 9
      /\ a - v - c = 16 * e + d /\ Decimal(a) - Decimal(v) - c = 10 * e + d
      /\ 0 <= 10 * e + d /\ (a < v + c <=> 16 * e + d < 0)
  BY <1>1, <1>2
<1>4. 0 <= e /\ (d < 0 => 1 <= e) /\ 0 <= 16 * e + d /\ 16 * e + d < 256
  BY <1>3
<1>5. /\ r.value = 16 * e + d
      /\ "CARRY" \notin r.f
      /\ "HCARRY" \in r.f <=> d < 0
      /\ "SUB" \in r.f
  <2>1. (al < vl + c) <=> d < 0
    BY <1>1
  <2> HIDE DEF e, d
  <2>2. (16 * e + d) % 256 = 16 * e + d
    BY <1>3, <1>4
  <2>3. ~(a < v + c)
    BY <1>3, <1>4
  <2> QED BY <1>3, <2>1, <2>2, <2>3 DEF Difference, Result, When, W8, al, vl
<1> HIDE DEF r
<1> DEFINE h == IF d < 0 THEN e - 1 ELSE e
           l == IF d < 0 THEN d + 10 ELSE d
<1>6. /\ h \in Int /\ l \in Int /\ 0 <= h /\ h <= 9 /\ 0 <= l /\ l <= 9
      /\ 10 * e + d = 10 * h + l
      /\ (IF d < 0 THEN 16 * e + d - 6 ELSE 16 * e + d) = 16 * h + l
  BY <1>3, <1>4
<1>7. sum = 16 * h + l
  <2> HIDE DEF e, d, h, l
  <2>1. sum = IF d < 0 THEN W8((16 * e + d) - 6) ELSE 16 * e + d
    <3>1. DaaSum(r.value, r.f) = IF "HCARRY" \in r.f THEN W8(r.value - 6) ELSE r.value
      BY <1>5, Zenon DEF DaaSum
    <3>2. sum = IF d < 0 THEN W8(r.value - 6) ELSE r.value
      BY <1>5, <3>1
    <3>3. r.value = 16 * e + d
      BY <1>5
    <3> HIDE DEF sum
    <3> QED BY <3>2, <3>3
  <2> HIDE DEF sum
  <2> QED BY <1>3, <1>6, <2>1 DEF W8
<1>8. t.value = W8(sum) /\ ("CARRY" \in t.f <=> "CARRY" \in r.f \/ Bit(sum, 8) = 1)
  <2> HIDE DEF sum
  <2> QED BY DEF Daa, Result, ZeroFlag, When, sum
<1> HIDE DEF sum, t, e, d, h, l
<1>9. W8(sum) = 16 * h + l /\ Bit(sum, 8) = 0
  BY <1>6, <1>7 DEF W8, Bit
<1>10. t.value \div 16 = h /\ t.value % 16 = l
  BY <1>6, <1>8, <1>9
<1>11. IsDecimal(t.value) /\ Decimal(t.value) = 10 * h + l
  BY <1>6, <1>10 DEF IsDecimal, Decimal
<1>12. "CARRY" \notin t.f
  BY <1>5, <1>8, <1>9
<1> QED BY <1>3, <1>6, <1>11, <1>12 DEF t, r

\* DAA after ADD or ADC of any two decimal numbers gives their decimal sum, and
\* after SUB or SBC that does not borrow their difference.
THEOREM DaaTrue == Spec => []DaaAdjusts
<1>1. RunInv => DaaAdjusts
  <2> DEFINE op == Opcode(start)
             a == start.reg["A"]
             v == OperandOf(start)
             c == IF Y(op) \in {1, 3} THEN CarryOf(start.f) ELSE 0
             total == Decimal(a) + Decimal(v) + c
             mid == Execute(start)
             r == [value |-> mid.reg["A"], f |-> mid.f]
  <2> SUFFICES ASSUME RunInv, steps = 2, Second(start) = DAA, X(op) = 2,
                      IsDecimal(a), IsDecimal(v)
               PROVE  /\ Adds(op) =>
                            /\ IsDecimal(now.reg["A"])
                            /\ Decimal(now.reg["A"]) = total % 100
                            /\ ("CARRY" \in now.f) = (total >= 100)
                            /\ ("ZERO" \in now.f) = (total % 100 = 0)
                      /\ Subtracts(op) /\ Y(op) # 7 /\ Decimal(a) >= Decimal(v) + c =>
                            /\ IsDecimal(now.reg["A"])
                            /\ Decimal(now.reg["A"]) = Decimal(a) - Decimal(v) - c
                            /\ "CARRY" \notin now.f
    BY DEF DaaAdjusts
  <2>1. /\ start \in CpuType /\ ~start.is_halted /\ now = Execute(mid)
        /\ op = N8(start) /\ a \in Byte /\ c \in {0, 1}
    BY Fields DEF RunInv, Ready, Opcode, Registers, CarryOf
  <2>2. mid \in CpuType /\ ~mid.is_halted /\ N8(mid) = DAA
    BY <2>1, InPlace DEF Second
  <2>3. now.reg["A"] = Daa(r.value, r.f).value /\ now.f = Daa(r.value, r.f).f
    <3> HIDE DEF mid
    <3> QED BY <2>1, <2>2, DaaRuns
  <2>4. ASSUME Adds(op) \/ Subtracts(op)
        PROVE  /\ v \in Byte
               /\ Adds(op) => r = Sum(a, v, c)
               /\ Subtracts(op) /\ Y(op) # 7 => r = Difference(a, v, c)
    BY <2>1, <2>4, SumsExact
  <2> HIDE DEF op, a, v, c, r
  <2>5. ASSUME Adds(op)
        PROVE  /\ IsDecimal(now.reg["A"]) /\ Decimal(now.reg["A"]) = total % 100
               /\ ("CARRY" \in now.f) = (total >= 100)
               /\ ("ZERO" \in now.f) = (total % 100 = 0)
    BY <2>1, <2>3, <2>4, <2>5, DaaOfSum
  <2>6. ASSUME Subtracts(op), Y(op) # 7, Decimal(a) >= Decimal(v) + c
        PROVE  /\ IsDecimal(now.reg["A"])
               /\ Decimal(now.reg["A"]) = Decimal(a) - Decimal(v) - c
               /\ "CARRY" \notin now.f
    BY <2>1, <2>3, <2>4, <2>6, DaaOfDifference
  <2> QED BY <2>5, <2>6
<1> QED BY <1>1, RunInvariant, PTL

-----------------------------------------------------------------------------
(* The cartridge.                                                           *)

\* LD (BC),A and LD A,(DE).
LEMMA IndirectRuns ==
    ASSUME NEW s \in CpuType, ~s.is_halted
    PROVE  LET u == ADVANCE_PC(s, 1)
           IN  /\ N8(s) = 2 => Execute(s) = op_ld_ind_a(u, Get16(u, "BC"))
               /\ N8(s) = 26 => Execute(s) = op_ld_a_ind(u, Get16(u, "DE"))
<1> DEFINE op == N8(s)
           u == ADVANCE_PC(s, 1)
           t == Execute(s)
<1>1. ASSUME op = 2 \/ op = 26 PROVE t = Block0(u, IF op = 2 THEN 0 ELSE 3, 2)
  <2>1. op # OPCODE_PREFIX
    <3> HIDE DEF op
    <3> QED BY <1>1 DEF OPCODE_PREFIX
  <2>2. t = ops_table_dispatch(u, op, FALSE)
    BY <2>1, Zenon DEF Execute
  <2> HIDE DEF op, u, t
  <2>3. op \div 64 = 0 /\ op % 8 = 2 /\ (op \div 8) % 8 = IF op = 2 THEN 0 ELSE 3
    BY <1>1
  <2>4. op \div 64 # 1 /\ op \div 64 # 2 /\ op \div 64 # 3
    BY <2>3
  <2> QED BY <2>2, <2>3, <2>4, Zenon DEF ops_table_dispatch
<1>2. 2 # 0 /\ 2 # 1 /\ 2 # 3 /\ 2 # 4 /\ 2 # 5 /\ 2 # 6 /\ 2 # 7
  OBVIOUS
<1> HIDE DEF op, u, t
<1>3. ASSUME op = 2 PROVE t = op_ld_ind_a(u, Get16(u, "BC"))
  <2>1. t = Block0(u, 0, 2)
    BY <1>1, <1>3
  <2>2. Pair[0 \div 2 + 1] = "BC"
    BY DEF Pair
  <2>3. 0 \in {0, 2} /\ 0 \notin {1, 3} /\ 0 # 4 /\ 0 # 5 /\ 0 # 6 /\ 0 # 7
    OBVIOUS
  <2> QED BY <1>2, <2>1, <2>2, <2>3, Zenon DEF Block0
<1>4. ASSUME op = 26 PROVE t = op_ld_a_ind(u, Get16(u, "DE"))
  <2>1. t = Block0(u, 3, 2)
    BY <1>1, <1>4
  <2>2. Pair[3 \div 2 + 1] = "DE"
    BY DEF Pair
  <2>3. 3 \notin {0, 2} /\ 3 \in {1, 3} /\ 3 # 4 /\ 3 # 5 /\ 3 # 6 /\ 3 # 7
    OBVIOUS
  <2> QED BY <1>2, <2>1, <2>2, <2>3, Zenon DEF Block0
<1> QED BY <1>3, <1>4 DEF op, u, t

\* A write to the cartridge moves the window at most.
LEMMA BankWritten ==
    ASSUME NEW s \in CpuType, NEW a \in Word, NEW v \in Byte, a < CartridgeEnd
    PROVE  LET bank == IF /\ a \div 8192 = 1
                          /\ Asked(v) < Cartridges[s.cart].banks
                         THEN Asked(v) ELSE s.window
           IN  /\ bank \in Nat
               /\ monitor_wr_mem(s, a, v) = [s EXCEPT !.window = bank]
<1> DEFINE bank == IF a \div 8192 = 1 /\ Asked(v) < Cartridges[s.cart].banks
                     THEN Asked(v) ELSE s.window
           t == monitor_wr_mem(s, a, v)
<1>1. W16(a) = a /\ W8(v) = v /\ a \in Int /\ 0 <= a
  BY Widths, Ranges
<1>2. Asked(v) \in Nat /\ s.window \in Nat
  <2>1. v \in Int /\ 0 <= v
    BY Ranges
  <2> QED BY <2>1 DEF Asked, CpuType, CpuFields
<1>3. [s EXCEPT !.window = s.window] = s
  BY DEF CpuType, CpuFields
<1>4. t = mbc1_wr_mem(s, a, v)
  <2>1. a \notin Io
    BY <1>1, ReadIs
  <2>2. ~(a >= CartridgeEnd)
    BY <1>1 DEF CartridgeEnd, BankSize
  <2> QED BY <1>1, <2>1, <2>2, Zenon DEF monitor_wr_mem, Io
<1>5. Select(s, v) = IF Asked(v) < Cartridges[s.cart].banks
                       THEN [s EXCEPT !.window = Asked(v)] ELSE s
  BY DEF Select, Asked
<1>6. 8192 <= a /\ a < BankSize <=> a \div 8192 = 1
  BY <1>1 DEF BankSize
<1>7. t = IF a \div 8192 = 1 THEN Select(s, v) ELSE s
  BY <1>4, <1>6 DEF mbc1_wr_mem
<1>8. t = [s EXCEPT !.window = bank]
  <2> DEFINE moves == a \div 8192 = 1 /\ Asked(v) < Cartridges[s.cart].banks
  <2>1. CASE moves
    <3>1. t = [s EXCEPT !.window = Asked(v)] /\ bank = Asked(v)
      BY <1>5, <1>7, <2>1
    <3> HIDE DEF t, bank
    <3> QED BY <3>1
  <2>2. CASE ~moves
    <3>1. t = s /\ bank = s.window
      BY <1>5, <1>7, <2>2
    <3> HIDE DEF t, bank
    <3> QED BY <1>3, <3>1
  <2> QED BY <2>1, <2>2
<1> QED BY <1>2, <1>8

\* The window of any image follows every write to the cartridge, and leaves
\* its first bank in place.
THEOREM BanksTrue == Spec => []BanksFollowWrites
<1>1. RunInv => BanksFollowWrites
  <2> DEFINE image == Cartridges[start.cart]
             to == Get16(start, "BC")
             from == Get16(start, "DE")
             v == start.reg["A"]
             bank == IF to \div 8192 = 1 /\ Asked(v) < image.banks
                       THEN Asked(v) ELSE start.window
             u == ADVANCE_PC(start, 1)
             mid == Execute(start)
             w == ADVANCE_PC(mid, 1)
             byte == At(image.bytes, IF from < BankSize THEN from
                                     ELSE (from % BankSize) + BankSize * bank)
  <2> SUFFICES ASSUME RunInv, steps = 2, <<Opcode(start), Second(start)>> = Banking,
                      to < CartridgeEnd, from < CartridgeEnd
               PROVE  now.reg["A"] = byte
    BY DEF BanksFollowWrites
  <2>1. /\ start \in CpuType /\ ~start.is_halted /\ ~start.booting
        /\ start.pc = CodeBase /\ now = Execute(mid)
        /\ N8(start) = 2 /\ N8(u) = 26
    BY DEF RunInv, Ready, Opcode, Second, Banking
  <2>2. to \in Word /\ from \in Word /\ v \in Byte
    BY <2>1, GetType, Fields DEF Pairs, Registers
  <2>3. /\ u \in CpuType /\ u.reg = start.reg /\ u.f = start.f /\ u.sp = start.sp
        /\ u.pc = W16(start.pc + 1) /\ SameMemory(start, u) /\ u.is_halted = start.is_halted
    <3>1. u.is_halted = start.is_halted
      BY <2>1 DEF ADVANCE_PC, CpuType, CpuFields
    <3> QED BY <2>1, <3>1, Fetched
  <2> HIDE DEF u
  <2>4. Get16(u, "BC") = to /\ u.reg["A"] = v /\ u.cart = start.cart /\ u.window = start.window
    BY <2>3 DEF Get16, SameMemory
  <2>5. bank \in Nat /\ monitor_wr_mem(u, to, v) = [u EXCEPT !.window = bank]
    <3> HIDE DEF to, v
    <3> QED BY <2>2, <2>3, <2>4, BankWritten
  <2> HIDE DEF bank
  <2>6. mid = Took([u EXCEPT !.window = bank], 2)
    BY <2>1, <2>4, <2>5, IndirectRuns DEF op_ld_ind_a, u
  <2> HIDE DEF mid
  <2>7. /\ mid \in CpuType /\ mid.reg = start.reg /\ ~mid.is_halted /\ ~mid.booting
        /\ mid.pc = u.pc /\ mid.cart = start.cart /\ mid.window = bank /\ mid.mem = u.mem
    BY <2>1, <2>3, <2>5, <2>6 DEF Took, SameMemory, CpuType, CpuFields
  <2>8. N8(mid) = 26
    <3>1. u.pc \in Int /\ W16(u.pc) = 53249
      BY <2>1, <2>3 DEF CodeBase, W16
    <3>2. CartridgeEnd <= 53249 /\ 53249 \notin Io
      BY IoNames DEF CartridgeEnd, BankSize
    <3>3. N8(mid) = At(mid.mem, 53249) /\ N8(u) = At(u.mem, 53249)
      BY <2>7, <3>1, <3>2, ReadIs DEF N8
    <3> QED BY <2>1, <2>7, <3>3
  <2>9. /\ w \in CpuType /\ w.reg = start.reg /\ ~w.booting /\ w.cart = start.cart
        /\ w.window = bank
    BY <2>7, Fetched DEF SameMemory
  <2>10. now = op_ld_a_ind(w, Get16(w, "DE"))
    BY <2>1, <2>7, <2>8, IndirectRuns
  <2> HIDE DEF w
  <2>11. Get16(w, "DE") = from
    BY <2>9 DEF Get16
  <2>12. monitor_rd_mem(w, from) = byte
    <3> HIDE DEF from
    <3>1. from \in Int /\ 0 <= from /\ from < 32768 /\ W16(from) = from
      BY <2>2, Widths, Ranges DEF CartridgeEnd, BankSize
    <3>2. monitor_rd_mem(w, from) = mbc1_rd_mem(w, from)
      BY <3>1, ReadIs
    <3>3. CASE from < BankSize
      <4>1. ~(from >= BankSize)
        BY <3>1, <3>3 DEF BankSize
      <4>2. mbc1_rd_mem(w, from) = At(image.bytes, from)
        BY <2>9, <3>3, <4>1, Zenon DEF mbc1_rd_mem
      <4> QED BY <3>2, <3>3, <4>2
    <3>4. CASE ~(from < BankSize)
      <4>1. from >= BankSize
        BY <3>1, <3>4 DEF BankSize
      <4>2. mbc1_rd_mem(w, from) = At(image.bytes, BankSize * (bank - 1) + from)
        BY <2>9, <3>4, <4>1, Zenon DEF mbc1_rd_mem
      <4>3. BankSize * (bank - 1) + from = (from % BankSize) + BankSize * bank
        <5>1. from % BankSize = from - BankSize
          BY <3>1, <4>1 DEF BankSize
        <5>2. BankSize * (bank - 1) = BankSize * bank - BankSize /\ BankSize * bank \in Int
          BY <2>5 DEF BankSize
        <5> QED BY <3>1, <5>1, <5>2 DEF BankSize
      <4> QED BY <3>2, <3>4, <4>2, <4>3
    <3> QED BY <3>3, <3>4
  <2>13. byte \in Byte
    BY <2>2, <2>9, <2>12, ReadType, Words
  <2> HIDE DEF byte
  <2>14. now = Took([w EXCEPT !.reg["A"] = byte], 2)
    BY <2>10, <2>11, <2>12, <2>13, Widths DEF op_ld_a_ind, Put
  <2> QED BY <2>9, <2>13, <2>14 DEF Took, CpuType, CpuFields, Registers
<1> QED BY <1>1, RunInvariant, PTL

-----------------------------------------------------------------------------
(* Instructions that undo each other.                                       *)

LEMMA Quarter0 ==
    ASSUME NEW s \in CpuType, ~s.is_halted
    PROVE  LET u == ADVANCE_PC(s, 1)
           IN  /\ \A y \in Field : N8(s) = 8 * y + 4 => Execute(s) = op_inc(u, Operand[y + 1])
               /\ \A y \in Field : N8(s) = 8 * y + 5 => Execute(s) = op_dec(u, Operand[y + 1])
               /\ \A p \in 0..3 : N8(s) = 16 * p + 3 => Execute(s) = op_inc16(u, Pair[p + 1])
               /\ \A p \in 0..3 : N8(s) = 16 * p + 11 => Execute(s) = op_dec16(u, Pair[p + 1])
               /\ \A y \in 0..3 : N8(s) = 8 * y + 7 => Execute(s) = op_turn_a(u, y)
               /\ N8(s) = 47 => Execute(s) = op_cpl(u)
<1> DEFINE u == ADVANCE_PC(s, 1)
           t == Execute(s)
<1>1. \A y, z \in Field : N8(s) = 8 * y + z => t = Block0(u, y, z)
  <2> SUFFICES ASSUME NEW y \in Field, NEW z \in Field, N8(s) = 8 * y + z
               PROVE  t = Block0(u, y, z)
    OBVIOUS
  <2>1. 0 \in 0..3 /\ 64 * 0 + 8 * y + z = 8 * y + z
    BY DEF Field
  <2> QED BY <2>1, Dispatched
<1> HIDE DEF u, t
<1>2. /\ 3 \in Field /\ 4 \in Field /\ 5 \in Field /\ 7 \in Field
      /\ \A y \in 0..3 : y \in Field
  BY DEF Field
<1>3. ASSUME NEW y \in Field, N8(s) = 8 * y + 4 PROVE t = op_inc(u, Operand[y + 1])
  <2>1. t = Block0(u, y, 4)
    BY <1>1, <1>2, <1>3
  <2>2. 4 # 0 /\ 4 # 1 /\ 4 # 2 /\ 4 # 3 /\ 4 # 5 /\ 4 # 6 /\ 4 # 7
    OBVIOUS
  <2> QED BY <2>1, <2>2, Zenon DEF Block0
<1>4. ASSUME NEW y \in Field, N8(s) = 8 * y + 5 PROVE t = op_dec(u, Operand[y + 1])
  <2>1. t = Block0(u, y, 5)
    BY <1>1, <1>2, <1>4
  <2>2. 5 # 0 /\ 5 # 1 /\ 5 # 2 /\ 5 # 3 /\ 5 # 4 /\ 5 # 6 /\ 5 # 7
    OBVIOUS
  <2> QED BY <2>1, <2>2, Zenon DEF Block0
<1>5. 3 # 0 /\ 3 # 1 /\ 3 # 2 /\ 3 # 4 /\ 3 # 5 /\ 3 # 6 /\ 3 # 7
  OBVIOUS
<1>6. ASSUME NEW p \in 0..3, N8(s) = 16 * p + 3 PROVE t = op_inc16(u, Pair[p + 1])
  <2> DEFINE y == 2 * p
  <2>1. y \in Field /\ 8 * y + 3 = 16 * p + 3 /\ y \div 2 + 1 = p + 1 /\ ~(y % 2 = 1)
    BY DEF Field
  <2> HIDE DEF y
  <2>2. t = Block0(u, y, 3)
    BY <1>1, <1>2, <1>6, <2>1
  <2> QED BY <1>5, <2>1, <2>2, Zenon DEF Block0
<1>7. ASSUME NEW p \in 0..3, N8(s) = 16 * p + 11 PROVE t = op_dec16(u, Pair[p + 1])
  <2> DEFINE y == 2 * p + 1
  <2>1. y \in Field /\ 8 * y + 3 = 16 * p + 11 /\ y \div 2 + 1 = p + 1 /\ y % 2 = 1
    BY DEF Field
  <2> HIDE DEF y
  <2>2. t = Block0(u, y, 3)
    BY <1>1, <1>2, <1>7, <2>1
  <2> QED BY <1>5, <2>1, <2>2, Zenon DEF Block0
<1>8. 7 # 0 /\ 7 # 1 /\ 7 # 2 /\ 7 # 3 /\ 7 # 4 /\ 7 # 5 /\ 7 # 6
  OBVIOUS
<1>9. ASSUME NEW y \in 0..3, N8(s) = 8 * y + 7 PROVE t = op_turn_a(u, y)
  <2>1. t = Block0(u, y, 7)
    BY <1>1, <1>2, <1>9
  <2>2. y # 4 /\ y # 5 /\ y # 6 /\ y # 7
    OBVIOUS
  <2> QED BY <1>8, <2>1, <2>2, Zenon DEF Block0
<1>10. ASSUME N8(s) = 47 PROVE t = op_cpl(u)
  <2>1. 8 * 5 + 7 = 47
    OBVIOUS
  <2>2. t = Block0(u, 5, 7)
    BY <1>1, <1>2, <1>10, <2>1
  <2>3. 5 \notin 0..3 /\ 5 # 4 /\ 5 # 6 /\ 5 # 7
    OBVIOUS
  <2> QED BY <1>8, <2>2, <2>3, Zenon DEF Block0
<1> QED BY <1>3, <1>4, <1>6, <1>7, <1>9, <1>10 DEF u, t

\* The pairs that are pushed.
Stacked == <<"BC", "DE", "HL", "AF">>

LEMMA Quarter3 ==
    ASSUME NEW s \in CpuType, ~s.is_halted
    PROVE  LET u == ADVANCE_PC(s, 1)
           IN  /\ \A p \in 0..3 : N8(s) = 16 * p + 197 => Execute(s) = op_push(u, Stacked[p + 1])
               /\ \A p \in 0..3 : N8(s) = 16 * p + 193 => Execute(s) = op_pop(u, Stacked[p + 1])
               /\ N8(s) = CALL => Execute(s) = DO_CALL(u)
               /\ N8(s) = RET => Execute(s) = op_ret(u)
               /\ \A y \in 0..7 : N8(s) = 8 * y + 199 => Execute(s) = op_restart(u, y)
<1> DEFINE u == ADVANCE_PC(s, 1)
           t == Execute(s)
<1>1. \A y, z \in Field :
         N8(s) = 192 + 8 * y + z /\ N8(s) # OPCODE_PREFIX => t = Block3(u, y, z)
  <2> SUFFICES ASSUME NEW y \in Field, NEW z \in Field, N8(s) = 192 + 8 * y + z,
                      N8(s) # OPCODE_PREFIX
               PROVE  t = Block3(u, y, z)
    OBVIOUS
  <2>1. 3 \in 0..3 /\ 64 * 3 + 8 * y + z = 192 + 8 * y + z
    BY DEF Field
  <2> QED BY <2>1, Dispatched
<1> HIDE DEF u, t
<1>2. 1 \in Field /\ 5 \in Field /\ 7 \in Field
  BY DEF Field
<1>3. ASSUME NEW p \in 0..3, N8(s) = 16 * p + 197 PROVE t = op_push(u, Stacked[p + 1])
  <2> DEFINE y == 2 * p
  <2>1. /\ y \in Field /\ 192 + 8 * y + 5 = 16 * p + 197 /\ y \div 2 + 1 = p + 1
        /\ ~(y % 2 = 1) /\ y # 1 /\ y \notin {3, 5, 7} /\ 16 * p + 197 # OPCODE_PREFIX
    BY DEF Field, OPCODE_PREFIX
  <2> HIDE DEF y
  <2>2. t = Block3(u, y, 5)
    BY <1>1, <1>2, <1>3, <2>1
  <2>3. 5 # 0 /\ 5 # 1 /\ 5 # 2 /\ 5 # 3 /\ 5 # 4 /\ 5 # 6 /\ 5 # 7
    OBVIOUS
  <2> QED BY <2>1, <2>2, <2>3, Zenon DEF Block3, Stacked
<1>4. ASSUME NEW p \in 0..3, N8(s) = 16 * p + 193 PROVE t = op_pop(u, Stacked[p + 1])
  <2> DEFINE y == 2 * p
  <2>1. /\ y \in Field /\ 192 + 8 * y + 1 = 16 * p + 193 /\ y \div 2 + 1 = p + 1
        /\ ~(y % 2 = 1) /\ y # 1 /\ y # 3 /\ y # 5 /\ y # 7 /\ 16 * p + 193 # OPCODE_PREFIX
    BY DEF Field, OPCODE_PREFIX
  <2> HIDE DEF y
  <2>2. t = Block3(u, y, 1)
    BY <1>1, <1>2, <1>4, <2>1
  <2>3. 1 # 0 /\ 1 # 2 /\ 1 # 3 /\ 1 # 4 /\ 1 # 5 /\ 1 # 6 /\ 1 # 7
    OBVIOUS
  <2> QED BY <2>1, <2>2, <2>3, Zenon DEF Block3, Stacked
<1>5. ASSUME N8(s) = CALL PROVE t = DO_CALL(u)
  <2>1. CALL = 192 + 8 * 1 + 5 /\ CALL # OPCODE_PREFIX
    BY DEF CALL, OPCODE_PREFIX
  <2>2. t = Block3(u, 1, 5)
    BY <1>1, <1>2, <1>5, <2>1
  <2>3. 5 # 0 /\ 5 # 1 /\ 5 # 2 /\ 5 # 3 /\ 5 # 4 /\ 5 # 6 /\ 5 # 7
    OBVIOUS
  <2>4. 1 % 2 = 1 /\ 1 \notin {3, 5, 7}
    OBVIOUS
  <2> QED BY <2>2, <2>3, <2>4, Zenon DEF Block3
<1>6. ASSUME N8(s) = RET PROVE t = op_ret(u)
  <2>1. RET = 192 + 8 * 1 + 1 /\ RET # OPCODE_PREFIX
    BY DEF RET, OPCODE_PREFIX
  <2>2. t = Block3(u, 1, 1)
    BY <1>1, <1>2, <1>6, <2>1
  <2>3. 1 # 0 /\ 1 # 2 /\ 1 # 3 /\ 1 # 4 /\ 1 # 5 /\ 1 # 6 /\ 1 # 7
    OBVIOUS
  <2>4. 1 % 2 = 1
    OBVIOUS
  <2> QED BY <2>2, <2>3, <2>4, Zenon DEF Block3
<1>7. ASSUME NEW y \in 0..7, N8(s) = 8 * y + 199 PROVE t = op_restart(u, y)
  <2>1. y \in Field /\ 192 + 8 * y + 7 = 8 * y + 199 /\ 8 * y + 199 # OPCODE_PREFIX
    BY DEF Field, OPCODE_PREFIX
  <2>2. t = Block3(u, y, 7)
    BY <1>1, <1>2, <1>7, <2>1
  <2>3. 7 # 0 /\ 7 # 1 /\ 7 # 2 /\ 7 # 3 /\ 7 # 4 /\ 7 # 5 /\ 7 # 6
    OBVIOUS
  <2> QED BY <2>2, <2>3, Zenon DEF Block3
<1> QED BY <1>3, <1>4, <1>5, <1>6, <1>7 DEF u, t

\* Between the fetch and the end of a handler: only A to L, F, SP and the
\* cycles change.
Stays(u, t) == t.pc = u.pc /\ t.is_halted = u.is_halted /\ SameMemory(u, t)

LEMMA CountsRegister ==
    ASSUME NEW u \in CpuType, NEW r \in Registers
    PROVE  /\ LET t == op_inc(u, r)
              IN  /\ Stays(u, t) /\ t.sp = u.sp
                  /\ t.reg = [u.reg EXCEPT ![r] = W8(u.reg[r] + 1)]
           /\ LET t == op_dec(u, r)
              IN  /\ Stays(u, t) /\ t.sp = u.sp
                  /\ t.reg = [u.reg EXCEPT ![r] = W8(u.reg[r] - 1)]
<1>1. r # "IND_HL"
  BY DEF Registers
<1>2. ASSUME NEW v, NEW changed, NEW set, NEW n
      PROVE  LET t == Took(PutFlags(Put(u, r, v), changed, set), n)
             IN  Stays(u, t) /\ t.sp = u.sp /\ t.reg = [u.reg EXCEPT ![r] = W8(v)]
  <2> DEFINE b == W8(v)
             e == [u EXCEPT !.reg[r] = b]
             f == (e.f \ changed) \cup set
             t == Took(PutFlags(Put(u, r, v), changed, set), n)
  <2>1. t = [[e EXCEPT !.f = f] EXCEPT !.cycles = n]
    BY <1>1 DEF Took, PutFlags, Put
  <2> HIDE DEF t, f, b
  <2>2. Stays(u, t) /\ t.sp = u.sp /\ t.reg = [u.reg EXCEPT ![r] = b]
    BY <2>1 DEF Stays, SameMemory, CpuType, CpuFields
  <2> QED BY <2>2 DEF t, b
<1>3. Get(u, r) = u.reg[r]
  BY <1>1 DEF Get
<1>4. \E changed, set, n :
         op_inc(u, r) = Took(PutFlags(Put(u, r, u.reg[r] + 1), changed, set), n)
  BY <1>3 DEF op_inc
<1>5. \E changed, set, n :
         op_dec(u, r) = Took(PutFlags(Put(u, r, u.reg[r] - 1), changed, set), n)
  BY <1>3 DEF op_dec
<1>6. ASSUME NEW t, NEW v, \E changed, set, n : t = Took(PutFlags(Put(u, r, v), changed, set), n)
      PROVE  Stays(u, t) /\ t.sp = u.sp /\ t.reg = [u.reg EXCEPT ![r] = W8(v)]
  BY <1>2, <1>6
<1> QED BY <1>4, <1>5, <1>6

LEMMA CountsPair ==
    ASSUME NEW u \in CpuType, NEW p \in {"BC", "DE", "HL", "SP"}, NEW v \in Int, NEW n
    PROVE  LET t == Took(Put16(u, p, v), n)
           IN  /\ Stays(u, t)
               /\ p = "SP" => t.sp = W16(v) /\ t.reg = u.reg
               /\ p # "SP" => /\ t.sp = u.sp
                              /\ t.reg = [u.reg EXCEPT ![HighOf(p)] = W16(v) \div 256,
                                                       ![LowOf(p)] = W8(v)]
<1> DEFINE t == Took(Put16(u, p, v), n)
<1>1. CASE p = "SP"
  <2> DEFINE m == W16(v)
  <2>1. t = [[u EXCEPT !.sp = m] EXCEPT !.cycles = n]
    BY <1>1 DEF Took, Put16
  <2> HIDE DEF t, m
  <2>2. Stays(u, t) /\ t.sp = m /\ t.reg = u.reg
    BY <2>1 DEF Stays, SameMemory, CpuType, CpuFields
  <2> QED BY <1>1, <2>2 DEF t, m
<1>2. CASE p # "SP"
  <2> DEFINE h == HighOf(p)
             l == LowOf(p)
             m == W16(v) \div 256
             b == W8(v)
  <2>1. t = [[u EXCEPT !.reg[h] = m, !.reg[l] = b] EXCEPT !.cycles = n]
    BY <1>2 DEF Took, Put16
  <2> HIDE DEF t, h, l, m, b
  <2>2. Stays(u, t) /\ t.sp = u.sp /\ t.reg = [u.reg EXCEPT ![h] = m, ![l] = b]
    BY <2>1 DEF Stays, SameMemory, CpuType, CpuFields
  <2> QED BY <1>2, <2>2 DEF t, h, l, m, b
<1> QED BY <1>1, <1>2

LEMMA TurnsA ==
    ASSUME NEW u \in CpuType, NEW y \in 0..3
    PROVE  LET t == op_turn_a(u, y)
               e == Turn(y, u.reg["A"], u.f)
           IN  /\ Stays(u, t) /\ t.sp = u.sp
               /\ t.reg = [u.reg EXCEPT !["A"] = W8(e[1])]
               /\ "CARRY" \in t.f <=> e[2] = 1
<1> DEFINE e == Turn(y, u.reg["A"], u.f)
           t == op_turn_a(u, y)
           b == W8(e[1])
           z == ZeroFlag(e[1])
           c == When(e[2] = 1, "CARRY")
<1>1. "A" # "IND_HL" /\ Get(u, "A") = u.reg["A"]
  BY DEF Get
<1>2. op_turn(u, y, "A") = [[[u EXCEPT !.reg["A"] = b] EXCEPT !.f = z \cup c] EXCEPT !.cycles = 2]
  BY <1>1 DEF op_turn, Took, Put
<1>3. t = [[[[[u EXCEPT !.reg["A"] = b] EXCEPT !.f = z \cup c] EXCEPT !.cycles = 2]
             EXCEPT !.f = (z \cup c) \ {"ZERO"}] EXCEPT !.cycles = 1]
  <2> HIDE DEF b, z, c
  <2>1. op_turn(u, y, "A").f = z \cup c
    BY <1>2 DEF CpuType, CpuFields
  <2> QED BY <1>2, <2>1 DEF op_turn_a, Took
<1>4. "CARRY" \in (z \cup c) \ {"ZERO"} <=> e[2] = 1
  <2> HIDE DEF e
  <2> QED BY DEF ZeroFlag, When
<1> HIDE DEF t, b, z, c
<1>5. /\ Stays(u, t) /\ t.sp = u.sp /\ t.reg = [u.reg EXCEPT !["A"] = b]
      /\ t.f = (z \cup c) \ {"ZERO"}
  BY <1>3 DEF Stays, SameMemory, CpuType, CpuFields
<1> QED BY <1>4, <1>5 DEF t, b

LEMMA Complements ==
    ASSUME NEW u \in CpuType
    PROVE  LET t == op_cpl(u)
           IN  /\ Stays(u, t) /\ t.sp = u.sp
               /\ t.reg = [u.reg EXCEPT !["A"] = W8(255 - u.reg["A"])]
<1> DEFINE b == W8(255 - u.reg["A"])
           f == (u.f \ {}) \cup {"SUB", "HCARRY"}
           t == op_cpl(u)
<1>1. t = [[[u EXCEPT !.reg["A"] = b] EXCEPT !.f = f] EXCEPT !.cycles = 1]
  <2>1. Put(u, "A", 255 - u.reg["A"]) = [u EXCEPT !.reg["A"] = b]
    BY DEF Put
  <2>2. [u EXCEPT !.reg["A"] = b].f = u.f
    BY DEF CpuType, CpuFields
  <2> HIDE DEF b
  <2> QED BY <2>1, <2>2 DEF op_cpl, Took, PutFlags
<1> HIDE DEF t, b, f
<1>2. Stays(u, t) /\ t.sp = u.sp /\ t.reg = [u.reg EXCEPT !["A"] = b]
  BY <1>1 DEF Stays, SameMemory, CpuType, CpuFields
<1> QED BY <1>2 DEF t, b

\* An instruction of that kind leads to the next byte of the program.
LEMMA LeadsOn ==
    ASSUME NEW s \in CpuType, ~s.is_halted, Stays(ADVANCE_PC(s, 1), Execute(s))
    PROVE  LET t == Execute(s)
           IN  /\ t \in CpuType /\ ~t.is_halted /\ t.pc = W16(s.pc + 1)
               /\ SameMemory(s, t) /\ N8(t) = Second(s)
<1> DEFINE u == ADVANCE_PC(s, 1)
           t == Execute(s)
<1>1. u \in CpuType /\ u.pc = W16(s.pc + 1) /\ SameMemory(s, u) /\ u.is_halted = s.is_halted
  <2>1. u.is_halted = s.is_halted
    BY DEF ADVANCE_PC, CpuType, CpuFields
  <2> QED BY <2>1, Fetched
<1>2. t \in CpuType
  BY ExecuteEnds DEF Lands
<1>3. SameMemory(s, t) /\ t.pc = u.pc /\ ~t.is_halted
  <2> HIDE DEF u, t
  <2>1. Stays(u, t)
    BY DEF u, t
  <2> QED BY <1>1, <2>1 DEF Stays, SameMemory
<1>4. N8(t) = N8(u)
  <2>1. u.pc \in Int
    BY <1>1, Fields, Words
  <2>2. monitor_rd_mem(t, u.pc) = monitor_rd_mem(u, u.pc)
    BY <2>1, SameReads DEF Stays
  <2> QED BY <1>3, <2>2 DEF N8
<1> QED BY <1>1, <1>2, <1>3, <1>4 DEF Second

\* After two instructions of one byte: the registers are as before, and so is
\* memory but for what lies below the stack.
Restores(s, t) ==
    /\ t.reg = s.reg /\ t.sp = s.sp /\ t.pc = W16(s.pc + 2)
    /\ \A b \in Int : W16(b) \notin BelowStack(s.sp)
          => monitor_rd_mem(t, b) = monitor_rd_mem(s, b)

LEMMA TwoBytes ==
    ASSUME NEW s \in CpuType
    PROVE  W16(W16(s.pc + 1) + 1) = W16(s.pc + 2)
<1>1. s.pc \in Int /\ 1 \in Int
  BY Fields, Words
<1>2. s.pc + 1 \in Int /\ s.pc + 1 + 1 = s.pc + 2
  BY <1>1
<1>3. W16(W16(s.pc + 1) + 1) = W16(s.pc + 1 + 1)
  BY <1>1, <1>2, StepTwice, Zenon
<1> QED BY <1>2, <1>3

LEMMA UndoneInPlace ==
    ASSUME NEW s \in CpuType, ~s.is_halted, NEW mid, mid = Execute(s),
           Stays(ADVANCE_PC(s, 1), mid), Stays(ADVANCE_PC(mid, 1), Execute(mid)),
           Execute(mid).reg = s.reg, Execute(mid).sp = s.sp
    PROVE  Restores(s, Execute(mid))
<1> DEFINE t == Execute(mid)
<1>1. mid \in CpuType /\ ~mid.is_halted /\ mid.pc = W16(s.pc + 1) /\ SameMemory(s, mid)
  BY LeadsOn
<1>2. t.pc = W16(mid.pc + 1) /\ SameMemory(mid, t)
  BY <1>1, LeadsOn
<1> HIDE DEF t
<1>3. SameMemory(s, t)
  BY <1>1, <1>2 DEF SameMemory
<1>4. \A b \in Int : monitor_rd_mem(t, b) = monitor_rd_mem(s, b)
  BY <1>3, SameReads
<1>5. t.reg = s.reg /\ t.sp = s.sp
  BY DEF t
<1> QED BY <1>1, <1>2, <1>4, <1>5, TwoBytes DEF Restores, t

LEMMA IncDecRegister ==
    ASSUME NEW s \in CpuType, ~s.is_halted, NEW y \in Field, y # 6,
           N8(s) = 8 * y + 4, Second(s) = 8 * y + 5
    PROVE  Restores(s, Execute(Execute(s)))
<1> DEFINE r == Operand[y + 1]
           u == ADVANCE_PC(s, 1)
           mid == Execute(s)
           w == ADVANCE_PC(mid, 1)
           t == Execute(mid)
<1>1. r \in Registers
  BY Fields8
<1>2. u \in CpuType /\ u.reg = s.reg /\ u.sp = s.sp
  BY Fetched
<1>3. mid = op_inc(u, r)
  BY Quarter0
<1> HIDE DEF r, u
<1>4. /\ Stays(u, mid) /\ mid.sp = s.sp
      /\ mid.reg = [s.reg EXCEPT ![r] = W8(s.reg[r] + 1)]
  <2>1. /\ Stays(u, mid) /\ mid.sp = u.sp
        /\ mid.reg = [u.reg EXCEPT ![r] = W8(u.reg[r] + 1)]
    BY <1>1, <1>2, <1>3, CountsRegister, ZenonT(40)
  <2> QED BY <1>2, <2>1
<1>5. mid \in CpuType /\ ~mid.is_halted /\ N8(mid) = 8 * y + 5
  BY <1>4, LeadsOn DEF u
<1>6. w \in CpuType /\ w.reg = mid.reg /\ w.sp = mid.sp
  BY <1>5, Fetched
<1>7. t = op_dec(w, r)
  BY <1>5, Quarter0 DEF r
<1> HIDE DEF w, mid, t
<1>8. Stays(w, t) /\ t.sp = s.sp /\ t.reg = [mid.reg EXCEPT ![r] = W8(mid.reg[r] - 1)]
  <2>1. Stays(w, t) /\ t.sp = w.sp /\ t.reg = [w.reg EXCEPT ![r] = W8(w.reg[r] - 1)]
    BY <1>1, <1>6, <1>7, CountsRegister
  <2>2. w.reg = mid.reg /\ w.sp = s.sp
    BY <1>4, <1>6, Zenon
  <2> QED BY <2>1, <2>2
<1>9. t.reg = s.reg
  <2>1. s.reg \in [Registers -> Byte]
    BY DEF CpuType, CpuFields
  <2>2. mid.reg[r] = W8(s.reg[r] + 1)
    BY <1>1, <1>4, <2>1
  <2>3. W8(W8(s.reg[r] + 1) - 1) = s.reg[r]
    <3> DEFINE v == s.reg[r]
    <3>1. v \in Int /\ 0 <= v /\ v < 256
      BY <1>1, <2>1, Ranges
    <3> HIDE DEF v
    <3>2. W8(W8(v + 1) - 1) = v
      BY <3>1 DEF W8
    <3> QED BY <3>2 DEF v
  <2> QED BY <1>1, <1>4, <1>8, <2>1, <2>2, <2>3
<1>10. /\ Stays(ADVANCE_PC(s, 1), mid) /\ Stays(ADVANCE_PC(mid, 1), Execute(mid))
       /\ mid = Execute(s) /\ Execute(mid).reg = s.reg /\ Execute(mid).sp = s.sp
  BY <1>4, <1>8, <1>9 DEF u, w, mid, t
<1> QED BY <1>10, UndoneInPlace DEF mid

\* A word in two registers.
LEMMA PairBack ==
    ASSUME NEW s \in CpuType, NEW p \in {"BC", "DE", "HL"}
    PROVE  /\ HighOf(p) \in Registers /\ LowOf(p) \in Registers /\ HighOf(p) # LowOf(p)
           /\ Get16(s, p) = 256 * s.reg[HighOf(p)] + s.reg[LowOf(p)]
           /\ Get16(s, p) \div 256 = s.reg[HighOf(p)] /\ W8(Get16(s, p)) = s.reg[LowOf(p)]
           /\ Get16(s, p) \in Word
<1>1. HighOf(p) \in Registers /\ LowOf(p) \in Registers /\ HighOf(p) # LowOf(p)
  BY DEF HighOf, LowOf, Registers
<1>2. Get16(s, p) = 256 * s.reg[HighOf(p)] + s.reg[LowOf(p)]
  BY DEF Get16
<1> DEFINE h == s.reg[HighOf(p)]
           l == s.reg[LowOf(p)]
<1>3. h \in Int /\ 0 <= h /\ h < 256 /\ l \in Int /\ 0 <= l /\ l < 256
  BY <1>1, Fields, Ranges
<1> HIDE DEF h, l
<1>4. (256 * h + l) \div 256 = h /\ W8(256 * h + l) = l /\ 256 * h + l \in Word
  BY <1>3, Ranges DEF W8
<1> QED BY <1>1, <1>2, <1>4 DEF h, l

LEMMA IncDecPair ==
    ASSUME NEW s \in CpuType, ~s.is_halted, NEW q \in 0..3,
           N8(s) = 16 * q + 3, Second(s) = 16 * q + 11
    PROVE  Restores(s, Execute(Execute(s)))
<1> DEFINE p == Pair[q + 1]
           u == ADVANCE_PC(s, 1)
           mid == Execute(s)
           w == ADVANCE_PC(mid, 1)
           t == Execute(mid)
           n == Get16(s, p)
<1>1. p \in {"BC", "DE", "HL", "SP"}
  BY DEF Pair
<1>2. u \in CpuType /\ u.reg = s.reg /\ u.sp = s.sp
  BY Fetched
<1>3. mid = op_inc16(u, p)
  BY Quarter0
<1>4. n \in Word /\ n \in Int /\ 0 <= n /\ n < 65536
  <2> HIDE DEF p
  <2> QED BY <1>1, GetType, Ranges DEF Pairs
<1> HIDE DEF p, u, mid, w, t
<1>5. Get16(u, p) = n
  BY <1>1, <1>2 DEF Get16
<1> HIDE DEF n
<1>6. mid = Took(Put16(u, p, n + 1), 2) /\ n + 1 \in Int
  BY <1>3, <1>4, <1>5 DEF op_inc16
<1>7. /\ Stays(u, mid)
      /\ p = "SP" => mid.sp = W16(n + 1) /\ mid.reg = s.reg
      /\ p # "SP" => /\ mid.sp = s.sp
                     /\ mid.reg = [s.reg EXCEPT ![HighOf(p)] = W16(n + 1) \div 256,
                                                ![LowOf(p)] = W8(n + 1)]
  BY <1>1, <1>2, <1>6, CountsPair
<1>8. mid \in CpuType /\ ~mid.is_halted /\ N8(mid) = 16 * q + 11
  BY <1>7, LeadsOn DEF u, mid
<1>9. w \in CpuType /\ w.reg = mid.reg /\ w.sp = mid.sp
  BY <1>8, Fetched DEF w
<1>10. t = op_dec16(w, p)
  BY <1>8, Quarter0 DEF t, w, p
<1>11. /\ W16(W16(n + 1) - 1) = n /\ W8(W16(n + 1) - 1) = W8(n) /\ W16(n + 1) \in Int
       /\ 256 * (W16(n + 1) \div 256) + W8(n + 1) = W16(n + 1)
  BY <1>4 DEF W8, W16
<1>12. Get16(w, p) = W16(n + 1)
  <2>1. CASE p = "SP"
    BY <1>7, <1>9, <2>1 DEF Get16
  <2>2. CASE p # "SP"
    <3>1. p \in {"BC", "DE", "HL"}
      BY <1>1, <2>2
    <3>2. /\ Get16(w, p) = 256 * mid.reg[HighOf(p)] + mid.reg[LowOf(p)]
          /\ HighOf(p) \in Registers /\ LowOf(p) \in Registers /\ HighOf(p) # LowOf(p)
      BY <1>9, <3>1, PairBack
    <3>3. s.reg \in [Registers -> Byte]
      BY DEF CpuType, CpuFields
    <3>4. mid.reg[HighOf(p)] = W16(n + 1) \div 256 /\ mid.reg[LowOf(p)] = W8(n + 1)
      BY <1>7, <2>2, <3>2, <3>3
    <3> QED BY <1>11, <3>2, <3>4
  <2> QED BY <2>1, <2>2
<1> DEFINE m == W16(n + 1) - 1
<1>13. t = Took(Put16(w, p, m), 2) /\ m \in Int
  BY <1>10, <1>11, <1>12 DEF op_dec16
<1> HIDE DEF m
<1>14. W16(m) = n /\ W8(m) = W8(n)
  BY <1>11 DEF m
<1>15. /\ Stays(w, t)
       /\ p = "SP" => t.sp = n /\ t.reg = mid.reg
       /\ p # "SP" => /\ t.sp = mid.sp
                      /\ t.reg = [mid.reg EXCEPT ![HighOf(p)] = n \div 256,
                                                 ![LowOf(p)] = W8(n)]
  BY <1>1, <1>9, <1>13, <1>14, CountsPair
<1>16. t.reg = s.reg /\ t.sp = s.sp
  <2>1. CASE p = "SP"
    <3>1. n = s.sp
      BY <2>1 DEF n, Get16
    <3> QED BY <1>7, <1>15, <2>1, <3>1
  <2>2. CASE p # "SP"
    <3>1. p \in {"BC", "DE", "HL"}
      BY <1>1, <2>2
    <3>2. /\ HighOf(p) \in Registers /\ LowOf(p) \in Registers /\ HighOf(p) # LowOf(p)
          /\ n \div 256 = s.reg[HighOf(p)] /\ W8(n) = s.reg[LowOf(p)]
      BY <3>1, PairBack DEF n
    <3>3. s.reg \in [Registers -> Byte]
      BY DEF CpuType, CpuFields
    <3>4. t.reg = s.reg
      <4> DEFINE h == HighOf(p)
                 l == LowOf(p)
                 a == W16(n + 1) \div 256
                 b == W8(n + 1)
      <4>1. /\ h \in Registers /\ l \in Registers
            /\ t.reg = [[s.reg EXCEPT ![h] = a, ![l] = b]
                           EXCEPT ![h] = s.reg[h], ![l] = s.reg[l]]
        BY <1>7, <1>15, <2>2, <3>2
      <4> HIDE DEF h, l, a, b
      <4> QED BY <3>3, <4>1
    <3> QED BY <1>7, <1>15, <2>2, <3>4
  <2> QED BY <2>1, <2>2
<1>17. Restores(s, t)
  <2>1. Stays(ADVANCE_PC(s, 1), mid) /\ Stays(ADVANCE_PC(mid, 1), Execute(mid))
    BY <1>7, <1>15 DEF u, w, t
  <2>2. mid = Execute(s) /\ Execute(mid).reg = s.reg /\ Execute(mid).sp = s.sp
    BY <1>16 DEF mid, t
  <2> QED BY <2>1, <2>2, UndoneInPlace DEF t
<1> QED BY <1>17 DEF t, mid

\* A rotation reversed is no rotation.
LEMMA TurnedBack ==
    ASSUME NEW v \in Byte, NEW f, NEW g, NEW y \in 0..3, NEW z \in 0..3,
           (y = 0 /\ z = 1) \/ (y = 1 /\ z = 0) \/ (y = 2 /\ z = 3) \/ (y = 3 /\ z = 2),
           "CARRY" \in g <=> Turn(y, v, f)[2] = 1
    PROVE  W8(Turn(z, W8(Turn(y, v, f)[1]), g)[1]) = v
<1>1. v \in Int /\ 0 <= v /\ v < 256
  BY Ranges
<1>2. CarryOf(f) \in {0, 1} /\ CarryOf(g) \in {0, 1} /\ (CarryOf(g) = 1 <=> "CARRY" \in g)
  BY DEF CarryOf
<1> DEFINE h == v \div 128
           r == v % 128
           q == v \div 2
           l == v % 2
           c == CarryOf(f)
           d == CarryOf(g)
<1>3. /\ h \in {0, 1} /\ r \in Int /\ 0 <= r /\ r < 128 /\ v = 128 * h + r
      /\ l \in {0, 1} /\ q \in Int /\ 0 <= q /\ q < 128 /\ v = 2 * q + l
  BY <1>1
<1>4. c \in Int /\ 0 <= c /\ c < 2
  BY <1>2
<1>5. W8(2 * v) = 2 * r
  BY <1>1 DEF W8
<1>6. CASE y = 0 /\ z = 1
  <2>1. Turn(y, v, f)[1] = W8(2 * v) + h
    BY <1>6 DEF Turn, DO_RLC, Top
  <2> DEFINE m == W8(Turn(y, v, f)[1])
  <2>2. Turn(z, m, g)[1] = m \div 2 + 128 * (m % 2)
    BY <1>6 DEF Turn, DO_RRC, Low
  <2> HIDE DEF h, r
  <2>3. m = 2 * r + h
    BY <1>3, <1>5, <2>1 DEF W8
  <2> HIDE DEF m
  <2>4. m \div 2 = r /\ m % 2 = h
    BY <1>3, <2>3
  <2>5. W8(r + 128 * h) = v
    BY <1>3 DEF W8
  <2> QED BY <2>2, <2>4, <2>5 DEF m
<1>7. CASE y = 1 /\ z = 0
  <2>1. Turn(y, v, f)[1] = q + 128 * l
    BY <1>7 DEF Turn, DO_RRC, Low
  <2> DEFINE m == W8(Turn(y, v, f)[1])
  <2>2. Turn(z, m, g)[1] = W8(2 * m) + m \div 128
    BY <1>7 DEF Turn, DO_RLC, Top
  <2> HIDE DEF q, l
  <2>3. m = q + 128 * l
    BY <1>3, <2>1 DEF W8
  <2> HIDE DEF m
  <2>4. m \div 128 = l /\ W8(2 * m) = 2 * q
    BY <1>3, <2>3 DEF W8
  <2>5. W8(2 * q + l) = v
    BY <1>3 DEF W8
  <2> QED BY <2>2, <2>4, <2>5 DEF m
<1>8. CASE y = 2 /\ z = 3
  <2>1. Turn(y, v, f) = <<W8(2 * v) + c, h>>
    BY <1>8 DEF Turn, DO_RL, Top
  <2>2. d = h
    BY <1>2, <1>3, <2>1
  <2> DEFINE m == W8(Turn(y, v, f)[1])
  <2>3. Turn(z, m, g)[1] = m \div 2 + 128 * d
    BY <1>8 DEF Turn, DO_RR
  <2> HIDE DEF h, r, c, d
  <2>4. m = 2 * r + c
    BY <1>3, <1>4, <1>5, <2>1 DEF W8
  <2> HIDE DEF m
  <2>5. m \div 2 = r
    BY <1>3, <1>4, <2>4
  <2>6. W8(r + 128 * h) = v
    BY <1>3 DEF W8
  <2> QED BY <2>2, <2>3, <2>5, <2>6 DEF m
<1>9. CASE y = 3 /\ z = 2
  <2>1. Turn(y, v, f) = <<q + 128 * c, l>>
    BY <1>9 DEF Turn, DO_RR, Low
  <2>2. d = l
    BY <1>2, <1>3, <2>1
  <2> DEFINE m == W8(Turn(y, v, f)[1])
  <2>3. Turn(z, m, g)[1] = W8(2 * m) + d
    BY <1>9 DEF Turn, DO_RL
  <2> HIDE DEF q, l, c, d
  <2>4. m = q + 128 * c
    BY <1>3, <1>4, <2>1 DEF W8
  <2> HIDE DEF m
  <2>5. W8(2 * m) = 2 * q
    BY <1>3, <1>4, <2>4 DEF W8
  <2>6. W8(2 * q + l) = v
    BY <1>3 DEF W8
  <2> QED BY <2>2, <2>3, <2>5, <2>6 DEF m
<1> QED BY <1>6, <1>7, <1>8, <1>9

LEMMA TurnsUndone ==
    ASSUME NEW s \in CpuType, ~s.is_halted, NEW y \in 0..3, NEW z \in 0..3,
           (y = 0 /\ z = 1) \/ (y = 1 /\ z = 0) \/ (y = 2 /\ z = 3) \/ (y = 3 /\ z = 2),
           N8(s) = 8 * y + 7, Second(s) = 8 * z + 7
    PROVE  Restores(s, Execute(Execute(s)))
<1> DEFINE u == ADVANCE_PC(s, 1)
           mid == Execute(s)
           w == ADVANCE_PC(mid, 1)
           t == Execute(mid)
           a == s.reg["A"]
           e == Turn(y, a, s.f)
<1>1. u \in CpuType /\ u.reg = s.reg /\ u.sp = s.sp /\ u.f = s.f
  BY Fetched
<1>2. mid = op_turn_a(u, y)
  BY Quarter0
<1> HIDE DEF u, mid, w, t
<1>3. /\ Stays(u, mid) /\ mid.sp = s.sp
      /\ mid.reg = [s.reg EXCEPT !["A"] = W8(e[1])]
      /\ "CARRY" \in mid.f <=> e[2] = 1
  <2>1. e = Turn(y, u.reg["A"], u.f)
    BY <1>1
  <2> HIDE DEF e
  <2>2. /\ Stays(u, mid) /\ mid.sp = u.sp
        /\ mid.reg = [u.reg EXCEPT !["A"] = W8(e[1])]
        /\ "CARRY" \in mid.f <=> e[2] = 1
    BY <1>1, <1>2, <2>1, TurnsA, Zenon
  <2> QED BY <1>1, <2>2
<1>4. mid \in CpuType /\ ~mid.is_halted /\ N8(mid) = 8 * z + 7
  BY <1>3, LeadsOn DEF u, mid
<1>5. w \in CpuType /\ w.reg = mid.reg /\ w.sp = mid.sp /\ w.f = mid.f
  BY <1>4, Fetched DEF w
<1>6. t = op_turn_a(w, z)
  BY <1>4, Quarter0 DEF t, w
<1>7. /\ Stays(w, t) /\ t.sp = s.sp
      /\ t.reg = [mid.reg EXCEPT !["A"] = W8(Turn(z, mid.reg["A"], mid.f)[1])]
  <2>1. /\ Stays(w, t) /\ t.sp = w.sp
        /\ t.reg = [w.reg EXCEPT !["A"] = W8(Turn(z, w.reg["A"], w.f)[1])]
    BY <1>5, <1>6, TurnsA
  <2>2. w.reg = mid.reg /\ w.sp = s.sp /\ w.f = mid.f
    BY <1>3, <1>5, Zenon
  <2> QED BY <2>1, <2>2
<1>8. t.reg = s.reg
  <2>1. s.reg \in [Registers -> Byte] /\ "A" \in Registers
    BY DEF CpuType, CpuFields, Registers
  <2>2. mid.reg["A"] = W8(e[1]) /\ a \in Byte
    BY <1>3, <2>1
  <2>3. W8(Turn(z, W8(e[1]), mid.f)[1]) = a
    <3>1. "CARRY" \in mid.f <=> Turn(y, a, s.f)[2] = 1
      BY <1>3
    <3> HIDE DEF a
    <3> QED BY <2>2, <3>1, TurnedBack
  <2> HIDE DEF e
  <2> QED BY <1>3, <1>7, <2>1, <2>2, <2>3
<1>9. /\ Stays(ADVANCE_PC(s, 1), mid) /\ Stays(ADVANCE_PC(mid, 1), Execute(mid))
      /\ mid = Execute(s) /\ Execute(mid).reg = s.reg /\ Execute(mid).sp = s.sp
  BY <1>3, <1>7, <1>8 DEF u, w, mid, t
<1> QED BY <1>9, UndoneInPlace DEF mid

LEMMA ComplementUndone ==
    ASSUME NEW s \in CpuType, ~s.is_halted, N8(s) = 47, Second(s) = 47
    PROVE  Restores(s, Execute(Execute(s)))
<1> DEFINE u == ADVANCE_PC(s, 1)
           mid == Execute(s)
           w == ADVANCE_PC(mid, 1)
           t == Execute(mid)
<1>1. u \in CpuType /\ u.reg = s.reg /\ u.sp = s.sp
  BY Fetched
<1>2. mid = op_cpl(u)
  BY Quarter0
<1> HIDE DEF u, mid, w, t
<1>3. /\ Stays(u, mid) /\ mid.sp = s.sp
      /\ mid.reg = [s.reg EXCEPT !["A"] = W8(255 - s.reg["A"])]
  BY <1>1, <1>2, Complements
<1>4. mid \in CpuType /\ ~mid.is_halted /\ N8(mid) = 47
  BY <1>3, LeadsOn DEF u, mid
<1>5. w \in CpuType /\ w.reg = mid.reg /\ w.sp = mid.sp
  BY <1>4, Fetched DEF w
<1>6. t = op_cpl(w)
  BY <1>4, Quarter0 DEF t, w
<1>7. /\ Stays(w, t) /\ t.sp = s.sp
      /\ t.reg = [mid.reg EXCEPT !["A"] = W8(255 - mid.reg["A"])]
  <2>1. /\ Stays(w, t) /\ t.sp = w.sp
        /\ t.reg = [w.reg EXCEPT !["A"] = W8(255 - w.reg["A"])]
    BY <1>5, <1>6, Complements
  <2>2. w.reg = mid.reg /\ w.sp = s.sp
    BY <1>3, <1>5, Zenon
  <2> QED BY <2>1, <2>2
<1>8. t.reg = s.reg
  <2>1. s.reg \in [Registers -> Byte] /\ "A" \in Registers
    BY DEF CpuType, CpuFields, Registers
  <2> DEFINE a == s.reg["A"]
  <2>2. a \in Int /\ 0 <= a /\ a < 256
    BY <2>1, Ranges
  <2>3. mid.reg["A"] = W8(255 - a)
    BY <1>3, <2>1
  <2>4. W8(255 - W8(255 - a)) = a
    <3> HIDE DEF a
    <3> QED BY <2>2 DEF W8
  <2> QED BY <1>3, <1>7, <2>1, <2>3, <2>4
<1>9. /\ Stays(ADVANCE_PC(s, 1), mid) /\ Stays(ADVANCE_PC(mid, 1), Execute(mid))
      /\ mid = Execute(s) /\ Execute(mid).reg = s.reg /\ Execute(mid).sp = s.sp
  BY <1>3, <1>7, <1>8 DEF u, w, mid, t
<1> QED BY <1>9, UndoneInPlace DEF mid

\* INC (HL) and DEC (HL): a byte of memory is counted, all else is kept.
LEMMA CountsMemory ==
    ASSUME NEW u \in CpuType, Keeps(HL(u))
    PROVE  LET b == monitor_rd_mem(u, HL(u))
               Counted(t, v) ==
                  /\ t.pc = u.pc /\ t.is_halted = u.is_halted
                  /\ t.reg = u.reg /\ t.sp = u.sp
                  /\ monitor_rd_mem(t, HL(u)) = v
                  /\ \A a \in Int : W16(a) # HL(u)
                        => monitor_rd_mem(t, a) = monitor_rd_mem(u, a)
           IN  /\ Counted(op_inc(u, "IND_HL"), W8(b + 1))
               /\ Counted(op_dec(u, "IND_HL"), W8(b - 1))
<1> DEFINE h == HL(u)
           b == monitor_rd_mem(u, h)
           Counted(t, v) ==
              /\ t.pc = u.pc /\ t.is_halted = u.is_halted
              /\ t.reg = u.reg /\ t.sp = u.sp
              /\ monitor_rd_mem(t, h) = v
              /\ \A a \in Int : W16(a) # h
                    => monitor_rd_mem(t, a) = monitor_rd_mem(u, a)
<1>1. h \in Word /\ h \in Int /\ W16(h) = h /\ Keeps(h)
  BY GetType, Words, Widths
<1>2. b \in Byte /\ b \in Int
  BY <1>1, ReadType, Words
<1>3. Get(u, "IND_HL") = b
  BY DEF Get
<1> HIDE DEF h, b
<1>4. ASSUME NEW t, NEW v \in Int,
             \E changed, set, n : t = Took(PutFlags(Put(u, "IND_HL", v), changed, set), n)
      PROVE  Counted(t, W8(v))
  <2> DEFINE w == monitor_wr_mem(u, h, v)
  <2>1. w \in CpuType /\ Wrote(u, w)
    BY <1>1, WriteType
  <2>2. /\ monitor_rd_mem(w, h) = W8(v)
        /\ \A a \in Int : W16(a) # h => monitor_rd_mem(w, a) = monitor_rd_mem(u, a)
    BY <1>1, <1>4, KeptRead
  <2>3. PICK changed, set, n : t = Took(PutFlags(w, changed, set), n)
    BY <1>4 DEF Put, h
  <2> HIDE DEF w
  <2>4. /\ t.pc = w.pc /\ t.is_halted = w.is_halted /\ t.reg = w.reg /\ t.sp = w.sp
        /\ SameMemory(w, t)
    BY <2>1, <2>3 DEF Took, PutFlags, SameMemory, CpuType, CpuFields
  <2>5. \A a \in Int : monitor_rd_mem(t, a) = monitor_rd_mem(w, a)
    BY <2>4, SameReads
  <2> QED BY <1>1, <2>1, <2>2, <2>4, <2>5 DEF Wrote
<1>5. \E changed, set, n :
         op_inc(u, "IND_HL") = Took(PutFlags(Put(u, "IND_HL", b + 1), changed, set), n)
  BY <1>3 DEF op_inc
<1>6. \E changed, set, n :
         op_dec(u, "IND_HL") = Took(PutFlags(Put(u, "IND_HL", b - 1), changed, set), n)
  BY <1>3 DEF op_dec
<1>7. b + 1 \in Int /\ b - 1 \in Int
  BY <1>2
<1> HIDE DEF Counted
<1>8. Counted(op_inc(u, "IND_HL"), W8(b + 1)) /\ Counted(op_dec(u, "IND_HL"), W8(b - 1))
  BY <1>4, <1>5, <1>6, <1>7
<1> QED BY <1>8 DEF Counted, b, h

LEMMA IncDecMemory ==
    ASSUME NEW s, Ready(s), N8(s) = 52, Second(s) = 53
    PROVE  Restores(s, Execute(Execute(s)))
<1> DEFINE u == ADVANCE_PC(s, 1)
           mid == Execute(s)
           w == ADVANCE_PC(mid, 1)
           t == Execute(mid)
           h == HL(s)
           b == monitor_rd_mem(s, h)
<1>1. s \in CpuType /\ ~s.is_halted /\ s.pc = CodeBase /\ h = DataBase
  BY DEF Ready
<1>2. /\ u \in CpuType /\ u.pc = W16(s.pc + 1) /\ u.reg = s.reg /\ u.sp = s.sp
      /\ SameMemory(s, u) /\ \A a \in Int : monitor_rd_mem(u, a) = monitor_rd_mem(s, a)
      /\ u.is_halted = s.is_halted
  <2>1. u.is_halted = s.is_halted
    BY <1>1 DEF ADVANCE_PC, CpuType, CpuFields
  <2> QED BY <1>1, <2>1, Fetched
<1>3. 6 \in Field /\ Operand[6 + 1] = "IND_HL" /\ 8 * 6 + 4 = 52 /\ 8 * 6 + 5 = 53
  BY DEF Field, Operand
<1>4. mid = op_inc(u, "IND_HL")
  BY <1>1, <1>3, Quarter0
<1>5. mid \in CpuType
  BY <1>1, ExecuteEnds DEF Lands
<1>6. Keeps(h) /\ h \in Int /\ W16(h) = h /\ W16(s.pc + 1) # h /\ W16(s.pc + 1) \in Int
  BY <1>1, IoNames DEF Keeps, DataBase, CodeBase, CartridgeEnd, BankSize, W16, Io
<1>7. b \in Int /\ 0 <= b /\ b < 256
  BY <1>1, <1>6, ReadType, Ranges
<1> HIDE DEF u, mid, t, h
<1>8. HL(u) = h
  BY <1>2 DEF HL, Get16, h
<1> HIDE DEF b
<1>9. monitor_rd_mem(u, HL(u)) = b
  BY <1>2, <1>6, <1>8 DEF b
<1>10. /\ mid.pc = u.pc /\ ~mid.is_halted /\ mid.reg = s.reg /\ mid.sp = s.sp
       /\ monitor_rd_mem(mid, h) = W8(b + 1)
       /\ \A a \in Int : W16(a) # h => monitor_rd_mem(mid, a) = monitor_rd_mem(s, a)
  BY <1>1, <1>2, <1>4, <1>6, <1>8, <1>9, CountsMemory
<1>11. N8(mid) = 53
  <2>1. W16(mid.pc) = mid.pc /\ mid.pc \in Int
    BY <1>5, Fields, Widths, Words
  <2>2. monitor_rd_mem(mid, mid.pc) = monitor_rd_mem(u, u.pc)
    BY <1>2, <1>6, <1>10, <2>1
  <2> QED BY <2>2 DEF N8, Second, u
<1>12. /\ w \in CpuType /\ w.pc = W16(mid.pc + 1) /\ w.reg = mid.reg /\ w.sp = mid.sp
       /\ \A a \in Int : monitor_rd_mem(w, a) = monitor_rd_mem(mid, a)
  BY <1>5, Fetched
<1>13. t = op_dec(w, "IND_HL")
  BY <1>3, <1>5, <1>10, <1>11, Quarter0 DEF t
<1> HIDE DEF w
<1>14. HL(w) = h
  BY <1>10, <1>12 DEF HL, Get16, h
<1>15. monitor_rd_mem(w, HL(w)) = W8(b + 1)
  BY <1>6, <1>10, <1>12, <1>14
<1>16. /\ t.pc = w.pc /\ t.reg = w.reg /\ t.sp = w.sp
       /\ monitor_rd_mem(t, h) = W8(W8(b + 1) - 1)
       /\ \A a \in Int : W16(a) # h => monitor_rd_mem(t, a) = monitor_rd_mem(w, a)
  BY <1>6, <1>12, <1>13, <1>14, <1>15, CountsMemory
<1>17. W8(W8(b + 1) - 1) = b
  BY <1>7 DEF W8
<1>18. t.reg = s.reg /\ t.sp = s.sp /\ t.pc = W16(s.pc + 2)
  BY <1>1, <1>2, <1>10, <1>12, <1>16, TwoBytes
<1>19. ASSUME NEW a \in Int PROVE monitor_rd_mem(t, a) = monitor_rd_mem(s, a)
  <2>1. CASE W16(a) = h
    <3>1. monitor_rd_mem(t, a) = monitor_rd_mem(t, h) /\ monitor_rd_mem(s, a) = monitor_rd_mem(s, h)
      BY <1>6, <2>1 DEF monitor_rd_mem
    <3> QED BY <1>16, <1>17, <3>1 DEF b
  <2>2. CASE W16(a) # h
    BY <1>10, <1>12, <1>16, <2>2
  <2> QED BY <2>1, <2>2
<1> QED BY <1>18, <1>19 DEF Restores, t, mid

\* F goes through the stack in its four bits.
LEMMA FlagsBack ==
    ASSUME NEW f \in SUBSET Flags
    PROVE  FlagByte(f) \in Byte /\ FlagsOf(FlagByte(f)) = f
<1> DEFINE z == IF "ZERO" \in f THEN 1 ELSE 0
           n == IF "SUB" \in f THEN 1 ELSE 0
           h == IF "HCARRY" \in f THEN 1 ELSE 0
           c == IF "CARRY" \in f THEN 1 ELSE 0
           b == 128 * z + 64 * n + 32 * h + 16 * c
<1>1. /\ z \in Int /\ n \in Int /\ h \in Int /\ c \in Int
      /\ 0 <= z /\ z < 2 /\ 0 <= n /\ n < 2 /\ 0 <= h /\ h < 2 /\ 0 <= c /\ c < 2
  OBVIOUS
<1>2. FlagByte(f) = b
  BY DEF FlagByte
<1>3. /\ z = 1 <=> "ZERO" \in f
      /\ n = 1 <=> "SUB" \in f
      /\ h = 1 <=> "HCARRY" \in f
      /\ c = 1 <=> "CARRY" \in f
  OBVIOUS
<1> HIDE DEF z, n, h, c
<1>4. b \in Byte
  BY <1>1, Ranges
<1>5. (b \div 128) % 2 = z /\ (b \div 64) % 2 = n /\ (b \div 32) % 2 = h /\ (b \div 16) % 2 = c
  <2>1. b \div 128 = z
    BY <1>1
  <2>2. b \div 64 = 2 * z + n
    BY <1>1
  <2>3. b \div 32 = 4 * z + 2 * n + h
    BY <1>1
  <2>4. b \div 16 = 8 * z + 4 * n + 2 * h + c
    BY <1>1
  <2> HIDE DEF b
  <2> QED BY <1>1, <2>1, <2>2, <2>3, <2>4
<1> HIDE DEF b
<1>6. Bit(b, 7) = z /\ Bit(b, 6) = n /\ Bit(b, 5) = h /\ Bit(b, 4) = c
  <2>1. 2^7 = 128 /\ 2^6 = 64 /\ 2^5 = 32 /\ 2^4 = 16
    OBVIOUS
  <2> QED BY <1>5, <2>1 DEF Bit
<1>7. ASSUME NEW flag \in Flags PROVE flag \in FlagsOf(b) <=> flag \in f
  <2>1. CASE flag = "ZERO"
    BY <1>3, <1>6, <2>1 DEF FlagsOf, Flags
  <2>2. CASE flag = "SUB"
    BY <1>3, <1>6, <2>2 DEF FlagsOf, Flags
  <2>3. CASE flag = "HCARRY"
    BY <1>3, <1>6, <2>3 DEF FlagsOf, Flags
  <2>4. CASE flag = "CARRY"
    BY <1>3, <1>6, <2>4 DEF FlagsOf, Flags
  <2> QED BY <2>1, <2>2, <2>3, <2>4 DEF Flags
<1>8. FlagsOf(b) \subseteq Flags
  BY DEF FlagsOf
<1>9. FlagsOf(b) = f
  BY <1>7, <1>8
<1> QED BY <1>2, <1>4, <1>9

\* The word of a pair, put back into the pair.
LEMMA PairPutBack ==
    ASSUME NEW s \in CpuType, NEW w \in CpuType, w.reg = s.reg,
           NEW p \in {"BC", "DE", "HL", "AF"}
    PROVE  LET t == Put16(w, p, Get16(s, p))
           IN  /\ t.reg = s.reg /\ (p = "AF" => t.f = s.f)
               /\ t.pc = w.pc /\ t.is_halted = w.is_halted /\ t.sp = w.sp
               /\ SameMemory(w, t)
<1> DEFINE v == Get16(s, p)
           t == Put16(w, p, v)
<1>1. v \in Word /\ v \in Int /\ W16(v) = v
  BY GetType, Widths, Words DEF Pairs
<1>2. s.reg \in [Registers -> Byte] /\ "A" \in Registers
  BY DEF CpuType, CpuFields, Registers
<1>3. CASE p = "AF"
  <2> DEFINE a == s.reg["A"]
             b == FlagByte(s.f)
  <2>1. v = 256 * a + b
    BY <1>3 DEF Get16
  <2>2. FlagsOf(b) = s.f /\ b \in Byte /\ a \in Byte
    BY <1>2, Fields, FlagsBack
  <2> HIDE DEF a, b, v
  <2>3. v \div 256 = a /\ W8(v) = b
    <3>1. a \in Int /\ 0 <= a /\ a < 256 /\ b \in Int /\ 0 <= b /\ b < 256
      BY <2>2, Ranges
    <3> QED BY <2>1, <3>1 DEF W8
  <2>4. t = [w EXCEPT !.reg["A"] = a, !.f = s.f]
    BY <1>1, <1>3, <2>2, <2>3 DEF Put16
  <2> HIDE DEF t
  <2>5. /\ t.reg = [w.reg EXCEPT !["A"] = a] /\ t.f = s.f
        /\ t.pc = w.pc /\ t.is_halted = w.is_halted /\ t.sp = w.sp /\ SameMemory(w, t)
    BY <2>4 DEF SameMemory, CpuType, CpuFields
  <2>6. t.reg = s.reg
    BY <1>2, <2>5 DEF a
  <2> QED BY <2>5, <2>6 DEF t, v
<1>4. CASE p # "AF"
  <2> DEFINE h == HighOf(p)
             l == LowOf(p)
             a == v \div 256
             b == W8(v)
  <2>1. p \in {"BC", "DE", "HL"} /\ p # "SP"
    BY <1>4
  <2>2. h \in Registers /\ l \in Registers /\ a = s.reg[h] /\ b = s.reg[l]
    BY <2>1, PairBack
  <2>3. t = [w EXCEPT !.reg[h] = a, !.reg[l] = b]
    BY <1>1, <1>4, <2>1 DEF Put16
  <2> HIDE DEF t, h, l, a, b
  <2>4. /\ t.reg = [w.reg EXCEPT ![h] = a, ![l] = b]
        /\ t.pc = w.pc /\ t.is_halted = w.is_halted /\ t.sp = w.sp /\ SameMemory(w, t)
    BY <2>3 DEF SameMemory, CpuType, CpuFields
  <2>5. t.reg = s.reg
    BY <1>2, <2>2, <2>4
  <2> QED BY <1>4, <2>4, <2>5 DEF t
<1> QED BY <1>3, <1>4

LEMMA PushPop ==
    ASSUME NEW s, Ready(s), NEW q \in 0..3, N8(s) = 16 * q + 197, Second(s) = 16 * q + 193
    PROVE  LET t == Execute(Execute(s)) IN Restores(s, t) /\ (q = 3 => t.f = s.f)
<1> DEFINE p == Stacked[q + 1]
           u == ADVANCE_PC(s, 1)
           v == Get16(s, p)
           mid == Execute(s)
           w == ADVANCE_PC(mid, 1)
           t == Execute(mid)
           e == Push(u, v)
           d == Put16(w, p, v)
<1>1. s \in CpuType /\ ~s.is_halted /\ KeepsWord(s.sp) /\ s.pc = CodeBase /\ Apart(s.sp)
  BY DEF Ready
<1>2. p \in {"BC", "DE", "HL", "AF"} /\ (q = 3 => p = "AF")
  BY DEF Stacked
<1>3. /\ u \in CpuType /\ u.pc = W16(s.pc + 1) /\ u.reg = s.reg /\ u.sp = s.sp /\ u.f = s.f
      /\ \A a \in Int : monitor_rd_mem(u, a) = monitor_rd_mem(s, a)
      /\ u.is_halted = s.is_halted
  <2>1. u.is_halted = s.is_halted
    BY <1>1 DEF ADVANCE_PC, CpuType, CpuFields
  <2> QED BY <1>1, <2>1, Fetched
<1>4. mid = op_push(u, p)
  BY <1>1, Quarter3
<1>5. mid \in CpuType
  BY <1>1, ExecuteEnds DEF Lands
<1> HIDE DEF p, u, mid, w, t
<1>6. Get16(u, p) = v
  BY <1>3 DEF Get16
<1>7. v \in Word
  BY <1>1, <1>2, GetType DEF Pairs
<1> HIDE DEF v
<1>8. /\ e \in CpuType /\ e.pc = u.pc /\ e.is_halted = u.is_halted
      /\ e.reg = u.reg /\ e.f = u.f
  BY <1>3, <1>7, PushType DEF Inside
<1>9. mid = Took(e, 3)
  BY <1>4, <1>6 DEF op_push
<1> HIDE DEF e
<1>10. /\ SameMemory(e, mid) /\ mid.sp = e.sp /\ mid.pc = u.pc /\ ~mid.is_halted
       /\ mid.reg = s.reg
  BY <1>1, <1>3, <1>8, <1>9 DEF Took, SameMemory, CpuType, CpuFields
<1>11. ASSUME NEW x \in CpuType, SameMemory(e, x), x.sp = e.sp
       PROVE  /\ Pushed(x) = v /\ W16(x.sp + 2) = s.sp
              /\ \A a \in Int : W16(a) \notin BelowStack(s.sp)
                    => monitor_rd_mem(x, a) = monitor_rd_mem(s, a)
  <2>1. /\ Pushed(x) = v /\ W16(x.sp + 2) = u.sp
        /\ \A a \in Int : W16(a) \notin BelowStack(u.sp)
              => monitor_rd_mem(x, a) = monitor_rd_mem(u, a)
    BY <1>1, <1>3, <1>7, <1>11, OnStack DEF e
  <2> QED BY <1>3, <2>1
<1>12. N8(mid) = 16 * q + 193
  <2>1. mid.pc \in Int /\ W16(mid.pc) = mid.pc /\ InCode(mid.pc)
    BY <1>1, <1>3, <1>10 DEF InCode, CodeBase, W16
  <2>2. mid.pc \notin BelowStack(s.sp)
    BY <1>1, <2>1 DEF Apart
  <2>3. monitor_rd_mem(mid, mid.pc) = monitor_rd_mem(s, mid.pc)
    BY <1>5, <1>10, <1>11, <2>1, <2>2
  <2>4. monitor_rd_mem(mid, mid.pc) = monitor_rd_mem(u, u.pc)
    BY <1>3, <1>10, <2>1, <2>3
  <2> QED BY <2>4 DEF N8, Second, u
<1>13. /\ w \in CpuType /\ w.pc = W16(mid.pc + 1) /\ w.reg = mid.reg /\ w.sp = mid.sp
       /\ SameMemory(mid, w)
  BY <1>5, Fetched DEF w
<1>14. t = op_pop(w, p)
  BY <1>5, <1>10, <1>12, Quarter3 DEF t, w, p
<1>15. SameMemory(e, w) /\ w.sp = e.sp /\ w.reg = s.reg
  BY <1>10, <1>13 DEF SameMemory
<1>16. Pushed(w) = v /\ W16(w.sp + 2) = s.sp
  BY <1>11, <1>13, <1>15
<1>17. t = Took(Drop(d), 3)
  BY <1>14, <1>16 DEF op_pop
<1>18. /\ d \in CpuType /\ d.reg = s.reg /\ (p = "AF" => d.f = s.f)
       /\ d.pc = w.pc /\ d.sp = w.sp /\ SameMemory(w, d)
  <2>1. d \in CpuType
    BY <1>2, <1>7, <1>13, PutType, Words DEF Inside, Pairs
  <2> QED BY <1>1, <1>2, <1>13, <1>15, <2>1, PairPutBack DEF v
<1> HIDE DEF d
<1> DEFINE n == W16(d.sp + 2)
<1>19. n = s.sp
  BY <1>16, <1>18
<1>20. t = [[d EXCEPT !.sp = n] EXCEPT !.cycles = 3]
  BY <1>17 DEF Took, Drop
<1> HIDE DEF n
<1>21. /\ t.reg = s.reg /\ t.sp = s.sp /\ t.pc = w.pc /\ (p = "AF" => t.f = s.f)
       /\ SameMemory(d, t)
  BY <1>18, <1>19, <1>20 DEF SameMemory, CpuType, CpuFields
<1>22. t.pc = W16(s.pc + 2)
  BY <1>1, <1>3, <1>10, <1>13, <1>21, TwoBytes
<1>23. \A a \in Int : W16(a) \notin BelowStack(s.sp)
          => monitor_rd_mem(t, a) = monitor_rd_mem(s, a)
  <2>1. SameMemory(mid, t)
    BY <1>13, <1>18, <1>21 DEF SameMemory
  <2>2. \A a \in Int : monitor_rd_mem(t, a) = monitor_rd_mem(mid, a)
    BY <2>1, SameReads
  <2> QED BY <1>5, <1>10, <1>11, <2>2
<1>24. Restores(s, t) /\ (q = 3 => t.f = s.f)
  BY <1>2, <1>21, <1>22, <1>23 DEF Restores
<1> QED BY <1>24 DEF t, mid

\* A RET at the address called comes back behind the call.
LEMMA CalledBack ==
    ASSUME NEW s \in CpuType, KeepsWord(s.sp), NEW c \in CpuType, ~c.is_halted,
           c.reg = s.reg, c.sp = s.sp, SameMemory(s, c),
           NEW a \in Word, a \notin BelowStack(s.sp), monitor_rd_mem(s, a) = RET,
           NEW n \in 1..6, NEW mid, mid = Took(CallTo(c, a), n)
    PROVE  LET t == Execute(mid)
           IN  /\ t.reg = s.reg /\ t.sp = s.sp /\ t.pc = c.pc
               /\ \A b \in Int : W16(b) \notin BelowStack(s.sp)
                     => monitor_rd_mem(t, b) = monitor_rd_mem(s, b)
<1> DEFINE e == Push(c, c.pc)
           w == ADVANCE_PC(mid, 1)
           t == Execute(mid)
<1>1. c.pc \in Word
  BY Fields
<1>2. /\ e \in CpuType /\ e.is_halted = c.is_halted /\ e.reg = c.reg
  BY <1>1, PushType DEF Inside
<1>3. mid = [[e EXCEPT !.pc = a] EXCEPT !.cycles = n]
  BY DEF Took, CallTo
<1>4. ASSUME NEW x \in CpuType, SameMemory(e, x), x.sp = e.sp
      PROVE  /\ Pushed(x) = c.pc /\ W16(x.sp + 2) = s.sp
             /\ \A b \in Int : W16(b) \notin BelowStack(s.sp)
                   => monitor_rd_mem(x, b) = monitor_rd_mem(s, b)
  <2>1. /\ Pushed(x) = c.pc /\ W16(x.sp + 2) = c.sp
        /\ \A b \in Int : W16(b) \notin BelowStack(c.sp)
              => monitor_rd_mem(x, b) = monitor_rd_mem(c, b)
    BY <1>1, <1>4, OnStack
  <2>2. \A b \in Int : monitor_rd_mem(c, b) = monitor_rd_mem(s, b)
    BY SameReads
  <2> QED BY <2>1, <2>2
<1> HIDE DEF e
<1>5. /\ mid \in CpuType /\ mid.pc = a /\ ~mid.is_halted /\ mid.reg = s.reg
      /\ mid.sp = e.sp /\ SameMemory(e, mid)
  <2>1. n \in Nat
    OBVIOUS
  <2> QED BY <1>2, <1>3, <2>1, ZenonT(60) DEF SameMemory, CpuType, CpuFields
<1>6. N8(mid) = RET
  <2>1. a \in Int /\ W16(a) = a
    BY Widths, Words
  <2>2. monitor_rd_mem(mid, a) = monitor_rd_mem(s, a)
    BY <1>4, <1>5, <2>1
  <2> QED BY <1>5, <2>2 DEF N8
<1>7. w \in CpuType /\ w.reg = mid.reg /\ w.sp = mid.sp /\ SameMemory(mid, w)
  BY <1>5, Fetched
<1>8. t = op_ret(w)
  BY <1>5, <1>6, Quarter3
<1> HIDE DEF w, t
<1>9. SameMemory(e, w) /\ w.sp = e.sp /\ w.reg = s.reg
  BY <1>5, <1>7 DEF SameMemory
<1>10. Pushed(w) = c.pc /\ W16(w.sp + 2) = s.sp
  BY <1>4, <1>7, <1>9
<1>11. t = [[[w EXCEPT !.pc = c.pc] EXCEPT !.sp = s.sp] EXCEPT !.cycles = 4]
  <2> DEFINE r == [w EXCEPT !.pc = c.pc]
  <2>1. t = Took(Drop(r), 4)
    BY <1>8, <1>10 DEF op_ret, DO_RET
  <2>2. r.sp = w.sp
    BY <1>7 DEF CpuType, CpuFields
  <2> HIDE DEF r
  <2>3. t = [[r EXCEPT !.sp = s.sp] EXCEPT !.cycles = 4]
    BY <1>10, <2>1, <2>2 DEF Took, Drop
  <2> QED BY <2>3 DEF r
<1>12. t.reg = s.reg /\ t.sp = s.sp /\ t.pc = c.pc /\ SameMemory(w, t)
  BY <1>7, <1>9, <1>11 DEF SameMemory, CpuType, CpuFields
<1>13. \A b \in Int : W16(b) \notin BelowStack(s.sp)
          => monitor_rd_mem(t, b) = monitor_rd_mem(s, b)
  <2>1. \A b \in Int : monitor_rd_mem(t, b) = monitor_rd_mem(w, b)
    BY <1>12, SameReads
  <2> QED BY <1>4, <1>7, <1>9, <2>1
<1> QED BY <1>12, <1>13 DEF t

LEMMA CallRet ==
    ASSUME NEW s, Ready(s), ComesBack(s)
    PROVE  LET t == Execute(Execute(s))
           IN  /\ t.reg = s.reg /\ t.sp = s.sp /\ t.pc = W16(s.pc + op_len(N8(s)))
               /\ \A b \in Int : W16(b) \notin BelowStack(s.sp)
                     => monitor_rd_mem(t, b) = monitor_rd_mem(s, b)
<1> DEFINE op == N8(s)
           y == (op \div 8) % 8
           u == ADVANCE_PC(s, 1)
           v == ADVANCE_PC(u, 2)
           mid == Execute(s)
<1>1. s \in CpuType /\ ~s.is_halted /\ KeepsWord(s.sp) /\ s.pc \in Word
  BY Fields DEF Ready
<1>2. /\ u \in CpuType /\ u.pc = W16(s.pc + 1) /\ u.reg = s.reg /\ u.sp = s.sp
      /\ SameMemory(s, u) /\ ~u.is_halted
  <2>1. u.is_halted = s.is_halted
    BY <1>1 DEF ADVANCE_PC, CpuType, CpuFields
  <2> QED BY <1>1, <2>1, Fetched
<1>3. /\ op = CALL \/ op \in Restarts
      /\ op = CALL => Target(s) = N16(u)
      /\ op # CALL => Target(s) = 8 * y
      /\ monitor_rd_mem(s, Target(s)) = RET /\ W16(Target(s)) \notin BelowStack(s.sp)
  BY DEF ComesBack, Opcode, Target, Y
<1> HIDE DEF op, u, mid
<1>4. CASE op = CALL
  <2>1. /\ v \in CpuType /\ v.pc = W16(u.pc + 2) /\ v.reg = u.reg /\ v.sp = u.sp
        /\ SameMemory(u, v) /\ ~v.is_halted
    <3>1. Inside(u, u)
      BY <1>2 DEF Inside
    <3>2. v \in CpuType /\ v.pc = W16(u.pc + 2)
      BY <1>2, <3>1, Advanced, Counts
    <3> QED BY <1>2, <3>2 DEF ADVANCE_PC, SameMemory, CpuType, CpuFields
  <2>2. N16(u) \in Word
    BY <1>2, GetType
  <2>3. mid = Took(CallTo(v, N16(u)), 6)
    BY <1>1, <1>4, Quarter3 DEF mid, op, u, DO_CALL
  <2>4. op_len(op) = 3
    <3>1. op \in Len3
      BY <1>4 DEF Len3, CALL
    <3> QED BY <3>1, OpLen
  <2>5. v.pc = W16(s.pc + 3)
    <3>1. s.pc \in Int /\ 2 \in Int
      BY <1>1, Words
    <3>2. s.pc + 1 \in Int
      BY <3>1
    <3>3. W16(W16(s.pc + 1) + 2) = W16(s.pc + 1 + 2)
      BY <3>1, <3>2, StepTwice, Zenon
    <3> QED BY <1>2, <2>1, <3>1, <3>3
  <2> HIDE DEF v
  <2>6. v.reg = s.reg /\ v.sp = s.sp /\ SameMemory(s, v)
    BY <1>2, <2>1 DEF SameMemory
  <2>7. N16(u) \notin BelowStack(s.sp) /\ monitor_rd_mem(s, N16(u)) = RET
    BY <1>3, <1>4, <2>2, Widths
  <2> DEFINE t == Execute(mid)
  <2>8. /\ t.reg = s.reg /\ t.sp = s.sp /\ t.pc = v.pc
        /\ \A b \in Int : W16(b) \notin BelowStack(s.sp)
              => monitor_rd_mem(t, b) = monitor_rd_mem(s, b)
    BY <1>1, <2>1, <2>2, <2>3, <2>6, <2>7, CalledBack, Counts
  <2> QED BY <2>4, <2>5, <2>8 DEF mid, op
<1>5. CASE op # CALL
  <2>1. PICK k \in 0..7 : op = 8 * k + 199
    BY <1>3, <1>5 DEF Restarts
  <2>2. y = k /\ 8 * k \in Word
    BY <2>1, Ranges
  <2>3. mid = Took(CallTo(u, 8 * k), 4)
    BY <1>1, <2>1, Quarter3 DEF mid, op, u, op_restart
  <2>4. op_len(op) = 1
    <3>1. op \notin Len2 \cup Len3
      BY <2>1 DEF Len2, Len3
    <3> QED BY <3>1, OpLen, Zenon
  <2> DEFINE a == 8 * k
             t == Execute(mid)
  <2>5. a \in Word /\ a \notin BelowStack(s.sp) /\ monitor_rd_mem(s, a) = RET
    BY <1>3, <1>5, <2>2, Widths
  <2>6. /\ t.reg = s.reg /\ t.sp = s.sp /\ t.pc = u.pc
        /\ \A b \in Int : W16(b) \notin BelowStack(s.sp)
              => monitor_rd_mem(t, b) = monitor_rd_mem(s, b)
    <3>1. mid = Took(CallTo(u, a), 4)
      BY <2>3
    <3> HIDE DEF a
    <3> QED BY <1>1, <1>2, <2>5, <3>1, CalledBack, Counts
  <2> QED BY <1>2, <2>4, <2>6 DEF mid, op
<1> QED BY <1>4, <1>5

\* Every pair of Inverses, from every state a program starts in.
LEMMA InversesUndo ==
    ASSUME NEW s, Ready(s), <<N8(s), Second(s)>> \in Inverses
    PROVE  Restores(s, Execute(Execute(s)))
<1>1. s \in CpuType /\ ~s.is_halted
  BY DEF Ready
<1> DEFINE n == N8(s)
           m == Second(s)
<1>2. ASSUME NEW k, NEW l, <<n, m>> = <<k, l>> PROVE n = k /\ m = l
  BY <1>2
<1> HIDE DEF n, m
<1>3. \/ \E y \in 0..7 : <<n, m>> = <<8 * y + 4, 8 * y + 5>>
      \/ \E q \in 0..3 : <<n, m>> = <<16 * q + 3, 16 * q + 11>>
      \/ <<n, m>> \in {<<197, 193>>, <<213, 209>>, <<229, 225>>, <<245, 241>>}
      \/ <<n, m>> \in {<<7, 15>>, <<15, 7>>, <<23, 31>>, <<31, 23>>, <<47, 47>>}
  <2>1. <<n, m>> \in Inverses
    BY DEF n, m
  <2> QED BY <2>1, InversePairs
<1>4. CASE \E y \in 0..7 : <<n, m>> = <<8 * y + 4, 8 * y + 5>>
  <2>1. PICK y \in 0..7 : n = 8 * y + 4 /\ m = 8 * y + 5
    BY <1>2, <1>4
  <2>2. y \in Field
    BY DEF Field
  <2>3. CASE y = 6
    BY <2>1, <2>3, IncDecMemory DEF n, m
  <2>4. CASE y # 6
    BY <1>1, <2>1, <2>2, <2>4, IncDecRegister DEF n, m
  <2> QED BY <2>3, <2>4
<1>5. CASE \E q \in 0..3 : <<n, m>> = <<16 * q + 3, 16 * q + 11>>
  <2>1. PICK q \in 0..3 : n = 16 * q + 3 /\ m = 16 * q + 11
    BY <1>2, <1>5
  <2> QED BY <1>1, <2>1, IncDecPair DEF n, m
<1>6. CASE <<n, m>> \in {<<197, 193>>, <<213, 209>>, <<229, 225>>, <<245, 241>>}
  <2>1. \/ n = 197 /\ m = 193
        \/ n = 213 /\ m = 209
        \/ n = 229 /\ m = 225
        \/ n = 245 /\ m = 241
    BY <1>6
  <2>2. \E q \in 0..3 : n = 16 * q + 197 /\ m = 16 * q + 193
    BY <2>1
  <2>3. PICK q \in 0..3 : n = 16 * q + 197 /\ m = 16 * q + 193
    BY <2>2
  <2> QED BY <2>3, PushPop DEF n, m
<1>7. CASE <<n, m>> \in {<<7, 15>>, <<15, 7>>, <<23, 31>>, <<31, 23>>, <<47, 47>>}
  <2>1. \/ n = 7 /\ m = 15
        \/ n = 15 /\ m = 7
        \/ n = 23 /\ m = 31
        \/ n = 31 /\ m = 23
        \/ n = 47 /\ m = 47
    BY <1>2, <1>7, Zenon
  <2>2. 0 \in 0..3 /\ 1 \in 0..3 /\ 2 \in 0..3 /\ 3 \in 0..3
    OBVIOUS
  <2>3. 8 * 0 + 7 = 7 /\ 8 * 1 + 7 = 15 /\ 8 * 2 + 7 = 23 /\ 8 * 3 + 7 = 31
    OBVIOUS
  <2>4. CASE n = 47 /\ m = 47
    BY <1>1, <2>4, ComplementUndone DEF n, m
  <2>5. CASE n = 7 /\ m = 15
    BY <1>1, <2>2, <2>3, <2>5, TurnsUndone DEF n, m
  <2>6. CASE n = 15 /\ m = 7
    BY <1>1, <2>2, <2>3, <2>6, TurnsUndone DEF n, m
  <2>7. CASE n = 23 /\ m = 31
    BY <1>1, <2>2, <2>3, <2>7, TurnsUndone DEF n, m
  <2>8. CASE n = 31 /\ m = 23
    BY <1>1, <2>2, <2>3, <2>8, TurnsUndone DEF n, m
  <2> QED BY <2>1, <2>4, <2>5, <2>6, <2>7, <2>8
<1> QED BY <1>3, <1>4, <1>5, <1>6, <1>7

\* PUSH and POP, INC and DEC of a register, of memory or of a pair, CPL twice and
\* rotations of A both ways undo each other, and RET undoes CALL and RST, with
\* every content of the registers and every stack that lies in memory.
THEOREM RoundTripsTrue == Spec => []RoundTrips
<1>1. RunInv => RoundTrips
  <2> SUFFICES ASSUME RunInv, steps = 2
               PROVE  /\ <<Opcode(start), Second(start)>> \in Inverses =>
                            Kept(start, now) /\ now.pc = W16(start.pc + 2)
                      /\ <<Opcode(start), Second(start)>> = <<245, 241>> => now.f = start.f
                      /\ ComesBack(start) =>
                            /\ Kept(start, now)
                            /\ now.pc = W16(start.pc + op_len(Opcode(start)))
    BY DEF RoundTrips
  <2>1. Ready(start) /\ start \in CpuType /\ now = Execute(Execute(start))
    BY DEF RunInv, Ready
  <2>2. \A a \in DOMAIN start.mem : a \in Int /\ W16(a) = a
    <3>1. start.mem \in Memory
      BY <2>1, Fields
    <3>2. DOMAIN start.mem \subseteq Word
      BY <3>1 DEF Memory
    <3> QED BY <3>2, Widths, Words
  <2>3. ASSUME now.reg = start.reg, now.sp = start.sp,
               \A b \in Int : W16(b) \notin BelowStack(start.sp)
                  => monitor_rd_mem(now, b) = monitor_rd_mem(start, b)
        PROVE  Kept(start, now)
    BY <2>2, <2>3 DEF Kept
  <2>4. ASSUME <<Opcode(start), Second(start)>> \in Inverses
        PROVE  Kept(start, now) /\ now.pc = W16(start.pc + 2)
    <3>1. Restores(start, now)
      BY <2>1, <2>4, InversesUndo DEF Opcode
    <3> QED BY <2>3, <3>1 DEF Restores
  <2>5. ASSUME <<Opcode(start), Second(start)>> = <<245, 241>> PROVE now.f = start.f
    <3>1. Opcode(start) = 245 /\ Second(start) = 241
      BY <2>5
    <3>2. 16 * 3 + 197 = 245 /\ 16 * 3 + 193 = 241 /\ 3 \in 0..3
      OBVIOUS
    <3> QED BY <2>1, <3>1, <3>2, PushPop DEF Opcode
  <2>6. ASSUME ComesBack(start)
        PROVE  Kept(start, now) /\ now.pc = W16(start.pc + op_len(Opcode(start)))
    <3>1. /\ now.reg = start.reg /\ now.sp = start.sp
          /\ now.pc = W16(start.pc + op_len(Opcode(start)))
          /\ \A b \in Int : W16(b) \notin BelowStack(start.sp)
                => monitor_rd_mem(now, b) = monitor_rd_mem(start, b)
      BY <2>1, <2>6, CallRet DEF Opcode
    <3> QED BY <2>3, <3>1
  <2> QED BY <2>4, <2>5, <2>6
<1> QED BY <1>1, RunInvariant, PTL
=============================================================================
