--------------------------- MODULE ProcessorProofs --------------------------
(***************************************************************************)
(* What holds of every instruction, whatever the program, and what an      *)
(* interrupt and its RETI do.                                              *)
(***************************************************************************)
EXTENDS Processor, TLAPS

-----------------------------------------------------------------------------
(* The types of the fields of the structure cpu.                            *)

\* The memory is a byte at each of the addresses that were written to.
Memory == UNION {[D -> Byte] : D \in SUBSET Word}

\* What tac_divider can be: nothing yet, or one of those of TAC.
Dividers == {0, 4, 16, 64, 256}

CpuFields ==
    [reg : [Registers -> Byte], f : SUBSET Flags, sp : Word, pc : Word,
     mem : Memory, cart : DOMAIN Cartridges, window : Nat, booting : BOOLEAN,
     ime_enabled : BOOLEAN, is_halted : BOOLEAN, cycles : Nat,
     disable_bootrom : Byte, ie_reg : Byte, if_reg : Byte, div_reg : Byte,
     div_counter : 0..63, tima_enabled : BOOLEAN, tima_reg : Byte, tma_reg : Byte,
     tac_reg : Byte, tac_counter : Nat, tac_divider : Dividers]
\* A timer that runs divides by what tac_reg selects.
CpuType == {s \in CpuFields : s.tima_enabled => s.tac_divider # 0}

\* Bytes and words.
LEMMA Ranges ==
    /\ \A n : n \in Byte <=> n \in Int /\ 0 <= n /\ n < 256
    /\ \A n : n \in Word <=> n \in Int /\ 0 <= n /\ n < 65536
<1>1. \A a, b \in Int : \A n : n \in a .. b <=> n \in Int /\ a <= n /\ n <= b
  OBVIOUS
<1>2. 0 \in Int /\ UINT8_MAX \in Int /\ UINT16_MAX \in Int
  BY DEF UINT8_MAX, UINT16_MAX
<1>3. \A n : n \in Byte <=> n \in Int /\ 0 <= n /\ n <= UINT8_MAX
  BY <1>1, <1>2, Zenon DEF Byte
<1>4. \A n : n \in Word <=> n \in Int /\ 0 <= n /\ n <= UINT16_MAX
  BY <1>1, <1>2, Zenon DEF Word
<1>5. \A n : n \in Byte <=> n \in Int /\ 0 <= n /\ n < 256
  BY <1>3, SMT DEF UINT8_MAX
<1>6. \A n : n \in Word <=> n \in Int /\ 0 <= n /\ n < 65536
  BY <1>4, SMT DEF UINT16_MAX
<1> QED BY <1>5, <1>6

LEMMA Widths ==
    /\ \A n \in Int : W8(n) \in Byte /\ W16(n) \in Word
    /\ \A n \in Byte : W8(n) = n
    /\ \A n \in Word : W16(n) = n
<1>1. ASSUME NEW n \in Int PROVE W8(n) \in Byte /\ W16(n) \in Word
  BY Ranges DEF W8, W16
<1>2. ASSUME NEW n \in Byte PROVE W8(n) = n
  <2>1. n \in Int /\ 0 <= n /\ n < 256
    BY Ranges
  <2> QED BY <2>1 DEF W8
<1>3. ASSUME NEW n \in Word PROVE W16(n) = n
  <2>1. n \in Int /\ 0 <= n /\ n < 65536
    BY Ranges
  <2> QED BY <2>1 DEF W16
<1> QED BY <1>1, <1>2, <1>3

LEMMA Words ==
    /\ \A b \in Byte : b \in Word /\ b \in Int /\ Int8(b) \in Int
    /\ \A w \in Word : w \in Int /\ w \in Nat /\ w \div 256 \in Byte
    /\ \A h, l \in Byte : 256 * h + l \in Word /\ h + 256 * l \in Word
<1>1. \A b \in Byte : b \in Word /\ b \in Int
  BY Ranges
<1>2. \A b \in Byte : Int8(b) \in Int
  BY Ranges DEF Int8
<1>3. ASSUME NEW w \in Word PROVE w \in Int /\ w \in Nat /\ w \div 256 \in Byte
  <2>1. w \in Int /\ 0 <= w /\ w < 65536
    BY Ranges
  <2>2. w \div 256 \in Int /\ 0 <= w \div 256 /\ w \div 256 < 256
    BY <2>1
  <2>3. w \div 256 \in Byte
    BY <2>2, Ranges
  <2> QED BY <2>1, <2>3
<1>4. \A h, l \in Byte : 256 * h + l \in Word
  BY Ranges
<1>5. \A h, l \in Byte : h + 256 * l \in Word
  BY Ranges
<1> QED BY <1>1, <1>2, <1>3, <1>4, <1>5

\* A byte put together from a set of bits, whatever else the set holds.
LEMMA OfBitsType == ASSUME NEW S PROVE OfBits(S) \in Byte
<1> DEFINE v(k, n) == IF k \in S THEN n ELSE 0
<1>1. OfBits(S) = v(0, 1) + v(1, 2) + v(2, 4) + v(3, 8) + v(4, 16) + v(5, 32)
                    + v(6, 64) + v(7, 128)
  BY DEF OfBits
<1> QED BY <1>1, Ranges

\* The memory: a write shows at its address and nowhere else.
LEMMA MemoryType ==
    ASSUME NEW m \in Memory, NEW a \in Word, NEW v \in Byte
    PROVE  /\ At(m, a) \in Byte
           /\ Written(m, a, v) \in Memory
           /\ At(Written(m, a, v), a) = v
           /\ \A b : b # a => At(Written(m, a, v), b) = At(m, b)
<1>1. PICK D \in SUBSET Word : m \in [D -> Byte]
  BY DEF Memory
<1>2. At(m, a) \in Byte
  BY <1>1, Ranges DEF At
<1>3. Written(m, a, v) \in [D \cup {a} -> Byte]
  BY <1>1 DEF Written
<1>4. D \cup {a} \in SUBSET Word
  BY <1>1
<1>5. Written(m, a, v) \in Memory
  BY <1>3, <1>4 DEF Memory
<1> QED BY <1>1, <1>2, <1>5 DEF At, Written

\* Assignments to the fields.
LEMMA PutRegister ==
    ASSUME NEW s \in CpuType, NEW r \in Registers, NEW v \in Byte
    PROVE  [s EXCEPT !.reg[r] = v] \in CpuType /\ [s EXCEPT !.reg[r] = v].pc = s.pc
  BY DEF CpuType, CpuFields

LEMMA PutWithFlags ==
    ASSUME NEW s \in CpuType, NEW v \in Byte, NEW f \in SUBSET Flags
    PROVE  /\ [s EXCEPT !.reg["A"] = v, !.f = f] \in CpuType
           /\ [s EXCEPT !.reg["A"] = v, !.f = f].pc = s.pc
  BY DEF CpuType, CpuFields

LEMMA PutFields ==
    ASSUME NEW s \in CpuType
    PROVE  /\ \A f \in SUBSET Flags :
                 [s EXCEPT !.f = f] \in CpuType /\ [s EXCEPT !.f = f].pc = s.pc
           /\ \A n \in Word :
                 [s EXCEPT !.sp = n] \in CpuType /\ [s EXCEPT !.sp = n].pc = s.pc
           /\ \A n \in Word :
                 [s EXCEPT !.pc = n] \in CpuType /\ [s EXCEPT !.pc = n].pc = n
           /\ \A n \in Nat :
                 /\ [s EXCEPT !.cycles = n] \in CpuType
                 /\ [s EXCEPT !.cycles = n].cycles = n /\ [s EXCEPT !.cycles = n].pc = s.pc
           /\ \A b \in BOOLEAN :
                 /\ [s EXCEPT !.ime_enabled = b] \in CpuType
                 /\ [s EXCEPT !.ime_enabled = b].pc = s.pc
           /\ \A b \in BOOLEAN :
                 /\ [s EXCEPT !.is_halted = b] \in CpuType
                 /\ [s EXCEPT !.is_halted = b].pc = s.pc
  BY DEF CpuType, CpuFields

LEMMA Fields ==
    ASSUME NEW s \in CpuType
    PROVE  /\ \A r \in Registers : s.reg[r] \in Byte
           /\ s.f \in SUBSET Flags /\ s.sp \in Word /\ s.pc \in Word
           /\ s.mem \in Memory /\ s.cart \in DOMAIN Cartridges
           /\ s.if_reg \in Byte /\ s.ie_reg \in Byte /\ s.cycles \in Nat
  BY DEF CpuType, CpuFields

-----------------------------------------------------------------------------
(* Reading and writing by address.                                          *)

Io == DOMAIN IoRegister

LEMMA IoNames ==
    /\ Io = {65284, 65285, 65286, 65287, 65295, 65360, 65535} /\ Io \subseteq Word
    /\ IoRegister[65284] = "div_reg" /\ IoRegister[65285] = "tima_reg"
    /\ IoRegister[65286] = "tma_reg" /\ IoRegister[65287] = "tac_reg"
    /\ IoRegister[65295] = "if_reg" /\ IoRegister[65360] = "disable_bootrom"
    /\ IoRegister[65535] = "ie_reg"
  BY Ranges DEF Io, IoRegister

LEMMA ReadType ==
    ASSUME NEW s \in CpuType, NEW a \in Int
    PROVE  /\ monitor_rd_mem(s, a) \in Byte
           /\ RD_WORD(s, a) \in Word
<1>1. ASSUME NEW i \in Int PROVE monitor_rd_mem(s, i) \in Byte
  <2> DEFINE addr == W16(i)
             r == monitor_rd_mem(s, i)
  <2>1. addr \in Word
    BY Widths
  <2>2. r = CASE addr \in Io -> s[IoRegister[addr]]
              [] addr < CartridgeEnd -> mbc1_rd_mem(s, addr)
              [] addr >= CartridgeEnd /\ addr \notin Io -> At(s.mem, addr)
    BY DEF monitor_rd_mem, Io
  <2> HIDE DEF addr, r
  <2>3. CartridgeEnd = 32768 /\ BankSize = 16384
    BY DEF CartridgeEnd, BankSize
  <2>4. CASE addr \in Io
    <3>1. s[IoRegister[addr]] \in Byte
      BY <2>4, IoNames DEF CpuType, CpuFields
    <3>2. ~(addr < CartridgeEnd)
      BY <2>3, <2>4, IoNames
    <3>3. r = s[IoRegister[addr]]
      BY <2>2, <2>4, <3>2
    <3> QED BY <3>1, <3>3 DEF r
  <2>5. CASE addr < CartridgeEnd
    <3>1. addr \notin Io
      BY <2>3, <2>5, IoNames
    <3>2. r = mbc1_rd_mem(s, addr)
      <4>1. ~(addr >= CartridgeEnd)
        BY <2>1, <2>3, <2>5, Ranges
      <4> QED BY <2>2, <2>5, <3>1, <4>1, Zenon
    <3>3. \A n : At(Cartridges[s.cart].bytes, n) \in Byte
      BY CartridgeAssumption, Ranges DEF CpuType, CpuFields, At
    <3>4. \/ /\ addr < BankSize /\ addr \in DOMAIN BootImage
             /\ r = BootImage[addr]
          \/ \E n : r = At(Cartridges[s.cart].bytes, n)
      <4>1. CASE addr < BankSize
        <5>1. ~(addr >= BankSize)
          BY <2>1, <2>3, <4>1, Ranges
        <5> QED BY <3>2, <4>1, <5>1, Zenon DEF mbc1_rd_mem
      <4>2. CASE ~(addr < BankSize)
        <5>1. addr >= BankSize
          BY <2>1, <2>3, <4>2, Ranges
        <5> QED BY <3>2, <4>2, <5>1, Zenon DEF mbc1_rd_mem
      <4> QED BY <4>1, <4>2
    <3> QED BY <3>3, <3>4, CartridgeAssumption DEF r
  <2>6. CASE addr \notin Io /\ ~(addr < CartridgeEnd)
    <3>1. r = At(s.mem, addr)
      <4>1. addr >= CartridgeEnd
        BY <2>1, <2>3, <2>6, Ranges
      <4> QED BY <2>2, <2>6, <4>1, Zenon
    <3>2. s.mem \in Memory /\ 0 \in Byte
      BY Fields, Ranges
    <3> QED BY <2>1, <3>1, <3>2, MemoryType DEF r
  <2> QED BY <2>4, <2>5, <2>6
<1>2. RD_WORD(s, a) \in Word
  <2>1. monitor_rd_mem(s, a) \in Byte /\ monitor_rd_mem(s, a + 1) \in Byte
    BY <1>1
  <2> QED BY <2>1, Words DEF RD_WORD
<1> QED BY <1>1, <1>2

\* What a write leaves alone: all but the memory, the registers that have an
\* address and the window of the cartridge.
Wrote(s, t) ==
    /\ t.reg = s.reg /\ t.f = s.f /\ t.sp = s.sp /\ t.pc = s.pc
    /\ t.cart = s.cart /\ t.cycles = s.cycles
    /\ t.ime_enabled = s.ime_enabled /\ t.is_halted = s.is_halted
    /\ t.div_counter = s.div_counter /\ t.tac_counter = s.tac_counter

LEMMA WriteType ==
    ASSUME NEW s \in CpuType, NEW a \in Int, NEW v \in Int
    PROVE  /\ monitor_wr_mem(s, a, v) \in CpuType
           /\ Wrote(s, monitor_wr_mem(s, a, v))
<1> DEFINE addr == W16(a)
           b == W8(v)
           t == cpu_wr(s, addr, b)
           w == monitor_wr_mem(s, a, v)
<1>1. addr \in Word /\ b \in Byte
  BY Widths
<1>2. w = CASE addr \in Io ->
                   IF IoRegister[addr] = "disable_bootrom"
                     THEN [t EXCEPT !.booting = FALSE] ELSE t
            [] addr < CartridgeEnd -> mbc1_wr_mem(s, addr, b)
            [] addr >= CartridgeEnd /\ addr \notin Io ->
                   [s EXCEPT !.mem = Written(@, addr, b)]
  BY DEF monitor_wr_mem, Io
<1> HIDE DEF addr, b, w
<1>3. CartridgeEnd = 32768 /\ BankSize = 16384
  BY DEF CartridgeEnd, BankSize
<1>4. CASE addr \in Io
  <2>1. t \in CpuType /\ Wrote(s, t)
    <3>1. CASE addr = 65284
      <4>1. t = [s EXCEPT !.div_reg = 0]
        BY <3>1, IoNames DEF cpu_wr
      <4> QED BY <4>1, Ranges DEF CpuType, CpuFields, Wrote
    <3>2. CASE addr = 65295
      <4>1. t = [s EXCEPT !.if_reg = b % 32] /\ b % 32 \in Byte
        BY <1>1, <3>2, IoNames, Ranges DEF cpu_wr
      <4> QED BY <4>1 DEF CpuType, CpuFields, Wrote
    <3>3. CASE addr = 65287
      <4>1. t = [s EXCEPT !.tac_reg = b % 8, !.tima_enabled = Bit(b, 2) = 1,
                          !.tac_divider = Divider[(b % 4) + 1]]
        BY <3>3, IoNames DEF cpu_wr
      <4>2. b % 8 \in Byte /\ b % 4 \in 0..3
        BY <1>1, Ranges
      <4>3. Divider[(b % 4) + 1] \in Dividers \ {0}
        BY <4>2 DEF Divider, Dividers
      <4> DEFINE n == b % 8
                 e == Bit(b, 2) = 1
                 d == Divider[(b % 4) + 1]
                 timer == [s EXCEPT !.tac_reg = n, !.tima_enabled = e, !.tac_divider = d]
      <4>4. n \in Byte /\ e \in BOOLEAN /\ d \in Dividers \ {0}
        BY <4>2, <4>3
      <4>5. t = timer
        BY <4>1
      <4> HIDE DEF n, e, d, t
      <4>6. timer \in CpuFields /\ timer.tima_enabled = e /\ timer.tac_divider = d
        BY <4>4 DEF CpuType, CpuFields
      <4>7. Wrote(s, timer)
        BY DEF CpuType, CpuFields, Wrote
      <4> HIDE DEF timer
      <4> QED BY <4>4, <4>5, <4>6, <4>7 DEF CpuType, t
    <3>4. CASE addr = 65360
      <4>1. t = [s EXCEPT !.disable_bootrom = IF b = 0 THEN 0 ELSE 1]
        BY <3>4, IoNames DEF cpu_wr
      <4> QED BY <4>1, Ranges DEF CpuType, CpuFields, Wrote
    <3>5. CASE addr \in {65285, 65286, 65535}
      <4>1. t = [s EXCEPT ![IoRegister[addr]] = b]
        BY <3>5, IoNames DEF cpu_wr
      <4>2. IoRegister[addr] \in {"tima_reg", "tma_reg", "ie_reg"}
        BY <3>5, IoNames
      <4> QED BY <1>1, <4>1, <4>2 DEF CpuType, CpuFields, Wrote
    <3> QED BY <1>4, <3>1, <3>2, <3>3, <3>4, <3>5, IoNames
  <2> HIDE DEF t
  <2>2. w = IF IoRegister[addr] = "disable_bootrom"
              THEN [t EXCEPT !.booting = FALSE] ELSE t
    BY <1>2, <1>3, <1>4, IoNames
  <2>3. [t EXCEPT !.booting = FALSE] \in CpuType
    BY <2>1 DEF CpuType, CpuFields
  <2>4. Wrote(s, [t EXCEPT !.booting = FALSE])
    BY <2>1 DEF CpuType, CpuFields, Wrote
  <2> QED BY <2>1, <2>2, <2>3, <2>4 DEF w
<1>5. CASE addr < CartridgeEnd
  <2>1. w = mbc1_wr_mem(s, addr, b)
    <3>1. addr \notin Io /\ ~(addr >= CartridgeEnd)
      BY <1>1, <1>3, <1>5, IoNames, Ranges
    <3> QED BY <1>2, <1>5, <3>1, Zenon
  <2>2. w = s \/ \E bank \in Nat : w = [s EXCEPT !.window = bank]
    <3> DEFINE bank == IF b = 0 THEN 1 ELSE b % 32
    <3>1. bank \in Nat
      BY <1>1, Ranges
    <3>2. w = s \/ w = [s EXCEPT !.window = bank]
      <4>1. w = Select(s, b) \/ w = s
        BY <2>1 DEF mbc1_wr_mem
      <4> HIDE DEF bank
      <4>2. Select(s, b) = [s EXCEPT !.window = bank] \/ Select(s, b) = s
        BY Zenon DEF Select, bank
      <4> QED BY <4>1, <4>2, Zenon
    <3> QED BY <3>1, <3>2, Zenon
  <2> QED BY <2>2 DEF CpuType, CpuFields, Wrote, w
<1>6. CASE addr \notin Io /\ ~(addr < CartridgeEnd)
  <2>1. w = [s EXCEPT !.mem = Written(s.mem, addr, b)]
    <3>1. addr >= CartridgeEnd
      BY <1>1, <1>3, <1>6, Ranges
    <3> QED BY <1>2, <1>6, <3>1, Zenon
  <2>2. Written(s.mem, addr, b) \in Memory
    BY <1>1, MemoryType, Fields
  <2> QED BY <2>1, <2>2 DEF CpuType, CpuFields, Wrote, w
<1> QED BY <1>4, <1>5, <1>6

-----------------------------------------------------------------------------
(* The pieces handlers are built from.                                      *)

\* In the middle of a handler: typed, and PC where it was.
Inside(s, t) == t \in CpuType /\ t.pc = s.pc
\* At its end: typed, and the cycles reported are one of 1 to 6.
Lands(t) == t \in CpuType /\ t.cycles \in 1..6
\* At the end of one that goes on behind its n bytes.
Passes(s, t, n) == Lands(t) /\ t.pc = W16(s.pc + n)

Targets == {"A", "B", "C", "D", "E", "H", "L", "IND_HL"}
Pairs == {"BC", "DE", "HL", "SP", "AF"}

LEMMA TookLands ==
    ASSUME NEW s \in CpuType, NEW t, Inside(s, t), NEW n \in 1..6
    PROVE  /\ Passes(s, Took(t, n), 0)
           /\ Inside(s, Took(t, n))
<1>1. Took(t, n) \in CpuType /\ Took(t, n).cycles = n /\ Took(t, n).pc = s.pc
  <2>1. n \in Nat
    OBVIOUS
  <2> QED BY <2>1, PutFields, Zenon DEF Inside, Took
<1>2. W16(s.pc + 0) = s.pc
  BY Fields, Widths, Words
<1> QED BY <1>1, <1>2 DEF Passes, Lands, Inside

LEMMA Advanced ==
    ASSUME NEW s \in CpuType, NEW t, Inside(s, t), NEW k \in Int, NEW n \in 1..6
    PROVE  /\ ADVANCE_PC(t, k) \in CpuType
           /\ ADVANCE_PC(t, k).pc = W16(s.pc + k)
           /\ Passes(s, Took(ADVANCE_PC(t, k), n), k)
<1> DEFINE u == ADVANCE_PC(t, k)
           m == W16(s.pc + k)
<1>0. n \in Nat
  OBVIOUS
<1>1. m \in Word
  <2>1. s.pc \in Int
    BY Fields, Words, Zenon
  <2>2. s.pc + k \in Int
    BY <2>1
  <2> QED BY <2>2, Widths
<1>2. u = [t EXCEPT !.pc = m]
  BY DEF ADVANCE_PC, Inside
<1> HIDE DEF u, m
<1>3. u \in CpuType /\ u.pc = m
  BY <1>1, <1>2, PutFields DEF Inside
<1>4. Took(u, n) \in CpuType /\ Took(u, n).cycles = n /\ Took(u, n).pc = m
  BY <1>3, <1>0, PutFields, Zenon DEF Took
<1> QED BY <1>3, <1>4 DEF Passes, Lands, u, m

LEMMA GetType ==
    ASSUME NEW s \in CpuType
    PROVE  /\ \A p \in Pairs : Get16(s, p) \in Word
           /\ HL(s) \in Word
           /\ \A r \in Targets : Get(s, r) \in Byte
           /\ N8(s) \in Byte /\ N16(s) \in Word /\ Pushed(s) \in Word
<1>1. ASSUME NEW p \in Pairs PROVE Get16(s, p) \in Word
  <2>1. CASE p = "SP"
    BY <2>1, Fields DEF Get16
  <2>2. CASE p = "AF"
    <3>1. FlagByte(s.f) \in Byte
      BY Ranges DEF FlagByte
    <3>2. s.reg["A"] \in Byte
      BY Fields DEF Registers
    <3>3. Get16(s, p) = 256 * s.reg["A"] + FlagByte(s.f)
      BY <2>2 DEF Get16
    <3> QED BY <3>1, <3>2, <3>3, Words
  <2>3. CASE p \in {"BC", "DE", "HL"}
    <3>1. HighOf(p) \in Registers /\ LowOf(p) \in Registers
      BY <2>3 DEF HighOf, LowOf, Registers
    <3>2. Get16(s, p) = 256 * s.reg[HighOf(p)] + s.reg[LowOf(p)]
      BY <2>3 DEF Get16
    <3> QED BY <3>1, <3>2, Fields, Words
  <2> QED BY <2>1, <2>2, <2>3 DEF Pairs
<1>2. HL(s) \in Word
  BY <1>1 DEF HL, Pairs
<1>3. ASSUME NEW r \in Targets PROVE Get(s, r) \in Byte
  <2>1. CASE r = "IND_HL"
    BY <1>2, <2>1, ReadType, Words DEF Get
  <2>2. CASE r # "IND_HL"
    BY <2>2, Fields DEF Get, Targets, Registers
  <2> QED BY <2>1, <2>2
<1>4. N8(s) \in Byte /\ N16(s) \in Word /\ Pushed(s) \in Word
  BY ReadType, Fields, Words DEF N8, N16, Pushed
<1> QED BY <1>1, <1>2, <1>3, <1>4

LEMMA PutType ==
    ASSUME NEW s \in CpuType, NEW t, Inside(s, t), NEW v \in Int
    PROVE  /\ \A p \in Pairs : Inside(s, Put16(t, p, v))
           /\ \A r \in Targets : Inside(s, Put(t, r, v))
           /\ \A a \in Int : Inside(s, monitor_wr_mem(t, a, v))
<1>0. t \in CpuType /\ t.pc = s.pc
  BY DEF Inside
<1>1. ASSUME NEW a \in Int PROVE Inside(s, monitor_wr_mem(t, a, v))
  BY <1>0, WriteType DEF Wrote, Inside
<1>2. W16(v) \in Word /\ W8(v) \in Byte /\ W16(v) \div 256 \in Byte
  BY Widths, Words
<1>3. ASSUME NEW p \in Pairs PROVE Inside(s, Put16(t, p, v))
  <2>1. CASE p = "SP"
    <3>1. Put16(t, p, v) = [t EXCEPT !.sp = W16(v)]
      BY <2>1 DEF Put16
    <3>2. [t EXCEPT !.sp = W16(v)] \in CpuType /\ [t EXCEPT !.sp = W16(v)].pc = t.pc
      BY <1>0, <1>2, PutFields, Zenon
    <3> QED BY <1>0, <3>1, <3>2, Zenon DEF Inside
  <2>2. CASE p = "AF"
    <3>1. Put16(t, p, v) =
            [t EXCEPT !.reg["A"] = W16(v) \div 256, !.f = FlagsOf(W8(v))]
      BY <2>2 DEF Put16
    <3>2. FlagsOf(W8(v)) \in SUBSET Flags
      BY DEF FlagsOf
    <3> DEFINE u == [t EXCEPT !.reg["A"] = W16(v) \div 256, !.f = FlagsOf(W8(v))]
    <3>4. u \in CpuType /\ u.pc = t.pc
      BY <1>0, <1>2, <3>2, PutWithFlags, ZenonT(40)
    <3> HIDE DEF u
    <3> QED BY <1>0, <3>1, <3>4 DEF Inside, u
  <2>3. CASE p \in {"BC", "DE", "HL"}
    <3>1. Put16(t, p, v) = [t EXCEPT !.reg[HighOf(p)] = W16(v) \div 256,
                                     !.reg[LowOf(p)] = W8(v)]
      BY <2>3 DEF Put16
    <3>2. HighOf(p) \in Registers /\ LowOf(p) \in Registers
      BY <2>3 DEF HighOf, LowOf, Registers
    <3> DEFINE r == HighOf(p)
               q == LowOf(p)
               h == W16(v) \div 256
               l == W8(v)
               u == [t EXCEPT !.reg[r] = h, !.reg[q] = l]
    <3>3. r \in Registers /\ q \in Registers /\ h \in Byte /\ l \in Byte
      BY <1>2, <3>2
    <3> HIDE DEF r, q, h, l
    <3>4. u \in CpuType /\ u.pc = t.pc
      BY <1>0, <3>3 DEF CpuType, CpuFields
    <3>5. Put16(t, p, v) = u
      BY <3>1 DEF r, q, h, l
    <3> HIDE DEF u
    <3> QED BY <1>0, <3>4, <3>5 DEF Inside
  <2> QED BY <2>1, <2>2, <2>3 DEF Pairs
<1>4. ASSUME NEW r \in Targets PROVE Inside(s, Put(t, r, v))
  <2>1. CASE r = "IND_HL"
    <3>1. HL(t) \in Int
      BY <1>0, GetType, Words
    <3> QED BY <1>1, <2>1, <3>1 DEF Put
  <2>2. CASE r # "IND_HL"
    <3>1. Put(t, r, v) = [t EXCEPT !.reg[r] = W8(v)]
      BY <2>2 DEF Put
    <3>2. r \in Registers
      BY <2>2 DEF Targets, Registers
    <3>3. [t EXCEPT !.reg[r] = W8(v)] \in CpuType /\ [t EXCEPT !.reg[r] = W8(v)].pc = t.pc
      BY <1>0, <1>2, <3>2, PutRegister, Zenon
    <3> QED BY <1>0, <3>1, <3>3, Zenon DEF Inside
  <2> QED BY <2>1, <2>2
<1> QED BY <1>1, <1>3, <1>4

LEMMA FlagsType ==
    ASSUME NEW s \in CpuType, NEW t, Inside(s, t), NEW c, NEW f \in SUBSET Flags
    PROVE  Inside(s, PutFlags(t, c, f)) /\ Inside(s, [t EXCEPT !.f = f])
<1>1. (t.f \ c) \cup f \in SUBSET Flags
  BY DEF Inside, CpuType, CpuFields
<1> QED BY <1>1, PutFields DEF Inside, PutFlags

-----------------------------------------------------------------------------
(* The handlers, family by family.                                          *)

ResultType == [value : Byte, f : SUBSET Flags]

LEMMA ResultIs ==
    ASSUME NEW value \in Int, NEW f \in SUBSET Flags
    PROVE  Result(value, f) \in ResultType
  BY Widths DEF Result, ResultType

LEMMA AccumulateType ==
    ASSUME NEW y \in 0..7, NEW a \in Byte, NEW v \in Int, NEW f \in SUBSET Flags
    PROVE  Accumulate(y, a, v, f) \in ResultType
<1>1. a \in Int /\ CarryOf(f) \in Int
  BY Words DEF CarryOf
<1>2. DO_ADD(a, v) \in ResultType
  <2> DEFINE g == ZeroFlag(a + v) \cup When(IS_ADD_CARRY(a, v), "CARRY")
                    \cup When(IS_ADD_HALF_CARRY(a, v), "HCARRY")
  <2>1. g \in SUBSET Flags
    BY DEF ZeroFlag, When, Flags
  <2> HIDE DEF g
  <2>2. DO_ADD(a, v) = Result(a + v, g)
    BY DEF DO_ADD, g
  <2> QED BY <1>1, <2>1, <2>2, ResultIs
<1>3. DO_ADC(a, v, f) \in ResultType
  <2> DEFINE sum == a + v + CarryOf(f)
             g == ZeroFlag(sum) \cup When(sum > 255, "CARRY")
                    \cup When(CarryInto(4, a, v, sum), "HCARRY")
  <2>1. sum \in Int
    BY <1>1
  <2> HIDE DEF sum
  <2>2. g \in SUBSET Flags
    BY DEF ZeroFlag, When, Flags
  <2>3. DO_ADC(a, v, f) = Result(sum, g)
    BY DEF DO_ADC, sum
  <2> HIDE DEF g
  <2> QED BY <2>1, <2>2, <2>3, ResultIs
<1>4. DO_SUB(a, v) \in ResultType
  <2> DEFINE g == {"SUB"} \cup ZeroFlag(a - v) \cup When(IS_SUB_CARRY(a, v), "CARRY")
                    \cup When(IS_SUB_HALF_CARRY(a, v), "HCARRY")
  <2>1. g \in SUBSET Flags
    BY DEF ZeroFlag, When, Flags
  <2> HIDE DEF g
  <2>2. DO_SUB(a, v) = Result(a - v, g)
    BY DEF DO_SUB, g
  <2> QED BY <1>1, <2>1, <2>2, ResultIs
<1>5. DO_SBC(a, v, f) \in ResultType
  <2> DEFINE sum == W16(a - (v + CarryOf(f)))
             g == {"SUB"} \cup ZeroFlag(sum) \cup When(sum > 255, "CARRY")
                    \cup When(CarryInto(4, a, v, sum), "HCARRY")
  <2>1. a - (v + CarryOf(f)) \in Int
    BY <1>1
  <2>2. sum \in Int
    BY <2>1, Widths, Words
  <2> HIDE DEF sum
  <2>3. g \in SUBSET Flags
    BY DEF ZeroFlag, When, Flags
  <2>4. DO_SBC(a, v, f) = Result(sum, g)
    BY DEF DO_SBC, sum
  <2> HIDE DEF g
  <2> QED BY <2>2, <2>3, <2>4, ResultIs
<1>6. \A S : OfBits(S) \in Int
  BY OfBitsType, Words
<1>7. DO_AND(a, v) \in ResultType
  <2> DEFINE r == OfBits(Bits(a) \cap Bits(v))
  <2>1. ZeroFlag(r) \cup {"HCARRY"} \in SUBSET Flags /\ r \in Int
    BY <1>6 DEF ZeroFlag, When, Flags
  <2> QED BY <2>1, ResultIs DEF DO_AND
<1>8. DO_XOR(a, v) \in ResultType
  <2> DEFINE r == OfBits((Bits(a) \ Bits(v)) \cup (Bits(v) \ Bits(a)))
  <2>1. ZeroFlag(r) \in SUBSET Flags /\ r \in Int
    BY <1>6 DEF ZeroFlag, When, Flags
  <2> QED BY <2>1, ResultIs DEF DO_XOR
<1>9. DO_OR(a, v) \in ResultType
  <2> DEFINE r == OfBits(Bits(a) \cup Bits(v))
  <2>1. ZeroFlag(r) \in SUBSET Flags /\ r \in Int
    BY <1>6 DEF ZeroFlag, When, Flags
  <2> QED BY <2>1, ResultIs DEF DO_OR
<1>10. DO_CP(a, v) \in ResultType
  BY <1>4 DEF DO_CP, ResultType
<1> QED
  <2>1. \/ y = 0 \/ y = 1 \/ y = 2 \/ y = 3 \/ y = 4 \/ y = 5 \/ y = 6 \/ y = 7
    OBVIOUS
  <2> QED BY <2>1, <1>2, <1>3, <1>4, <1>5, <1>7, <1>8, <1>9, <1>10 DEF Accumulate

LEMMA AluType ==
    ASSUME NEW s \in CpuType, NEW y \in 0..7, NEW v \in Int
    PROVE  Inside(s, AluOn(s, y, v))
<1> DEFINE r == Accumulate(y, s.reg["A"], v, s.f)
<1>1. s.reg["A"] \in Byte /\ s.f \in SUBSET Flags
  BY Fields DEF Registers
<1>2. r \in ResultType
  BY <1>1, AccumulateType
<1>3. AluOn(s, y, v) = [s EXCEPT !.reg["A"] = r.value, !.f = r.f]
  BY DEF AluOn
<1> HIDE DEF r
<1>4. r.value \in Byte /\ r.f \in SUBSET Flags
  BY <1>2 DEF ResultType
<1> DEFINE u == [s EXCEPT !.reg["A"] = r.value, !.f = r.f]
<1>5. u \in CpuType /\ u.pc = s.pc
  BY <1>4, PutWithFlags, Zenon
<1> HIDE DEF u
<1> QED BY <1>3, <1>5 DEF Inside, u
LEMMA AluSteps ==
    ASSUME NEW s \in CpuType, NEW y \in 0..7
    PROVE  /\ \A r \in Registers : Passes(s, op_alu_reg(s, y, r), 0)
           /\ Passes(s, op_alu_ind_hl(s, y), 0)
           /\ Passes(s, op_alu_n8(s, y), 1)
<1>1. \A r \in Registers : s.reg[r] \in Int
  BY Fields, Words
<1>2. FromMemory(y, Get(s, "IND_HL")) \in Int /\ FromMemory(y, N8(s)) \in Int
  BY GetType, Words DEF FromMemory, Targets
<1>3. (IF y = 2 THEN 1 ELSE 2) \in 1..6 /\ 1 \in 1..6
  OBVIOUS
<1>4. ASSUME NEW r \in Registers PROVE Passes(s, op_alu_reg(s, y, r), 0)
  <2>1. Inside(s, AluOn(s, y, s.reg[r]))
    BY <1>1, AluType
  <2> QED BY <1>3, <2>1, TookLands DEF op_alu_reg
<1>5. Passes(s, op_alu_ind_hl(s, y), 0)
  <2>1. Inside(s, AluOn(s, y, FromMemory(y, Get(s, "IND_HL"))))
    BY <1>2, AluType
  <2> QED BY <1>3, <2>1, TookLands DEF op_alu_ind_hl
<1>6. Passes(s, op_alu_n8(s, y), 1)
  <2>1. Inside(s, AluOn(s, y, FromMemory(y, N8(s))))
    BY <1>2, AluType
  <2> QED BY <1>3, <2>1, Advanced DEF op_alu_n8
<1> QED BY <1>4, <1>5, <1>6

\* The cycles of the handlers that take more for (HL).
LEMMA Counts ==
    /\ 1 \in 1..6 /\ 2 \in 1..6 /\ 3 \in 1..6 /\ 4 \in 1..6 /\ 5 \in 1..6 /\ 6 \in 1..6
    /\ \A c : (IF c THEN 3 ELSE 1) \in 1..6 /\ (IF c THEN 4 ELSE 2) \in 1..6
              /\ (IF c THEN 3 ELSE 2) \in 1..6 /\ (IF c THEN 2 ELSE 1) \in 1..6
  OBVIOUS

LEMMA SumSteps ==
    ASSUME NEW s \in CpuType
    PROVE  /\ \A r \in Targets : Passes(s, op_inc(s, r), 0) /\ Passes(s, op_dec(s, r), 0)
           /\ \A p \in Pairs : /\ Passes(s, op_inc16(s, p), 0)
                               /\ Passes(s, op_dec16(s, p), 0)
                               /\ Passes(s, op_add_hl(s, p), 0)
<1>0. Inside(s, s)
  BY DEF Inside
<1>1. ASSUME NEW r \in Targets PROVE Passes(s, op_inc(s, r), 0)
  <2> DEFINE v == Get(s, r)
             f == ZeroFlag(v + 1) \cup When(IS_ADD_HALF_CARRY(v, 1), "HCARRY")
  <2>1. v + 1 \in Int
    BY GetType, Words
  <2>2. f \in SUBSET Flags
    BY DEF ZeroFlag, When, Flags
  <2>3. op_inc(s, r) = Took(PutFlags(Put(s, r, v + 1), {"SUB", "HCARRY", "ZERO"}, f),
                            IF r = "IND_HL" THEN 3 ELSE 1)
    BY DEF op_inc
  <2> HIDE DEF v, f
  <2>4. Inside(s, PutFlags(Put(s, r, v + 1), {"SUB", "HCARRY", "ZERO"}, f))
    BY <1>0, <2>1, <2>2, PutType, FlagsType
  <2> QED BY <2>3, <2>4, TookLands, Counts
<1>2. ASSUME NEW r \in Targets PROVE Passes(s, op_dec(s, r), 0)
  <2> DEFINE v == Get(s, r)
             f == {"SUB"} \cup ZeroFlag(v - 1)
                    \cup When(IS_SUB_HALF_CARRY(v, 1), "HCARRY")
  <2>1. v - 1 \in Int
    BY GetType, Words
  <2>2. f \in SUBSET Flags
    BY DEF ZeroFlag, When, Flags
  <2>3. op_dec(s, r) = Took(PutFlags(Put(s, r, v - 1), {"SUB", "HCARRY", "ZERO"}, f),
                            IF r = "IND_HL" THEN 3 ELSE 1)
    BY DEF op_dec
  <2> HIDE DEF v, f
  <2>4. Inside(s, PutFlags(Put(s, r, v - 1), {"SUB", "HCARRY", "ZERO"}, f))
    BY <1>0, <2>1, <2>2, PutType, FlagsType
  <2> QED BY <2>3, <2>4, TookLands, Counts
<1>3. ASSUME NEW p \in Pairs
      PROVE  Passes(s, op_inc16(s, p), 0) /\ Passes(s, op_dec16(s, p), 0)
  <2>0. Get16(s, p) \in Int
    BY GetType, Words, Zenon
  <2>1. Get16(s, p) + 1 \in Int /\ Get16(s, p) - 1 \in Int
    BY <2>0
  <2>2. Inside(s, Put16(s, p, Get16(s, p) + 1)) /\ Inside(s, Put16(s, p, Get16(s, p) - 1))
    BY <1>0, <2>1, PutType
  <2> QED BY <2>2, TookLands, Counts DEF op_inc16, op_dec16
<1>4. ASSUME NEW p \in Pairs PROVE Passes(s, op_add_hl(s, p), 0)
  <2> DEFINE v == Get16(s, p)
             f == When(IS_ADD16_CARRY(HL(s), v), "CARRY")
                    \cup When(IS_ADD16_HALF_CARRY(HL(s), v), "HCARRY")
             t == PutFlags(Put16(s, "HL", HL(s) + v), {"CARRY", "HCARRY", "SUB"}, f)
  <2>0. HL(s) \in Int /\ v \in Int
    BY GetType, Words, Zenon
  <2>1. HL(s) + v \in Int /\ "HL" \in Pairs
    BY <2>0 DEF Pairs
  <2>2. f \in SUBSET Flags
    BY DEF When, Flags
  <2>3. op_add_hl(s, p) = Took(t, 2)
    BY DEF op_add_hl
  <2> HIDE DEF v, f
  <2>4. Inside(s, t)
    BY <1>0, <2>1, <2>2, PutType, FlagsType
  <2> HIDE DEF t
  <2> QED BY <2>3, <2>4, TookLands, Counts
<1> QED BY <1>1, <1>2, <1>3, <1>4

LEMMA OffsetSteps ==
    ASSUME NEW s \in CpuType
    PROVE  Passes(s, op_add_sp_e8(s), 1) /\ Passes(s, op_ld_hl_sp_e8(s), 1)
<1>1. SpPlus(s) \in Word /\ SpPlus(s) \in Int
  <2>0. s.sp \in Int /\ Int8(N8(s)) \in Int
    BY GetType, Fields, Words, Zenon
  <2>1. s.sp + Int8(N8(s)) \in Int
    BY <2>0
  <2> QED BY <2>1, Widths, Words DEF SpPlus
<1>2. SpFlags(s) \in SUBSET Flags
  BY DEF SpFlags, When, Flags
<1> DEFINE t == [s EXCEPT !.f = SpFlags(s)]
           u == [s EXCEPT !.sp = SpPlus(s), !.f = SpFlags(s)]
<1>3. Inside(s, t)
  BY <1>2, PutFields, Zenon DEF Inside
<1>4. Inside(s, u)
  BY <1>1, <1>2 DEF Inside, CpuType, CpuFields
<1>5. op_add_sp_e8(s) = Took(ADVANCE_PC(u, 1), 4)
  BY DEF op_add_sp_e8
<1>6. op_ld_hl_sp_e8(s) = Took(ADVANCE_PC(Put16(t, "HL", SpPlus(s)), 1), 3)
  BY DEF op_ld_hl_sp_e8
<1> HIDE DEF t, u
<1>7. Inside(s, Put16(t, "HL", SpPlus(s)))
  BY <1>1, <1>3, PutType DEF Pairs
<1> QED BY <1>4, <1>5, <1>6, <1>7, Advanced, Counts

LEMMA AccumulatorSteps ==
    ASSUME NEW s \in CpuType
    PROVE  /\ Passes(s, op_daa(s), 0) /\ Passes(s, op_cpl(s), 0)
           /\ Passes(s, op_scf(s), 0) /\ Passes(s, op_ccf(s), 0)
<1>0. /\ Inside(s, s) /\ s.reg["A"] \in Byte /\ s.f \in SUBSET Flags
      /\ s.reg["A"] \in Int /\ "A" \in Targets
  BY Fields, Words DEF Inside, Registers, Targets
<1>1. Passes(s, op_daa(s), 0)
  <2> DEFINE r == Daa(s.reg["A"], s.f)
  <2>1. DaaSum(s.reg["A"], s.f) \in Int
    <3> DEFINE a == s.reg["A"]
    <3> SUFFICES a \in Int => DaaSum(a, s.f) \in Int
      BY <1>0
    <3> HIDE DEF a
    <3> QED BY Widths DEF DaaSum, W8, W16
  <2>2. r \in ResultType
    <3> DEFINE sum == DaaSum(s.reg["A"], s.f)
               g == (s.f \ {"HCARRY", "ZERO"}) \cup ZeroFlag(sum)
                      \cup When(Bit(sum, 8) = 1, "CARRY")
    <3>1. g \in SUBSET Flags
      BY <1>0 DEF ZeroFlag, When, Flags
    <3>2. r = Result(sum, g)
      BY DEF Daa
    <3> HIDE DEF g, sum
    <3>3. sum \in Int
      BY <2>1 DEF sum
    <3> QED BY <3>1, <3>2, <3>3, ResultIs
  <2> DEFINE u == [s EXCEPT !.reg["A"] = r.value, !.f = r.f]
  <2>3. op_daa(s) = Took(u, 1)
    BY DEF op_daa
  <2> HIDE DEF r
  <2>4. r.value \in Byte /\ r.f \in SUBSET Flags
    BY <2>2 DEF ResultType
  <2>5. u \in CpuType /\ u.pc = s.pc
    BY <2>4, PutWithFlags, Zenon
  <2> HIDE DEF u
  <2> QED BY <2>3, <2>5, TookLands, Counts DEF Inside
<1>2. Passes(s, op_cpl(s), 0)
  <2>1. Inside(s, Put(s, "A", 255 - s.reg["A"]))
    BY <1>0, PutType
  <2>2. Inside(s, PutFlags(Put(s, "A", 255 - s.reg["A"]), {}, {"SUB", "HCARRY"}))
    BY <2>1, FlagsType DEF Flags
  <2> QED BY <2>2, TookLands, Counts DEF op_cpl
<1>3. Passes(s, op_scf(s), 0) /\ Passes(s, op_ccf(s), 0)
  <2>1. {"CARRY"} \in SUBSET Flags /\ {"CARRY"} \ s.f \in SUBSET Flags
    BY DEF Flags
  <2>2. /\ Inside(s, PutFlags(s, {"SUB", "HCARRY"}, {"CARRY"}))
        /\ Inside(s, PutFlags(s, {"SUB", "HCARRY", "CARRY"}, {"CARRY"} \ s.f))
    BY <1>0, <2>1, FlagsType
  <2> QED BY <2>2, TookLands, Counts DEF op_scf, op_ccf
<1> QED BY <1>1, <1>2, <1>3
LEMMA TurnSteps ==
    ASSUME NEW s \in CpuType, NEW y \in 0..7, NEW r \in Targets
    PROVE  /\ Passes(s, op_turn(s, y, r), 0) /\ Passes(s, op_turn_a(s, y), 0)
           /\ Passes(s, op_bit(s, y, r), 0)
           /\ Passes(s, op_rst(s, y, r), 0) /\ Passes(s, op_set(s, y, r), 0)
<1>0. Inside(s, s)
  BY DEF Inside
<1>1. ASSUME NEW q \in Targets
      PROVE  Passes(s, op_turn(s, y, q), 0) /\ Inside(s, op_turn(s, y, q))
  <2> DEFINE v == Get(s, q)
             t == Turn(y, v, s.f)
             f == ZeroFlag(t[1]) \cup When(t[2] = 1, "CARRY")
             u == [Put(s, q, t[1]) EXCEPT !.f = f]
  <2>1. v \in Int /\ CarryOf(s.f) \in Int
    BY GetType, Words DEF CarryOf
  <2>2. t[1] \in Int
    <3> HIDE DEF v
    <3>1. /\ DO_RLC(v)[1] \in Int /\ DO_RRC(v)[1] \in Int
          /\ DO_RL(v, s.f)[1] \in Int /\ DO_RR(v, s.f)[1] \in Int
      BY <2>1 DEF DO_RLC, DO_RRC, DO_RL, DO_RR, W8, Top, Low
    <3>2. /\ DO_SLA(v)[1] \in Int /\ DO_SRA(v)[1] \in Int
          /\ DO_SWP(v)[1] \in Int /\ DO_SRL(v)[1] \in Int
      BY <2>1 DEF DO_SLA, DO_SRA, DO_SWP, DO_SRL, W8, Top, Low
    <3>3. y = 0 \/ y = 1 \/ y = 2 \/ y = 3 \/ y = 4 \/ y = 5 \/ y = 6 \/ y = 7
      OBVIOUS
    <3> QED BY <3>1, <3>2, <3>3 DEF Turn
  <2>3. f \in SUBSET Flags
    BY DEF ZeroFlag, When, Flags
  <2>4. op_turn(s, y, q) = Took(u, IF q = "IND_HL" THEN 4 ELSE 2)
    BY DEF op_turn
  <2> HIDE DEF v, t, f
  <2>5. Inside(s, u)
    BY <1>0, <2>2, <2>3, PutType, FlagsType, Zenon
  <2> HIDE DEF u
  <2> QED BY <2>4, <2>5, TookLands, Counts
<1>2. Passes(s, op_turn_a(s, y), 0)
  <2> DEFINE t == op_turn(s, y, "A")
             f == t.f \ {"ZERO"}
  <2>1. Inside(s, t)
    BY <1>1 DEF Targets
  <2>2. op_turn_a(s, y) = Took([t EXCEPT !.f = f], 1)
    BY DEF op_turn_a
  <2> HIDE DEF t
  <2>3. f \in SUBSET Flags
    BY <2>1, Fields DEF Inside
  <2> HIDE DEF f
  <2>4. Inside(s, [t EXCEPT !.f = f])
    BY <2>1, <2>3, FlagsType, Zenon
  <2> QED BY <2>2, <2>4, TookLands, Counts
<1>3. Passes(s, op_bit(s, y, r), 0)
  <2> DEFINE f == {"HCARRY"} \cup When(y \notin Bits(Get(s, r)), "ZERO")
  <2>1. f \in SUBSET Flags
    BY DEF When, Flags
  <2>2. op_bit(s, y, r) = Took(PutFlags(s, {"ZERO", "SUB"}, f), IF r = "IND_HL" THEN 3 ELSE 2)
    BY DEF op_bit
  <2> HIDE DEF f
  <2>3. Inside(s, PutFlags(s, {"ZERO", "SUB"}, f))
    BY <1>0, <2>1, FlagsType
  <2> QED BY <2>2, <2>3, TookLands, Counts
<1>4. Passes(s, op_rst(s, y, r), 0) /\ Passes(s, op_set(s, y, r), 0)
  <2> DEFINE v == OfBits(Bits(Get(s, r)) \ {y})
             w == OfBits(Bits(Get(s, r)) \cup {y})
  <2>1. v \in Int /\ w \in Int
    BY OfBitsType, Words, Zenon
  <2>2. /\ op_rst(s, y, r) = Took(Put(s, r, v), IF r = "IND_HL" THEN 4 ELSE 2)
        /\ op_set(s, y, r) = Took(Put(s, r, w), IF r = "IND_HL" THEN 4 ELSE 2)
    BY DEF op_rst, op_set
  <2> HIDE DEF v, w
  <2>3. Inside(s, Put(s, r, v)) /\ Inside(s, Put(s, r, w))
    BY <1>0, <2>1, PutType
  <2> QED BY <2>2, <2>3, TookLands, Counts
<1> QED BY <1>1, <1>2, <1>3, <1>4

LEMMA LoadSteps ==
    ASSUME NEW s \in CpuType
    PROVE  /\ \A d \in Targets, r \in Registers : Passes(s, op_ld_reg_reg(s, d, r), 0)
           /\ \A d \in Registers : Passes(s, op_ld_reg_ind_hl(s, d), 0)
           /\ \A r \in Registers : Passes(s, op_ld_ind_hl_reg(s, r), 0)
           /\ \A d \in Targets : Passes(s, op_ld_n8(s, d), 1)
           /\ \A p \in Pairs : Passes(s, op_ld_n16(s, p), 2)
           /\ Passes(s, op_ld_sp_hl(s), 0)
<1>0. Inside(s, s) /\ "IND_HL" \in Targets /\ Registers \subseteq Targets
  BY DEF Inside, Targets, Registers
<1>1. \A d \in Registers : s.reg[d] \in Int
  BY Fields, Words, Zenon
<1>2. Get(s, "IND_HL") \in Int /\ N8(s) \in Int /\ N16(s) \in Int /\ HL(s) \in Word
  BY <1>0, GetType, Words, Zenon
<1>3. ASSUME NEW d \in Targets, NEW r \in Registers
      PROVE  Passes(s, op_ld_reg_reg(s, d, r), 0)
  <2>1. Inside(s, Put(s, d, s.reg[r]))
    BY <1>0, <1>1, PutType, Zenon
  <2> QED BY <2>1, TookLands, Counts DEF op_ld_reg_reg
<1>4. ASSUME NEW d \in Registers PROVE Passes(s, op_ld_reg_ind_hl(s, d), 0)
  <2>1. Inside(s, Put(s, d, Get(s, "IND_HL")))
    BY <1>0, <1>2, PutType
  <2>2. (IF d \in {"A", "B"} THEN 2 ELSE 1) \in 1..6
    OBVIOUS
  <2> QED BY <2>1, <2>2, TookLands, Zenon DEF op_ld_reg_ind_hl
<1>5. ASSUME NEW r \in Registers PROVE Passes(s, op_ld_ind_hl_reg(s, r), 0)
  <2>1. Inside(s, Put(s, "IND_HL", s.reg[r]))
    BY <1>0, <1>1, PutType
  <2> QED BY <2>1, TookLands, Counts DEF op_ld_ind_hl_reg
<1>6. ASSUME NEW d \in Targets PROVE Passes(s, op_ld_n8(s, d), 1)
  <2>1. Inside(s, Put(s, d, N8(s)))
    BY <1>0, <1>2, PutType
  <2>2. (IF d = "IND_HL" THEN 3 ELSE 2) \in 1..6 /\ 1 \in Int
    OBVIOUS
  <2> QED BY <2>1, <2>2, Advanced, Zenon DEF op_ld_n8
<1>7. ASSUME NEW p \in Pairs PROVE Passes(s, op_ld_n16(s, p), 2)
  <2>1. Inside(s, Put16(s, p, N16(s)))
    BY <1>0, <1>2, PutType
  <2> QED BY <2>1, Advanced, Counts DEF op_ld_n16
<1>8. Passes(s, op_ld_sp_hl(s), 0)
  <2>1. Inside(s, [s EXCEPT !.sp = HL(s)])
    BY <1>2, PutFields, Zenon DEF Inside
  <2> QED BY <2>1, TookLands, Counts DEF op_ld_sp_hl
<1> QED BY <1>3, <1>4, <1>5, <1>6, <1>7, <1>8
LEMMA IndirectSteps ==
    ASSUME NEW s \in CpuType
    PROVE  /\ \A a \in Word : /\ Passes(s, op_ld_ind_a(s, a), 0)
                              /\ Inside(s, op_ld_ind_a(s, a))
                              /\ Passes(s, op_ld_a_ind(s, a), 0)
                              /\ Inside(s, op_ld_a_ind(s, a))
           /\ Passes(s, op_ld_ind_a16_sp(s), 2)
           /\ Passes(s, op_ld_ind_a16_a(s), 2) /\ Passes(s, op_ld_a_ind_a16(s), 2)
           /\ Passes(s, op_ldh_ind_a8_a(s), 1) /\ Passes(s, op_ldh_a_ind_a8(s), 1)
           /\ Passes(s, op_ldh_ind_c_a(s), 0) /\ Passes(s, op_ldh_a_ind_c(s), 0)
<1>0. Inside(s, s) /\ "A" \in Targets /\ "A" \in Registers /\ "C" \in Registers
  BY DEF Inside, Targets, Registers
<1>1. N16(s) \in Word /\ N8(s) \in Byte /\ s.reg["A"] \in Int /\ s.reg["C"] \in Byte
  BY <1>0, GetType, Fields, Words, Zenon
<1>2. \A b \in Byte : HighPage(b) \in Word
  BY Ranges DEF HighPage
<1>3. ASSUME NEW a \in Word
      PROVE  /\ Passes(s, op_ld_ind_a(s, a), 0) /\ Inside(s, op_ld_ind_a(s, a))
             /\ Passes(s, op_ld_a_ind(s, a), 0) /\ Inside(s, op_ld_a_ind(s, a))
  <2>0. a \in Int
    BY Words
  <2>1. Inside(s, monitor_wr_mem(s, a, s.reg["A"]))
    BY <1>0, <1>1, <2>0, PutType
  <2>2. monitor_rd_mem(s, a) \in Int
    BY <2>0, ReadType, Words, Zenon
  <2>3. Inside(s, Put(s, "A", monitor_rd_mem(s, a)))
    BY <1>0, <2>2, PutType
  <2> QED BY <2>1, <2>3, TookLands, Counts DEF op_ld_ind_a, op_ld_a_ind
<1>4. Passes(s, op_ld_ind_a16_sp(s), 2)
  <2> DEFINE t == monitor_wr_mem(s, N16(s), W8(s.sp))
             u == monitor_wr_mem(t, N16(s) + 1, s.sp \div 256)
  <2>1. N16(s) \in Int /\ W8(s.sp) \in Int /\ s.sp \div 256 \in Int
    BY <1>1, Fields, Widths, Words, Zenon
  <2>2. N16(s) + 1 \in Int
    BY <2>1
  <2>3. op_ld_ind_a16_sp(s) = Took(ADVANCE_PC(u, 2), 5)
    BY DEF op_ld_ind_a16_sp, WR_WORD
  <2>4. Inside(s, t)
    BY <1>0, <2>1, PutType
  <2> HIDE DEF t
  <2>5. Inside(s, u)
    BY <2>1, <2>2, <2>4, PutType
  <2> HIDE DEF u
  <2> QED BY <2>3, <2>5, Advanced, Counts
<1>5. Passes(s, op_ld_ind_a16_a(s), 2) /\ Passes(s, op_ld_a_ind_a16(s), 2)
  BY <1>1, <1>3, Advanced, Counts DEF op_ld_ind_a16_a, op_ld_a_ind_a16
<1>6. /\ Passes(s, op_ldh_ind_a8_a(s), 1) /\ Passes(s, op_ldh_a_ind_a8(s), 1)
      /\ Passes(s, op_ldh_ind_c_a(s), 0) /\ Passes(s, op_ldh_a_ind_c(s), 0)
  <2>1. HighPage(N8(s)) \in Word /\ HighPage(s.reg["C"]) \in Word
    BY <1>1, <1>2
  <2> QED BY <1>3, <2>1, Advanced, Counts
          DEF op_ldh_ind_a8_a, op_ldh_a_ind_a8, op_ldh_ind_c_a, op_ldh_a_ind_c
<1> QED BY <1>3, <1>4, <1>5, <1>6

\* LDI and LDD move HL after the load, whose cycles they report.
LEMMA ThenHLPasses ==
    ASSUME NEW s \in CpuType, NEW t, Passes(s, t, 0), NEW d \in Int
    PROVE  Passes(s, ThenHL(t, d), 0)
<1>1. t \in CpuType /\ t.cycles \in 1..6 /\ t.pc = W16(s.pc + 0)
  BY DEF Passes, Lands
<1>2. HL(t) \in Int
  BY <1>1, GetType, Words, Zenon
<1> DEFINE v == HL(t) + d
           u == Put16(t, "HL", v)
<1>3. v \in Int
  BY <1>2
<1>4. u.cycles = t.cycles
  <2> HIDE DEF v
  <2>1. u = [t EXCEPT !.reg["H"] = W16(v) \div 256, !.reg["L"] = W8(v)]
    BY DEF Put16, HighOf, LowOf
  <2> HIDE DEF u
  <2> QED BY <1>1, <2>1 DEF CpuType, CpuFields
<1>5. ThenHL(t, d) = u
  BY DEF ThenHL
<1>6. Inside(t, u)
  <2> HIDE DEF v
  <2>1. Inside(t, t) /\ "HL" \in Pairs
    BY <1>1 DEF Inside, Pairs
  <2> QED BY <1>1, <1>3, <2>1, PutType
<1> HIDE DEF u
<1> QED BY <1>1, <1>4, <1>5, <1>6 DEF Passes, Lands, Inside

-----------------------------------------------------------------------------
(* The stack, jumps and calls.                                              *)

LEMMA PushType ==
    ASSUME NEW s \in CpuType, NEW v \in Word
    PROVE  /\ Inside(s, Push(s, v)) /\ Push(s, v).sp = W16(s.sp - 2)
           /\ Push(s, v).cycles = s.cycles /\ Push(s, v).is_halted = s.is_halted
           /\ Push(s, v).reg = s.reg /\ Push(s, v).f = s.f
           /\ Push(s, v).ime_enabled = s.ime_enabled
<1> DEFINE n == W16(s.sp - 2)
           t == [s EXCEPT !.sp = n]
           u == monitor_wr_mem(t, n, W8(v))
           w == monitor_wr_mem(u, n + 1, v \div 256)
<1>1. n \in Word
  <2>1. s.sp \in Int
    BY Fields, Words, Zenon
  <2>2. s.sp - 2 \in Int
    BY <2>1
  <2> QED BY <2>2, Widths
<1>2. /\ t \in CpuType /\ t.sp = n /\ t.pc = s.pc /\ t.cycles = s.cycles
      /\ t.is_halted = s.is_halted /\ t.reg = s.reg /\ t.f = s.f
      /\ t.ime_enabled = s.ime_enabled
  <2> HIDE DEF n
  <2> QED BY <1>1 DEF CpuType, CpuFields
<1>3. W8(v) \in Int /\ v \div 256 \in Int /\ n \in Int
  BY <1>1, Widths, Words, Zenon
<1>4. n + 1 \in Int
  BY <1>3
<1>5. Push(s, v) = w
  <2> HIDE DEF n
  <2>1. Push(s, v) = WR_WORD(t, t.sp, v)
    BY DEF Push, n
  <2> QED BY <1>2, <2>1 DEF WR_WORD
<1> HIDE DEF t, n
<1>6. u \in CpuType /\ Wrote(t, u)
  BY <1>2, <1>3, WriteType
<1> HIDE DEF u
<1>7. w \in CpuType /\ Wrote(u, w)
  BY <1>3, <1>4, <1>6, WriteType
<1> HIDE DEF w
<1>8. /\ w.pc = s.pc /\ w.sp = n /\ w.cycles = s.cycles
      /\ w.is_halted = s.is_halted /\ w.reg = s.reg /\ w.f = s.f
      /\ w.ime_enabled = s.ime_enabled
  BY <1>2, <1>6, <1>7 DEF Wrote
<1> QED BY <1>5, <1>7, <1>8 DEF Inside, n

LEMMA DropType ==
    ASSUME NEW s \in CpuType, NEW t \in CpuType
    PROVE  Drop(t) \in CpuType /\ Drop(t).pc = t.pc
<1>1. W16(t.sp + 2) \in Word
  <2>1. t.sp \in Int
    BY Fields, Words, Zenon
  <2>2. t.sp + 2 \in Int
    BY <2>1
  <2> QED BY <2>2, Widths
<1>2. Drop(t) = [t EXCEPT !.sp = W16(t.sp + 2)]
  BY DEF Drop
<1>3. /\ [t EXCEPT !.sp = W16(t.sp + 2)] \in CpuType
      /\ [t EXCEPT !.sp = W16(t.sp + 2)].pc = t.pc
  BY <1>1, PutFields, Zenon
<1> QED BY <1>2, <1>3, Zenon

LEMMA StackSteps ==
    ASSUME NEW s \in CpuType, NEW p \in Pairs
    PROVE  Passes(s, op_push(s, p), 0) /\ Passes(s, op_pop(s, p), 0)
<1>0. Inside(s, s)
  BY DEF Inside
<1>1. Inside(s, Push(s, Get16(s, p)))
  BY GetType, PushType
<1>2. Inside(s, Put16(s, p, Pushed(s)))
  <2>1. Pushed(s) \in Int
    BY GetType, Words, Zenon
  <2> QED BY <1>0, <2>1, PutType
<1>3. Inside(s, Drop(Put16(s, p, Pushed(s))))
  BY <1>2, DropType DEF Inside
<1> QED BY <1>1, <1>3, TookLands, Counts DEF op_push, op_pop

LEMMA JumpSteps ==
    ASSUME NEW s \in CpuType
    PROVE  /\ Lands(DO_JMP(s)) /\ Lands(op_jmp_hl(s)) /\ Lands(DO_JR(s))
           /\ \A c : Lands(op_jmp_cond(s, c)) /\ Lands(op_jr_cond(s, c))
<1>0. Inside(s, s) /\ N16(s) \in Word /\ HL(s) \in Word /\ Int8(N8(s)) \in Int
  BY GetType, Words, Zenon DEF Inside
<1>1. Lands(DO_JMP(s))
  <2>1. [s EXCEPT !.pc = N16(s)] \in CpuType
    BY <1>0, PutFields, Zenon
  <2> QED BY <2>1, TookLands, Counts DEF DO_JMP, Passes, Inside
<1>2. Lands(op_jmp_hl(s))
  <2>1. [s EXCEPT !.pc = HL(s)] \in CpuType
    BY <1>0, PutFields, Zenon
  <2> QED BY <2>1, TookLands, Counts DEF op_jmp_hl, Passes, Inside
<1>3. Lands(DO_JR(s))
  <2>1. 1 + Int8(N8(s)) \in Int
    BY <1>0
  <2> QED BY <1>0, <2>1, Advanced, Counts DEF DO_JR, Passes
<1>4. ASSUME NEW c PROVE Lands(op_jmp_cond(s, c)) /\ Lands(op_jr_cond(s, c))
  <2>1. Lands(Took(ADVANCE_PC(s, 2), 3)) /\ Lands(Took(ADVANCE_PC(s, 1), 2))
    BY <1>0, Advanced, Counts DEF Passes
  <2> QED BY <1>1, <1>3, <2>1, Zenon DEF op_jmp_cond, op_jr_cond
<1> QED BY <1>1, <1>2, <1>3, <1>4

\* What CALL, RST and an interrupt do.
LEMMA CallType ==
    ASSUME NEW s \in CpuType, NEW a \in Word
    PROVE  /\ CallTo(s, a) \in CpuType /\ CallTo(s, a).pc = a
           /\ CallTo(s, a).sp = W16(s.sp - 2) /\ CallTo(s, a).cycles = s.cycles
<1> DEFINE t == Push(s, s.pc)
<1>1. t \in CpuType /\ t.sp = W16(s.sp - 2) /\ t.cycles = s.cycles
  BY Fields, PushType DEF Inside
<1>2. CallTo(s, a) = [t EXCEPT !.pc = a]
  BY DEF CallTo
<1> HIDE DEF t
<1>3. [t EXCEPT !.pc = a] \in CpuType /\ [t EXCEPT !.pc = a].pc = a
  BY <1>1, PutFields, Zenon
<1>4. [t EXCEPT !.pc = a].sp = t.sp /\ [t EXCEPT !.pc = a].cycles = t.cycles
  BY <1>1 DEF CpuType, CpuFields
<1> QED BY <1>1, <1>2, <1>3, <1>4, Zenon

LEMMA CallSteps ==
    ASSUME NEW s \in CpuType
    PROVE  /\ Lands(DO_CALL(s))
           /\ \A c : Lands(op_call_cond(s, c)) /\ Lands(op_ret_cond(s, c))
           /\ \A y \in 0..7 : Lands(op_restart(s, y))
           /\ Lands(op_ret(s)) /\ Lands(op_reti(s))
<1>0. Inside(s, s) /\ N16(s) \in Word
  BY GetType, Zenon DEF Inside
<1>1. \A t \in CpuType, n \in 1..6 : Lands(Took(t, n))
  BY TookLands DEF Passes, Inside
<1>2. ADVANCE_PC(s, 2) \in CpuType
  BY <1>0, Advanced, Counts
<1>3. Lands(DO_CALL(s))
  <2>1. CallTo(ADVANCE_PC(s, 2), N16(s)) \in CpuType
    BY <1>0, <1>2, CallType
  <2> QED BY <1>1, <2>1, Counts DEF DO_CALL
<1>4. ASSUME NEW y \in 0..7 PROVE Lands(op_restart(s, y))
  <2>1. 8 * y \in Word
    BY Ranges
  <2>2. CallTo(s, 8 * y) \in CpuType
    BY <2>1, CallType
  <2> QED BY <1>1, <2>2, Counts DEF op_restart
<1>5. DO_RET(s) \in CpuType
  <2>1. Pushed(s) \in Word
    BY GetType
  <2>2. [s EXCEPT !.pc = Pushed(s)] \in CpuType
    BY <2>1, PutFields, Zenon
  <2> QED BY <2>2, DropType DEF DO_RET
<1>6. [DO_RET(s) EXCEPT !.ime_enabled = TRUE] \in CpuType
  BY <1>5, PutFields, Zenon
<1>7. Lands(op_ret(s)) /\ Lands(op_reti(s))
  BY <1>1, <1>5, <1>6, Counts DEF op_ret, op_reti
<1>8. ASSUME NEW c PROVE Lands(op_call_cond(s, c)) /\ Lands(op_ret_cond(s, c))
  <2>1. Lands(Took(ADVANCE_PC(s, 2), 3)) /\ Lands(Took(s, 2)) /\ Lands(Took(DO_RET(s), 5))
    BY <1>1, <1>2, <1>5, Counts
  <2> QED BY <1>3, <2>1, Zenon DEF op_call_cond, op_ret_cond
<1> QED BY <1>3, <1>4, <1>7, <1>8

LEMMA OtherSteps ==
    ASSUME NEW s \in CpuType
    PROVE  /\ Passes(s, op_nop(s), 0) /\ Passes(s, op_stop_n8(s), 1)
           /\ Passes(s, op_halt(s), 0)
           /\ Passes(s, op_dis_ints(s), 0) /\ Passes(s, op_ena_ints(s), 0)
<1>1. /\ Inside(s, s) /\ Inside(s, [s EXCEPT !.is_halted = TRUE])
      /\ Inside(s, [s EXCEPT !.ime_enabled = FALSE])
      /\ Inside(s, [s EXCEPT !.ime_enabled = TRUE])
  BY PutFields, Zenon DEF Inside
<1> QED BY <1>1, TookLands, Advanced, Counts
        DEF op_nop, op_stop_n8, op_halt, op_dis_ints, op_ena_ints
-----------------------------------------------------------------------------
(* The table of handlers.                                                   *)

Field == 0..7

LEMMA Fields8 ==
    /\ \A y \in Field : y = 0 \/ y = 1 \/ y = 2 \/ y = 3 \/ y = 4 \/ y = 5 \/ y = 6 \/ y = 7
    /\ \A y \in Field : Operand[y + 1] \in Targets
    /\ \A y \in Field : y # 6 => Operand[y + 1] \in Registers
    /\ \A y \in Field : Pair[y \div 2 + 1] \in Pairs
    /\ \A y \in Field : <<"BC", "DE", "HL", "AF">>[y \div 2 + 1] \in Pairs
    /\ Operand[7] = "IND_HL" /\ Registers \subseteq Targets /\ "IND_HL" \notin Registers
<1>1. \A y \in Field : y = 0 \/ y = 1 \/ y = 2 \/ y = 3 \/ y = 4 \/ y = 5 \/ y = 6 \/ y = 7
  BY DEF Field
<1>2. ASSUME NEW y \in Field
      PROVE  Operand[y + 1] \in Targets /\ (y # 6 => Operand[y + 1] \in Registers)
  BY <1>1 DEF Operand, Targets, Registers
<1>3. ASSUME NEW y \in Field
      PROVE  /\ Pair[y \div 2 + 1] \in Pairs
             /\ <<"BC", "DE", "HL", "AF">>[y \div 2 + 1] \in Pairs
  <2>1. y \div 2 = 0 \/ y \div 2 = 1 \/ y \div 2 = 2 \/ y \div 2 = 3
    BY <1>1
  <2> QED BY <2>1 DEF Pair, Pairs
<1>4. Operand[7] = "IND_HL" /\ Registers \subseteq Targets /\ "IND_HL" \notin Registers
  BY DEF Operand, Registers, Targets
<1> QED BY <1>1, <1>2, <1>3, <1>4

\* The bytes of operands behind the opcode with the fields x, y and z.
OperandBytes(x, y, z) ==
    CASE x = 0 /\ z = 0 -> IF y = 1 THEN 2 ELSE IF y = 0 THEN 0 ELSE 1
      [] x = 0 /\ z = 1 -> IF y % 2 = 1 THEN 0 ELSE 2
      [] x = 0 /\ z = 6 -> 1
      [] x = 3 /\ z = 0 -> IF y \in 0..3 THEN 0 ELSE 1
      [] x = 3 /\ z = 2 -> IF y \in {4, 6} THEN 0 ELSE 2
      [] x = 3 /\ z = 6 -> 1
      [] OTHER -> 0
\* The jumps, calls, returns and restarts.
Leaves(x, y, z) ==
    \/ x = 0 /\ z = 0 /\ y \in 3..7
    \/ x = 3 /\ z = 0 /\ y \in 0..3
    \/ x = 3 /\ z = 1 /\ y \in {1, 3, 5}
    \/ x = 3 /\ z = 2 /\ y \in 0..3
    \/ x = 3 /\ z = 3 /\ y = 0
    \/ x = 3 /\ z = 4 /\ y \in 0..3
    \/ x = 3 /\ z = 5 /\ y = 1
    \/ x = 3 /\ z = 7

\* How a handler of the table ends.
Ends(s, t, x, y, z) ==
    Lands(t) /\ (~Leaves(x, y, z) => Passes(s, t, OperandBytes(x, y, z)))

LEMMA Block0Ends ==
    ASSUME NEW s \in CpuType, NEW y \in Field, NEW z \in Field
    PROVE  Ends(s, Block0(s, y, z), 0, y, z)
<1> DEFINE p == Pair[y \div 2 + 1]
           r == Operand[y + 1]
           t == Block0(s, y, z)
<1>1. p \in Pairs /\ r \in Targets /\ y \in 0..7
  BY Fields8 DEF Field
<1>2. CASE z = 0
  <2>0. z # 1 /\ z # 2 /\ z # 3 /\ z # 4 /\ z # 5 /\ z # 6 /\ z # 7
    BY <1>2
  <2>1. t = CASE y = 0 -> op_nop(s)
              [] y = 1 -> op_ld_ind_a16_sp(s)
              [] y = 2 -> op_stop_n8(s)
              [] y = 3 -> DO_JR(s)
              [] y \in 4..7 -> op_jr_cond(s, Cond(s, y - 4))
    BY <1>2, <2>0, Zenon DEF Block0
  <2>2. CASE y = 0
    BY <2>1, <2>2, <1>2, OtherSteps DEF Ends, Leaves, OperandBytes, Passes
  <2>3. CASE y = 1
    BY <2>1, <2>3, <1>2, IndirectSteps DEF Ends, Leaves, OperandBytes, Passes
  <2>4. CASE y = 2
    BY <2>1, <2>4, <1>2, OtherSteps DEF Ends, Leaves, OperandBytes, Passes
  <2>5. CASE y = 3
    BY <2>1, <2>5, <1>2, JumpSteps DEF Ends, Leaves
  <2>6. CASE y \in 4..7
    BY <2>1, <2>6, <1>2, JumpSteps DEF Ends, Leaves
  <2> QED BY <2>2, <2>3, <2>4, <2>5, <2>6, Fields8
<1>3. CASE z = 1
  <2>1. t = IF y % 2 = 1 THEN op_add_hl(s, p) ELSE op_ld_n16(s, p)
    BY <1>3 DEF Block0
  <2> HIDE DEF p, t
  <2>2. Passes(s, t, OperandBytes(0, y, z))
    BY <1>1, <1>3, <2>1, SumSteps, LoadSteps DEF OperandBytes
  <2> QED BY <2>2 DEF Ends, Passes, t
<1>4. CASE z = 2
  <2>0. z # 0 /\ z # 1 /\ z # 3 /\ z # 4 /\ z # 5 /\ z # 6 /\ z # 7
    BY <1>4
  <2>1. t = CASE y \in {0, 2} -> op_ld_ind_a(s, Get16(s, p))
              [] y \in {1, 3} -> op_ld_a_ind(s, Get16(s, p))
              [] y = 4 -> ThenHL(op_ld_ind_a(s, HL(s)), 1)
              [] y = 5 -> ThenHL(op_ld_a_ind(s, HL(s)), 1)
              [] y = 6 -> ThenHL(op_ld_ind_a(s, HL(s)), -1)
              [] y = 7 -> ThenHL(op_ld_a_ind(s, HL(s)), -1)
    BY <1>4, <2>0, Zenon DEF Block0
  <2>2. Get16(s, p) \in Word /\ HL(s) \in Word /\ 1 \in Int /\ -1 \in Int
    BY <1>1, GetType
  <2>3. /\ Passes(s, op_ld_ind_a(s, Get16(s, p)), 0)
        /\ Passes(s, op_ld_a_ind(s, Get16(s, p)), 0)
        /\ Passes(s, op_ld_ind_a(s, HL(s)), 0) /\ Passes(s, op_ld_a_ind(s, HL(s)), 0)
    BY <2>2, IndirectSteps
  <2>4. /\ Passes(s, ThenHL(op_ld_ind_a(s, HL(s)), 1), 0)
        /\ Passes(s, ThenHL(op_ld_a_ind(s, HL(s)), 1), 0)
        /\ Passes(s, ThenHL(op_ld_ind_a(s, HL(s)), -1), 0)
        /\ Passes(s, ThenHL(op_ld_a_ind(s, HL(s)), -1), 0)
    BY <2>2, <2>3, ThenHLPasses
  <2> HIDE DEF p, t
  <2>5. Passes(s, t, 0)
    BY <2>1, <2>3, <2>4, Fields8
  <2>6. OperandBytes(0, y, z) = 0
    BY <1>4 DEF OperandBytes
  <2> QED BY <2>5, <2>6 DEF Ends, Passes, t
<1>5. CASE z \in {3, 4, 5}
  <2>1. t = CASE z = 3 -> IF y % 2 = 1 THEN op_dec16(s, p) ELSE op_inc16(s, p)
              [] z = 4 -> op_inc(s, r)
              [] z = 5 -> op_dec(s, r)
    BY <1>5 DEF Block0
  <2> HIDE DEF p, t, r
  <2>2. Passes(s, t, 0)
    BY <1>1, <1>5, <2>1, SumSteps
  <2>3. OperandBytes(0, y, z) = 0
    BY <1>5 DEF OperandBytes
  <2> QED BY <2>2, <2>3 DEF Ends, Passes, t
<1>6. CASE z = 6
  <2>1. t = op_ld_n8(s, r)
    BY <1>6 DEF Block0
  <2> HIDE DEF r, t
  <2>2. Passes(s, t, 1)
    BY <1>1, <2>1, LoadSteps
  <2>3. OperandBytes(0, y, z) = 1
    BY <1>6 DEF OperandBytes
  <2> QED BY <2>2, <2>3 DEF Ends, Passes, t
<1>7. CASE z = 7
  <2>0. z # 0 /\ z # 1 /\ z # 2 /\ z # 3 /\ z # 4 /\ z # 5 /\ z # 6
    BY <1>7
  <2>1. t = CASE y \in 0..3 -> op_turn_a(s, y)
              [] y = 4 -> op_daa(s) [] y = 5 -> op_cpl(s)
              [] y = 6 -> op_scf(s) [] y = 7 -> op_ccf(s)
    BY <1>7, <2>0, Zenon DEF Block0
  <2>2. Passes(s, op_turn_a(s, y), 0)
    BY <1>1, TurnSteps
  <2> HIDE DEF p, t, r
  <2>3. Passes(s, t, 0)
    BY <2>1, <2>2, AccumulatorSteps, Fields8
  <2>4. OperandBytes(0, y, z) = 0
    BY <1>7 DEF OperandBytes
  <2> QED BY <2>3, <2>4 DEF Ends, Passes, t
<1> HIDE DEF t
<1> QED BY <1>2, <1>3, <1>4, <1>5, <1>6, <1>7, Fields8 DEF t
LEMMA Block1Ends ==
    ASSUME NEW s \in CpuType, NEW y \in Field, NEW z \in Field
    PROVE  Ends(s, Block1(s, y, z), 1, y, z)
<1> DEFINE d == Operand[y + 1]
           r == Operand[z + 1]
           t == Block1(s, y, z)
<1>1. /\ d \in Targets /\ (d # "IND_HL" => d \in Registers)
      /\ r \in Targets /\ (r # "IND_HL" => r \in Registers)
  <2>1. d \in Targets /\ r \in Targets
    BY Fields8
  <2> HIDE DEF d, r
  <2> QED BY <2>1 DEF Targets, Registers
<1>2. t = CASE d = "IND_HL" /\ r = "IND_HL" -> op_halt(s)
            [] d = "IND_HL" /\ r # "IND_HL" -> op_ld_ind_hl_reg(s, r)
            [] d # "IND_HL" /\ r = "IND_HL" -> op_ld_reg_ind_hl(s, d)
            [] OTHER -> op_ld_reg_reg(s, d, r)
  BY Zenon DEF Block1
<1> HIDE DEF d, r, t
<1>3. Passes(s, t, 0)
  <2>1. CASE d = "IND_HL" /\ r = "IND_HL"
    BY <1>2, <2>1, OtherSteps
  <2>2. CASE d = "IND_HL" /\ r # "IND_HL"
    BY <1>1, <1>2, <2>2, LoadSteps
  <2>3. CASE d # "IND_HL" /\ r = "IND_HL"
    BY <1>1, <1>2, <2>3, LoadSteps
  <2>4. CASE d # "IND_HL" /\ r # "IND_HL"
    BY <1>1, <1>2, <2>4, LoadSteps
  <2> QED BY <2>1, <2>2, <2>3, <2>4
<1>4. OperandBytes(1, y, z) = 0
  BY DEF OperandBytes
<1> QED BY <1>3, <1>4 DEF Ends, Passes, t

LEMMA Block2Ends ==
    ASSUME NEW s \in CpuType, NEW y \in Field, NEW z \in Field
    PROVE  Ends(s, Block2(s, y, z), 2, y, z)
<1> DEFINE t == Block2(s, y, z)
<1>1. y \in 0..7
  BY DEF Field
<1>2. Passes(s, t, 0)
  <2>1. CASE z = 6
    BY <1>1, <2>1, AluSteps DEF Block2
  <2>2. CASE z # 6
    <3>1. Operand[z + 1] \in Registers
      BY <2>2, Fields8
    <3> QED BY <1>1, <2>2, <3>1, AluSteps DEF Block2
  <2> QED BY <2>1, <2>2
<1>3. OperandBytes(2, y, z) = 0
  BY DEF OperandBytes
<1> QED BY <1>2, <1>3 DEF Ends, Passes

LEMMA Block3Ends ==
    ASSUME NEW s \in CpuType, NEW y \in Field, NEW z \in Field
    PROVE  Ends(s, Block3(s, y, z), 3, y, z)
<1> DEFINE p == <<"BC", "DE", "HL", "AF">>[y \div 2 + 1]
           t == Block3(s, y, z)
           n == OperandBytes(3, y, z)
<1>1. p \in Pairs /\ y \in 0..7
  BY Fields8 DEF Field
<1>2. CASE z = 0
  <2>0. z # 1 /\ z # 2 /\ z # 3 /\ z # 4 /\ z # 5 /\ z # 6 /\ z # 7
    BY <1>2
  <2>1. t = CASE y \in 0..3 -> op_ret_cond(s, Cond(s, y))
              [] y = 4 -> op_ldh_ind_a8_a(s)
              [] y = 5 -> op_add_sp_e8(s)
              [] y = 6 -> op_ldh_a_ind_a8(s)
              [] y = 7 -> op_ld_hl_sp_e8(s)
    BY <1>2, <2>0, Zenon DEF Block3
  <2> HIDE DEF t
  <2>2. CASE y \in 0..3
    <3>1. t = op_ret_cond(s, Cond(s, y))
      BY <2>1, <2>2
    <3> QED BY <1>2, <2>2, <3>1, CallSteps DEF Ends, Leaves, t
  <2>3. CASE y \in 4..7
    <3>1. Passes(s, t, 1)
      BY <2>1, <2>3, IndirectSteps, OffsetSteps, Fields8
    <3>2. n = 1
      BY <1>2, <2>3 DEF OperandBytes
    <3> QED BY <3>1, <3>2 DEF Ends, Passes, t
  <2> QED BY <2>2, <2>3, Fields8
<1>3. CASE z = 1
  <2>0. z # 0 /\ z # 2 /\ z # 3 /\ z # 4 /\ z # 5 /\ z # 6 /\ z # 7
    BY <1>3
  <2>1. t = CASE ~(y % 2 = 1) -> op_pop(s, p)
              [] y = 1 -> op_ret(s)
              [] y = 3 -> op_reti(s)
              [] y = 5 -> op_jmp_hl(s)
              [] y = 7 -> op_ld_sp_hl(s)
    BY <1>3, <2>0, Zenon DEF Block3
  <2>2. n = 0
    BY <1>3 DEF OperandBytes
  <2>3. 1 % 2 = 1 /\ 3 % 2 = 1 /\ 5 % 2 = 1 /\ 7 % 2 = 1
    OBVIOUS
  <2> HIDE DEF t, p, n
  <2>4. CASE ~(y % 2 = 1)
    <3>1. Passes(s, t, 0)
      BY <1>1, <2>1, <2>3, <2>4, StackSteps
    <3> QED BY <2>2, <3>1 DEF Ends, Passes, t, n
  <2>5. CASE y = 1 \/ y = 3 \/ y = 5
    <3>1. t = op_ret(s) \/ t = op_reti(s) \/ t = op_jmp_hl(s)
      BY <2>1, <2>3, <2>5
    <3> QED BY <1>3, <2>5, <3>1, CallSteps, JumpSteps DEF Ends, Leaves, t
  <2>6. CASE y = 7
    <3>1. Passes(s, t, 0)
      BY <2>1, <2>3, <2>6, LoadSteps
    <3> QED BY <2>2, <3>1 DEF Ends, Passes, t, n
  <2>7. y = 0 \/ y = 2 \/ y = 4 \/ y = 6 => ~(y % 2 = 1)
    OBVIOUS
  <2> QED BY <2>4, <2>5, <2>6, <2>7, Fields8
<1>4. CASE z = 2
  <2>0. z # 0 /\ z # 1 /\ z # 3 /\ z # 4 /\ z # 5 /\ z # 6 /\ z # 7
    BY <1>4
  <2>1. t = CASE y \in 0..3 -> op_jmp_cond(s, Cond(s, y))
              [] y = 4 -> op_ldh_ind_c_a(s)
              [] y = 5 -> op_ld_ind_a16_a(s)
              [] y = 6 -> op_ldh_a_ind_c(s)
              [] y = 7 -> op_ld_a_ind_a16(s)
    BY <1>4, <2>0, Zenon DEF Block3
  <2>2. CASE y \in 0..3
    <3> HIDE DEF t
    <3>1. t = op_jmp_cond(s, Cond(s, y))
      BY <2>1, <2>2
    <3> QED BY <1>4, <2>2, <3>1, JumpSteps DEF Ends, Leaves, t
  <2>3. CASE y \in {4, 6}
    <3>1. Passes(s, t, 0)
      BY <2>1, <2>3, IndirectSteps
    <3>2. n = 0
      BY <1>4, <2>3 DEF OperandBytes
    <3> QED BY <3>1, <3>2 DEF Ends, Passes
  <2>4. CASE y \in {5, 7}
    <3>1. Passes(s, t, 2)
      BY <2>1, <2>4, IndirectSteps
    <3>2. n = 2
      BY <1>4, <2>4 DEF OperandBytes
    <3> QED BY <3>1, <3>2 DEF Ends, Passes
  <2> QED BY <2>2, <2>3, <2>4, Fields8
<1>5. CASE z = 3
  <2>0. z # 0 /\ z # 1 /\ z # 2 /\ z # 4 /\ z # 5 /\ z # 6 /\ z # 7
    BY <1>5
  <2>1. t = CASE y = 0 -> DO_JMP(s)
              [] y \in 1..5 -> op_nop(s)
              [] y = 6 -> op_dis_ints(s)
              [] y = 7 -> op_ena_ints(s)
    BY <1>5, <2>0, Zenon DEF Block3
  <2>2. n = 0
    BY <1>5 DEF OperandBytes
  <2>3. CASE y = 0
    BY <1>5, <2>1, <2>3, JumpSteps DEF Ends, Leaves
  <2>4. CASE y # 0
    <3>1. Passes(s, t, 0)
      BY <2>1, <2>4, OtherSteps, Fields8
    <3> QED BY <2>2, <3>1 DEF Ends, Passes
  <2> QED BY <2>3, <2>4
<1>6. CASE z = 4
  <2>0. z # 0 /\ z # 1 /\ z # 2 /\ z # 3 /\ z # 5 /\ z # 6 /\ z # 7
    BY <1>6
  <2>1. t = IF y < 4 THEN op_call_cond(s, Cond(s, y)) ELSE op_nop(s)
    BY <1>6, <2>0, Zenon DEF Block3
  <2>2. n = 0
    BY <1>6 DEF OperandBytes
  <2>3. CASE y < 4
    BY <1>1, <1>6, <2>1, <2>3, CallSteps DEF Ends, Leaves
  <2>4. CASE ~(y < 4)
    <3>1. Passes(s, t, 0)
      BY <2>1, <2>4, OtherSteps
    <3> QED BY <2>2, <3>1 DEF Ends, Passes
  <2> QED BY <2>3, <2>4
<1>7. CASE z = 5
  <2>0. z # 0 /\ z # 1 /\ z # 2 /\ z # 3 /\ z # 4 /\ z # 6 /\ z # 7
    BY <1>7
  <2>1. t = CASE ~(y % 2 = 1) -> op_push(s, p)
              [] y = 1 -> DO_CALL(s)
              [] y \in {3, 5, 7} -> op_nop(s)
    BY <1>7, <2>0, Zenon DEF Block3
  <2>2. n = 0
    BY <1>7 DEF OperandBytes
  <2>3. 1 % 2 = 1 /\ 3 % 2 = 1 /\ 5 % 2 = 1 /\ 7 % 2 = 1
    OBVIOUS
  <2> HIDE DEF t, p, n
  <2>4. CASE ~(y % 2 = 1)
    <3>1. Passes(s, t, 0)
      BY <1>1, <2>1, <2>3, <2>4, StackSteps
    <3> QED BY <2>2, <3>1 DEF Ends, Passes, t, n
  <2>5. CASE y = 1
    <3>1. t = DO_CALL(s)
      BY <2>1, <2>3, <2>5
    <3> QED BY <1>7, <2>5, <3>1, CallSteps DEF Ends, Leaves, t
  <2>6. CASE y \in {3, 5, 7}
    <3>1. Passes(s, t, 0)
      BY <2>1, <2>3, <2>6, OtherSteps
    <3> QED BY <2>2, <3>1 DEF Ends, Passes, t, n
  <2>7. y = 0 \/ y = 2 \/ y = 4 \/ y = 6 => ~(y % 2 = 1)
    OBVIOUS
  <2> QED BY <2>4, <2>5, <2>6, <2>7, Fields8
<1>8. CASE z = 6
  <2>1. t = op_alu_n8(s, y)
    BY <1>8 DEF Block3
  <2>2. Passes(s, t, 1)
    BY <1>1, <2>1, AluSteps
  <2>3. n = 1
    BY <1>8 DEF OperandBytes
  <2> QED BY <2>2, <2>3 DEF Ends, Passes
<1>9. CASE z = 7
  <2>1. t = op_restart(s, y)
    BY <1>9 DEF Block3
  <2> QED BY <1>1, <1>9, <2>1, CallSteps DEF Ends, Leaves
<1> HIDE DEF t, n
<1> QED BY <1>2, <1>3, <1>4, <1>5, <1>6, <1>7, <1>8, <1>9, Fields8 DEF t
LEMMA PrefixedEnds ==
    ASSUME NEW s \in CpuType, NEW x \in 0..3, NEW y \in Field, NEW z \in Field
    PROVE  Passes(s, Prefixed(s, x, y, z), 0)
<1>1. Operand[z + 1] \in Targets /\ y \in 0..7
  BY Fields8 DEF Field
<1>2. x = 0 \/ x = 1 \/ x = 2 \/ x = 3
  OBVIOUS
<1> QED BY <1>1, <1>2, TurnSteps DEF Prefixed

LEMMA OpcodeFields ==
    ASSUME NEW op \in Byte
    PROVE  /\ op \div 64 \in 0..3 /\ (op \div 8) % 8 \in Field /\ op % 8 \in Field
           /\ op = 64 * (op \div 64) + 8 * ((op \div 8) % 8) + (op % 8)
<1>1. op \in Int /\ 0 <= op /\ op < 256
  BY Ranges
<1>2. op \div 64 \in 0..3
  BY <1>1
<1>3. (op \div 8) % 8 \in 0..7 /\ op % 8 \in 0..7
  BY <1>1
<1>4. op = 64 * (op \div 64) + 8 * ((op \div 8) % 8) + (op % 8)
  BY <1>1
<1> QED BY <1>2, <1>3, <1>4 DEF Field

\* Where two steps of PC lead.
LEMMA StepTwice ==
    ASSUME NEW a \in Int, NEW k \in Int
    PROVE  W16(W16(a) + k) = W16(a + k)
  BY DEF W16

\* What an instruction does to the registers stays in their types, and it
\* reports from 1 to 6 cycles; one that is no jump, call or return leads behind
\* its operands.
LEMMA ExecuteEnds ==
    ASSUME NEW s \in CpuType
    PROVE  /\ Lands(Execute(s))
           /\ ~s.is_halted =>
                 LET op == N8(s)
                     x == op \div 64
                     y == (op \div 8) % 8
                     z == op % 8
                 IN /\ op = OPCODE_PREFIX => Execute(s).pc = W16(s.pc + 2)
                    /\ op # OPCODE_PREFIX /\ ~Leaves(x, y, z) =>
                          Execute(s).pc = W16(s.pc + 1 + OperandBytes(x, y, z))
<1> DEFINE op == N8(s)
           x == op \div 64
           y == (op \div 8) % 8
           z == op % 8
           t == ADVANCE_PC(s, 1)
           u == ADVANCE_PC(t, 1)
           k == OperandBytes(x, y, z)
<1>1. Inside(s, s) /\ op \in Byte
  BY GetType DEF Inside
<1>2. t \in CpuType /\ t.pc = W16(s.pc + 1)
  BY <1>1, Advanced, Counts
<1>3. u \in CpuType /\ u.pc = W16(t.pc + 1)
  <2> HIDE DEF t
  <2>1. Inside(t, t)
    BY <1>2 DEF Inside
  <2> QED BY <1>2, <2>1, Advanced, Counts
<1>4. s.pc \in Int /\ t.pc \in Int /\ u.pc \in Int
  BY <1>2, <1>3, Fields, Words, Zenon
<1>5. s.pc + 1 \in Int /\ k \in Int /\ 0 \in Int /\ 1 \in Int
  BY <1>4 DEF OperandBytes
<1>6. x \in 0..3 /\ y \in Field /\ z \in Field
  BY <1>1, OpcodeFields
<1>7. u.pc = W16(s.pc + 2)
  <2>1. u.pc = W16(s.pc + 1 + 1)
    BY <1>2, <1>3, <1>5, StepTwice
  <2> QED BY <1>4, <2>1
<1>8. CASE s.is_halted
  <2>1. Execute(s) = Took(s, 3)
    BY <1>8, Zenon DEF Execute
  <2> QED BY <1>1, <1>8, <2>1, TookLands, Counts DEF Passes
<1>9. CASE ~s.is_halted /\ op = OPCODE_PREFIX
  <2> DEFINE b == N8(t)
             e == Prefixed(u, b \div 64, (b \div 8) % 8, b % 8)
  <2>1. b \div 64 \in 0..3 /\ (b \div 8) % 8 \in Field /\ b % 8 \in Field
    <3>1. b \in Byte
      BY <1>2, GetType
    <3> QED BY <3>1, OpcodeFields
  <2>2. Execute(s) = e
    <3>1. Execute(s) = ops_table_dispatch(u, b, TRUE)
      BY <1>9, Zenon DEF Execute
    <3> HIDE DEF u, b
    <3> QED BY <3>1, Zenon DEF ops_table_dispatch
  <2> HIDE DEF u, b
  <2>3. Passes(u, e, 0)
    BY <1>3, <2>1, PrefixedEnds
  <2> HIDE DEF e
  <2>4. Lands(Execute(s)) /\ Execute(s).pc = W16(u.pc + 0)
    BY <2>2, <2>3 DEF Passes
  <2>5. u.pc + 0 = s.pc + 2 \/ W16(u.pc + 0) = W16(s.pc + 2)
    <3>0. s.pc + 2 \in Int
      BY <1>4
    <3>1. W16(W16(s.pc + 2) + 0) = W16(s.pc + 2 + 0)
      BY <1>5, <3>0, StepTwice, Zenon
    <3>2. s.pc + 2 + 0 = s.pc + 2
      BY <1>4
    <3> QED BY <1>7, <3>1, <3>2
  <2>6. Execute(s).pc = W16(s.pc + 2)
    BY <2>4, <2>5
  <2> QED BY <1>9, <2>4, <2>6
<1>10. CASE ~s.is_halted /\ op # OPCODE_PREFIX
  <2> DEFINE e == ops_table_dispatch(t, op, FALSE)
  <2>1. Execute(s) = e
    BY <1>10, Zenon DEF Execute
  <2>2. Ends(t, e, x, y, z)
    <3> HIDE DEF t
    <3>1. e = CASE FALSE -> Prefixed(t, x, y, z)
                [] ~FALSE /\ x = 0 -> Block0(t, y, z)
                [] ~FALSE /\ x = 1 -> Block1(t, y, z)
                [] ~FALSE /\ x = 2 -> Block2(t, y, z)
                [] ~FALSE /\ x = 3 -> Block3(t, y, z)
      BY Zenon DEF ops_table_dispatch
    <3> HIDE DEF e, x, y, z
    <3>2. x = 0 \/ x = 1 \/ x = 2 \/ x = 3
      BY <1>6
    <3>3. CASE x = 0
      BY <1>2, <1>6, <3>1, <3>3, Block0Ends
    <3>4. CASE x = 1
      BY <1>2, <1>6, <3>1, <3>4, Block1Ends
    <3>5. CASE x = 2
      BY <1>2, <1>6, <3>1, <3>5, Block2Ends
    <3>6. CASE x = 3
      BY <1>2, <1>6, <3>1, <3>6, Block3Ends
    <3> QED BY <3>2, <3>3, <3>4, <3>5, <3>6
  <2> HIDE DEF e
  <2>3. Lands(Execute(s)) /\ (~Leaves(x, y, z) => Execute(s).pc = W16(t.pc + k))
    BY <2>1, <2>2 DEF Ends, Passes
  <2>4. W16(t.pc + k) = W16(s.pc + 1 + k)
    <3> HIDE DEF t, k
    <3>1. W16(W16(s.pc + 1) + k) = W16(s.pc + 1 + k)
      BY <1>5, StepTwice, Zenon
    <3> QED BY <1>2, <3>1, Zenon
  <2> QED BY <1>10, <2>3, <2>4
<1> QED BY <1>8, <1>9, <1>10
-----------------------------------------------------------------------------
(* The clocks.                                                              *)

LEMMA PutRequests ==
    ASSUME NEW s \in CpuType, NEW n \in Byte
    PROVE  /\ [s EXCEPT !.if_reg = n] \in CpuType
           /\ [s EXCEPT !.if_reg = n].cycles = s.cycles
  BY DEF CpuType, CpuFields

LEMMA CountDivType ==
    ASSUME NEW s \in CpuType, NEW c \in Nat
    PROVE  CountDiv(s, c) \in CpuType /\ CountDiv(s, c).cycles = s.cycles
<1> DEFINE n == (s.div_counter + c) % 64
           d == IF n < s.div_counter THEN W8(s.div_reg + 1) ELSE s.div_reg
           t == [s EXCEPT !.div_counter = n, !.div_reg = d]
<1>1. s.div_counter \in 0..63 /\ s.div_reg \in Byte
  BY DEF CpuType, CpuFields
<1>2. n \in 0..63
  <2>1. s.div_counter + c \in Nat
    BY <1>1
  <2> QED BY <2>1
<1>3. d \in Byte
  <2>1. s.div_reg + 1 \in Int
    BY <1>1, Ranges
  <2>2. W8(s.div_reg + 1) \in Byte
    BY <2>1, Widths
  <2> QED BY <1>1, <2>2
<1>4. CountDiv(s, c) = t
  BY DEF CountDiv
<1> HIDE DEF n, d
<1>5. t \in CpuType /\ t.cycles = s.cycles
  BY <1>2, <1>3 DEF CpuType, CpuFields
<1> HIDE DEF t
<1> QED BY <1>4, <1>5

LEMMA IncTimaType ==
    ASSUME NEW s \in CpuType
    PROVE  /\ IncTima(s) \in CpuType /\ IncTima(s).cycles = s.cycles
           /\ IncTima(s).tac_divider = s.tac_divider
<1>1. s.tima_reg \in Byte /\ s.tma_reg \in Byte
  BY DEF CpuType, CpuFields
<1>2. CASE s.tima_reg < 255
  <2>1. s.tima_reg + 1 \in Byte
    BY <1>1, <1>2, Ranges
  <2>2. IncTima(s) = [s EXCEPT !.tima_reg = s.tima_reg + 1]
    BY <1>2 DEF IncTima
  <2> DEFINE n == s.tima_reg + 1
  <2> HIDE DEF n
  <2>3. n \in Byte /\ IncTima(s) = [s EXCEPT !.tima_reg = n]
    BY <2>1, <2>2 DEF n
  <2> QED BY <2>3 DEF CpuType, CpuFields
<1>3. CASE ~(s.tima_reg < 255)
  <2> DEFINE t == [s EXCEPT !.tima_reg = s.tma_reg]
             n == OfBits(Bits(t.if_reg) \cup {TIMER})
  <2>1. IncTima(s) = [t EXCEPT !.if_reg = n]
    BY <1>3 DEF IncTima, cpu_request_intr
  <2>2. t \in CpuType /\ t.cycles = s.cycles /\ t.tac_divider = s.tac_divider
    BY <1>1 DEF CpuType, CpuFields
  <2> HIDE DEF t
  <2>3. n \in Byte
    BY OfBitsType
  <2> HIDE DEF n
  <2>4. [t EXCEPT !.if_reg = n].tac_divider = t.tac_divider
    BY <2>2 DEF CpuType, CpuFields
  <2> QED BY <2>1, <2>2, <2>3, <2>4, PutRequests
<1> QED BY <1>2, <1>3

LEMMA CountTimaType ==
    ASSUME NEW s \in CpuType, NEW c \in Nat
    PROVE  CountTima(s, c) \in CpuType /\ CountTima(s, c).cycles = s.cycles
<1> DEFINE n == s.tac_counter + c
<1>1. s.tac_counter \in Nat /\ s.tac_divider \in Nat
  BY DEF CpuType, CpuFields, Dividers
<1>2. n \in Nat
  BY <1>1
<1>3. \A t \in CpuType, m \in Nat :
         /\ [t EXCEPT !.tac_counter = m] \in CpuType
         /\ [t EXCEPT !.tac_counter = m].cycles = t.cycles
  BY DEF CpuType, CpuFields
<1>4. CASE ~s.tima_enabled
  <2>1. CountTima(s, c) = s
    BY <1>4, Zenon DEF CountTima
  <2> QED BY <2>1
<1>5. CASE s.tima_enabled /\ n < s.tac_divider
  <2>0. ~(n >= s.tac_divider)
    BY <1>1, <1>2, <1>5
  <2>1. CountTima(s, c) = [s EXCEPT !.tac_counter = n]
    BY <1>5, <2>0, Zenon DEF CountTima
  <2> HIDE DEF n
  <2> QED BY <1>2, <1>3, <2>1, Zenon
<1>6. CASE s.tima_enabled /\ ~(n < s.tac_divider)
  <2>0. n >= s.tac_divider
    BY <1>1, <1>2, <1>6
  <2>1. CountTima(s, c) = [IncTima(s) EXCEPT !.tac_counter = n % s.tac_divider]
    BY <1>6, <2>0, Zenon DEF CountTima
  <2>2. s.tac_divider \in Nat /\ s.tac_divider # 0
    BY <1>1, <1>6 DEF CpuType
  <2> HIDE DEF n
  <2> DEFINE m == n % s.tac_divider
  <2>3. m \in Nat
    BY <1>2, <2>2
  <2> HIDE DEF m
  <2>4. IncTima(s) \in CpuType /\ IncTima(s).cycles = s.cycles
    BY IncTimaType
  <2>5. CountTima(s, c) = [IncTima(s) EXCEPT !.tac_counter = m]
    BY <2>1 DEF m
  <2>6. /\ [IncTima(s) EXCEPT !.tac_counter = m] \in CpuType
        /\ [IncTima(s) EXCEPT !.tac_counter = m].cycles = IncTima(s).cycles
    BY <1>3, <2>3, <2>4, Zenon
  <2> QED BY <2>4, <2>5, <2>6, Zenon
<1> QED BY <1>4, <1>5, <1>6

\* The instruction and its clocks.
LEMMA ClockedType ==
    ASSUME NEW s \in CpuType
    PROVE  Lands(Clocked(s))
<1> DEFINE t == Execute(s)
           u == CountDiv(t, t.cycles)
<1>1. t \in CpuType /\ t.cycles \in 1..6 /\ t.cycles \in Nat
  BY ExecuteEnds DEF Lands
<1> HIDE DEF t
<1>2. u \in CpuType /\ u.cycles = t.cycles
  BY <1>1, CountDivType
<1> HIDE DEF u
<1>3. CountTima(u, t.cycles) \in CpuType /\ CountTima(u, t.cycles).cycles = u.cycles
  BY <1>1, <1>2, CountTimaType
<1>4. Clocked(s) = CountTima(u, t.cycles)
  BY DEF Clocked, t, u
<1> QED BY <1>1, <1>2, <1>3, <1>4 DEF Lands

-----------------------------------------------------------------------------
(* Memory.                                                                  *)

\* All that a read depends on.
SameMemory(s, t) ==
    /\ t.mem = s.mem /\ t.cart = s.cart /\ t.window = s.window /\ t.booting = s.booting
    /\ t.div_reg = s.div_reg /\ t.tima_reg = s.tima_reg /\ t.tma_reg = s.tma_reg
    /\ t.tac_reg = s.tac_reg /\ t.if_reg = s.if_reg /\ t.ie_reg = s.ie_reg
    /\ t.disable_bootrom = s.disable_bootrom

LEMMA ReadIs ==
    ASSUME NEW s, NEW a \in Int
    PROVE  /\ W16(a) \in Io => monitor_rd_mem(s, a) = s[IoRegister[W16(a)]]
           /\ W16(a) < CartridgeEnd => /\ W16(a) \notin Io
                                       /\ monitor_rd_mem(s, a) = mbc1_rd_mem(s, W16(a))
           /\ CartridgeEnd <= W16(a) /\ W16(a) \notin Io
                 => monitor_rd_mem(s, a) = At(s.mem, W16(a))
<1> DEFINE addr == W16(a)
<1>1. monitor_rd_mem(s, a) =
        CASE addr \in Io -> s[IoRegister[addr]]
          [] addr < CartridgeEnd -> mbc1_rd_mem(s, addr)
          [] addr >= CartridgeEnd /\ addr \notin Io -> At(s.mem, addr)
  BY DEF monitor_rd_mem, Io
<1>2. addr \in Int
  BY Widths, Words, Zenon
<1> HIDE DEF addr
<1>3. CartridgeEnd = 32768
  BY DEF CartridgeEnd, BankSize
<1>4. addr \in Io => ~(addr < CartridgeEnd)
  BY <1>3, IoNames
<1>5. ~(addr < CartridgeEnd) <=> addr >= CartridgeEnd
  BY <1>2, <1>3
<1>6. CartridgeEnd <= addr => addr >= CartridgeEnd
  BY <1>2, <1>3
<1>7. addr \in Io => monitor_rd_mem(s, a) = s[IoRegister[addr]]
  BY <1>1, <1>4, Zenon
<1>8. addr < CartridgeEnd => monitor_rd_mem(s, a) = mbc1_rd_mem(s, addr)
  BY <1>1, <1>4, <1>5, Zenon
<1>9. CartridgeEnd <= addr /\ ~(addr \in Io) => monitor_rd_mem(s, a) = At(s.mem, addr)
  BY <1>1, <1>5, <1>6, Zenon
<1> QED BY <1>4, <1>7, <1>8, <1>9 DEF addr

LEMMA SameReads ==
    ASSUME NEW s, NEW t, SameMemory(s, t), NEW a \in Int
    PROVE  monitor_rd_mem(t, a) = monitor_rd_mem(s, a)
<1> DEFINE addr == W16(a)
<1>1. addr \in Io => t[IoRegister[addr]] = s[IoRegister[addr]]
  <2> HIDE DEF addr
  <2> QED BY IoNames DEF SameMemory
<1>2. mbc1_rd_mem(t, addr) = mbc1_rd_mem(s, addr)
  <2> HIDE DEF addr
  <2> QED BY Zenon DEF mbc1_rd_mem, SameMemory
<1>3. At(t.mem, addr) = At(s.mem, addr)
  BY DEF SameMemory
<1>4. addr < CartridgeEnd \/ CartridgeEnd <= addr
  <2>1. addr \in Int
    BY Widths, Words, Zenon
  <2> QED BY <2>1 DEF CartridgeEnd, BankSize
<1> QED BY <1>1, <1>2, <1>3, <1>4, ReadIs

\* What is written to an address that keeps it is read there again, and nothing
\* else changes.
LEMMA KeptRead ==
    ASSUME NEW s \in CpuType, NEW a \in Int, NEW v \in Int, Keeps(W16(a))
    PROVE  LET t == monitor_wr_mem(s, a, v)
           IN  /\ monitor_rd_mem(t, a) = W8(v)
               /\ \A b \in Int : W16(b) # W16(a)
                     => monitor_rd_mem(t, b) = monitor_rd_mem(s, b)
<1> DEFINE addr == W16(a)
           d == W8(v)
           r == cpu_wr(s, addr, d)
           t == monitor_wr_mem(s, a, v)
<1>1. addr \in Word /\ d \in Byte /\ CartridgeEnd = 32768
  BY Widths DEF CartridgeEnd, BankSize
<1>2. /\ ~(addr < CartridgeEnd) /\ addr >= CartridgeEnd /\ CartridgeEnd <= addr
      /\ addr \in Io => addr = 65535
  BY <1>1, Ranges DEF Keeps, Io
<1>3. t = CASE addr \in Io ->
                   IF IoRegister[addr] = "disable_bootrom"
                     THEN [r EXCEPT !.booting = FALSE] ELSE r
            [] addr < CartridgeEnd -> mbc1_wr_mem(s, addr, d)
            [] addr >= CartridgeEnd /\ addr \notin Io ->
                   [s EXCEPT !.mem = Written(@, addr, d)]
  BY DEF monitor_wr_mem, Io
<1>4. /\ addr \in Io => monitor_rd_mem(t, a) = t[IoRegister[addr]]
      /\ ~(addr \in Io) => monitor_rd_mem(t, a) = At(t.mem, addr)
  BY <1>2, ReadIs
<1>5. ASSUME NEW b \in Int, W16(b) # addr,
             t.cart = s.cart, t.window = s.window, t.booting = s.booting,
             W16(b) \in Io => t[IoRegister[W16(b)]] = s[IoRegister[W16(b)]],
             At(t.mem, W16(b)) = At(s.mem, W16(b))
      PROVE  monitor_rd_mem(t, b) = monitor_rd_mem(s, b)
  <2> DEFINE m == W16(b)
  <2>1. m \in Int
    BY Widths, Words, Zenon
  <2>2. m < CartridgeEnd \/ CartridgeEnd <= m
    BY <1>1, <2>1
  <2>3. mbc1_rd_mem(t, m) = mbc1_rd_mem(s, m)
    <3> HIDE DEF m, t
    <3> QED BY <1>5, Zenon DEF mbc1_rd_mem
  <2> HIDE DEF t
  <2> QED BY <1>5, <2>2, <2>3, ReadIs
<1> HIDE DEF t, r, addr, d
<1>6. CASE addr \in Io
  <2>1. IoRegister[addr] = "ie_reg"
    BY <1>2, <1>6, IoNames
  <2>2. t = r
    <3>1. IoRegister[addr] # "disable_bootrom"
      BY <2>1
    <3>2. ~(addr < CartridgeEnd)
      BY <1>2
    <3> QED BY <1>3, <1>6, <3>1, <3>2, Zenon
  <2>3. t = [s EXCEPT !.ie_reg = d]
    BY <2>1, <2>2 DEF cpu_wr, r
  <2>4. t.ie_reg = d /\ t.mem = s.mem
        /\ t.cart = s.cart /\ t.window = s.window /\ t.booting = s.booting
    BY <2>3 DEF CpuType, CpuFields
  <2>5. monitor_rd_mem(t, a) = d
    BY <1>4, <1>6, <2>1, <2>4
  <2>6. ASSUME NEW b \in Int, W16(b) # addr
        PROVE  monitor_rd_mem(t, b) = monitor_rd_mem(s, b)
    <3>1. W16(b) \in Io => t[IoRegister[W16(b)]] = s[IoRegister[W16(b)]]
      <4> DEFINE m == W16(b)
      <4>1. m # 65535
        BY <1>2, <1>6, <2>6
      <4> HIDE DEF m
      <4>2. m \in Io => t[IoRegister[m]] = s[IoRegister[m]]
        BY <2>3, <4>1, IoNames DEF CpuType, CpuFields
      <4> QED BY <4>2 DEF m
    <3> QED BY <1>5, <2>4, <2>6, <3>1
  <2> QED BY <2>5, <2>6 DEF t, addr, d
<1>7. CASE ~(addr \in Io)
  <2>1. t = [s EXCEPT !.mem = Written(s.mem, addr, d)]
    <3>1. addr \notin Io
      BY <1>7
    <3>2. ~(addr < CartridgeEnd) /\ addr >= CartridgeEnd
      BY <1>2
    <3> QED BY <1>3, <3>1, <3>2, Zenon
  <2>2. t.mem = Written(s.mem, addr, d)
        /\ t.cart = s.cart /\ t.window = s.window /\ t.booting = s.booting
    BY <2>1 DEF CpuType, CpuFields
  <2>3. /\ At(t.mem, addr) = d
        /\ \A m : m # addr => At(t.mem, m) = At(s.mem, m)
    BY <1>1, <2>2, Fields, MemoryType
  <2>4. monitor_rd_mem(t, a) = d
    BY <1>4, <1>7, <2>3
  <2>5. ASSUME NEW b \in Int, W16(b) # addr
        PROVE  monitor_rd_mem(t, b) = monitor_rd_mem(s, b)
    <3>1. W16(b) \in Io => t[IoRegister[W16(b)]] = s[IoRegister[W16(b)]]
      <4> DEFINE m == W16(b)
      <4> HIDE DEF m
      <4>1. m \in Io => t[IoRegister[m]] = s[IoRegister[m]]
        BY <2>1, IoNames DEF CpuType, CpuFields
      <4> QED BY <4>1 DEF m
    <3> QED BY <1>5, <2>2, <2>3, <2>5, <3>1
  <2> QED BY <2>4, <2>5 DEF t, addr, d
<1> QED BY <1>6, <1>7 DEF t

LEMMA PushedBack ==
    ASSUME NEW s \in CpuType, NEW v \in Word, KeepsWord(s.sp)
    PROVE  /\ Pushed(Push(s, v)) = v
           /\ \A b \in Int : W16(b) \notin {W16(s.sp - 1), W16(s.sp - 2)}
                 => monitor_rd_mem(Push(s, v), b) = monitor_rd_mem(s, b)
<1> DEFINE n == W16(s.sp - 2)
           t == [s EXCEPT !.sp = n]
           u == monitor_wr_mem(t, n, W8(v))
           w == monitor_wr_mem(u, n + 1, v \div 256)
<1>1. s.sp \in Int /\ 0 <= s.sp /\ s.sp < 65536
  BY Fields, Ranges
<1>2. n \in Word /\ n \in Int /\ W16(n) = n /\ W16(n + 1) = W16(s.sp - 1) /\ W16(n + 1) # n
  <2>1. s.sp - 2 \in Int
    BY <1>1
  <2>2. n \in Word
    BY <2>1, Widths
  <2>3. n \in Int /\ 0 <= n /\ n < 65536
    BY <2>2, Ranges
  <2>4. W16(n) = n
    BY <2>2, Widths
  <2>5. W16(n + 1) = W16(s.sp - 1)
    BY <1>1 DEF W16
  <2>6. W16(n + 1) # n
    <3> HIDE DEF n
    <3> QED BY <2>3 DEF W16
  <2> QED BY <2>2, <2>3, <2>4, <2>5, <2>6
<1>3. t \in CpuType /\ t.sp = n /\ SameMemory(s, t)
  <2> HIDE DEF n
  <2> QED BY <1>2 DEF CpuType, CpuFields, SameMemory
<1>4. Push(s, v) = w
  <2> HIDE DEF n
  <2>1. Push(s, v) = WR_WORD(t, t.sp, v)
    BY DEF Push, n
  <2> QED BY <1>3, <2>1 DEF WR_WORD
<1>5. /\ W8(v) \in Byte /\ W8(v) \in Int /\ W8(W8(v)) = W8(v)
      /\ v \div 256 \in Byte /\ v \div 256 \in Int /\ W8(v \div 256) = v \div 256
      /\ W8(v) + 256 * (v \div 256) = v
  <2>1. v \in Int /\ v \div 256 \in Byte
    BY Words
  <2>2. W8(v) \in Byte
    BY <2>1, Widths
  <2>3. W8(v) + 256 * (v \div 256) = v
    BY <2>1 DEF W8
  <2> QED BY <2>1, <2>2, <2>3, Widths, Words
<1>6. n + 1 \in Int /\ Keeps(W16(n)) /\ Keeps(W16(n + 1))
  BY <1>2 DEF KeepsWord, BelowStack
<1> HIDE DEF t, n
<1>7. u \in CpuType /\ Wrote(t, u)
  BY <1>2, <1>3, <1>5, WriteType
<1>8. /\ monitor_rd_mem(u, n) = W8(v)
      /\ \A b \in Int : W16(b) # n => monitor_rd_mem(u, b) = monitor_rd_mem(t, b)
  BY <1>2, <1>3, <1>5, <1>6, KeptRead
<1> HIDE DEF u
<1>9. w \in CpuType /\ Wrote(u, w)
  BY <1>5, <1>6, <1>7, WriteType
<1>10. /\ monitor_rd_mem(w, n + 1) = v \div 256
       /\ \A b \in Int : W16(b) # W16(n + 1)
             => monitor_rd_mem(w, b) = monitor_rd_mem(u, b)
  BY <1>5, <1>6, <1>7, KeptRead
<1> HIDE DEF w
<1>11. w.sp = n
  BY <1>3, <1>7, <1>9 DEF Wrote
<1>12. Pushed(w) = v
  <2>1. monitor_rd_mem(w, n) = W8(v)
    BY <1>2, <1>8, <1>10
  <2> QED BY <1>5, <1>10, <1>11, <2>1 DEF Pushed, RD_WORD
<1>13. ASSUME NEW b \in Int, W16(b) \notin {W16(s.sp - 1), W16(s.sp - 2)}
       PROVE  monitor_rd_mem(w, b) = monitor_rd_mem(s, b)
  <2>1. W16(b) # n /\ W16(b) # W16(n + 1)
    BY <1>2, <1>13 DEF n
  <2>2. monitor_rd_mem(t, b) = monitor_rd_mem(s, b)
    BY <1>3, SameReads
  <2> QED BY <1>8, <1>10, <2>1, <2>2
<1> QED BY <1>4, <1>12, <1>13

\* Fetching the opcode changes nothing that is read.
LEMMA Fetched ==
    ASSUME NEW s \in CpuType
    PROVE  LET u == ADVANCE_PC(s, 1)
           IN  /\ u \in CpuType /\ u.pc = W16(s.pc + 1)
               /\ u.reg = s.reg /\ u.f = s.f /\ u.sp = s.sp
               /\ SameMemory(s, u)
               /\ \A a \in Int : monitor_rd_mem(u, a) = monitor_rd_mem(s, a)
               /\ \A r \in Targets : Get(u, r) = Get(s, r)
<1> DEFINE u == ADVANCE_PC(s, 1)
<1>1. u \in CpuType /\ u.pc = W16(s.pc + 1)
  <2>1. Inside(s, s)
    BY DEF Inside
  <2> QED BY <2>1, Advanced, Counts
<1>2. u.reg = s.reg /\ u.f = s.f /\ u.sp = s.sp /\ SameMemory(s, u)
  BY DEF ADVANCE_PC, SameMemory, CpuType, CpuFields
<1> HIDE DEF u
<1>3. \A a \in Int : monitor_rd_mem(u, a) = monitor_rd_mem(s, a)
  BY <1>2, SameReads
<1>4. HL(u) = HL(s) /\ HL(s) \in Int
  <2>1. HL(s) \in Int
    BY GetType, Words, Zenon
  <2> QED BY <1>2, <2>1, Zenon DEF HL, Get16
<1>5. \A r \in Targets : Get(u, r) = Get(s, r)
  BY <1>2, <1>3, <1>4 DEF Get
<1> QED BY <1>1, <1>2, <1>3, <1>5 DEF u

\* The handlers of the first and of the last quarter of the table.
LEMMA Dispatched ==
    ASSUME NEW s \in CpuType, ~s.is_halted, NEW x \in 0..3, NEW y \in Field,
           NEW z \in Field, N8(s) = 64 * x + 8 * y + z
    PROVE  LET u == ADVANCE_PC(s, 1)
           IN  /\ x = 0 => Execute(s) = Block0(u, y, z)
               /\ x = 3 /\ N8(s) # OPCODE_PREFIX => Execute(s) = Block3(u, y, z)
<1> DEFINE op == N8(s)
           u == ADVANCE_PC(s, 1)
           t == Execute(s)
<1>1. op \div 64 = x /\ (op \div 8) % 8 = y /\ op % 8 = z /\ (x = 0 => op # OPCODE_PREFIX)
  <2> HIDE DEF op
  <2>1. op = 64 * x + 8 * y + z
    BY DEF op
  <2> QED BY <2>1 DEF Field, OPCODE_PREFIX
<1>2. op # OPCODE_PREFIX => t = ops_table_dispatch(u, op, FALSE)
  BY Zenon DEF Execute
<1> HIDE DEF op, u, t
<1>3. ASSUME x = 0 PROVE t = Block0(u, y, z)
  <2>1. op \div 64 # 1 /\ op \div 64 # 2 /\ op \div 64 # 3
    BY <1>1, <1>3
  <2> QED BY <1>1, <1>2, <1>3, <2>1, Zenon DEF ops_table_dispatch
<1>4. ASSUME x = 3, op # OPCODE_PREFIX PROVE t = Block3(u, y, z)
  <2>1. op \div 64 # 0 /\ op \div 64 # 1 /\ op \div 64 # 2
    BY <1>1, <1>4
  <2> QED BY <1>1, <1>2, <1>4, <2>1, Zenon DEF ops_table_dispatch
<1> QED BY <1>3, <1>4 DEF op, u, t

\* A state with a word on the stack.
LEMMA OnStack ==
    ASSUME NEW s \in CpuType, KeepsWord(s.sp), NEW v \in Word, NEW t \in CpuType,
           SameMemory(Push(s, v), t), t.sp = Push(s, v).sp
    PROVE  /\ Pushed(t) = v /\ W16(t.sp + 2) = s.sp
           /\ \A b \in Int : W16(b) \notin BelowStack(s.sp)
                 => monitor_rd_mem(t, b) = monitor_rd_mem(s, b)
<1> DEFINE p == Push(s, v)
<1>1. p.sp = W16(s.sp - 2)
  BY PushType
<1>2. /\ Pushed(p) = v
      /\ \A b \in Int : W16(b) \notin BelowStack(s.sp)
            => monitor_rd_mem(p, b) = monitor_rd_mem(s, b)
  BY PushedBack DEF BelowStack
<1> HIDE DEF p
<1>3. SameMemory(p, t) /\ t.sp = p.sp
  BY DEF p
<1>4. \A b \in Int : monitor_rd_mem(t, b) = monitor_rd_mem(p, b)
  BY <1>3, SameReads
<1>5. t.sp \in Int /\ t.sp + 1 \in Int
  BY Fields, Ranges
<1>6. Pushed(t) = Pushed(p)
  BY <1>3, <1>4, <1>5 DEF Pushed, RD_WORD
<1>7. W16(W16(s.sp - 2) + 2) = s.sp
  <2>1. s.sp \in Int /\ 0 <= s.sp /\ s.sp < 65536
    BY Fields, Ranges
  <2> QED BY <2>1 DEF W16
<1> QED BY <1>1, <1>2, <1>3, <1>4, <1>6, <1>7

-----------------------------------------------------------------------------
(* Interrupts.                                                              *)

\* The request of the lowest number goes first.
LEMMA Lowest ==
    ASSUME NEW S \in SUBSET (0..7), S # {}
    PROVE  Min(S) \in S /\ \A k \in S : Min(S) <= k
<1>1. \E x \in S : \A y \in S : x <= y
  <2>1. CASE 0 \in S
    BY <2>1
  <2>2. CASE 1 \in S /\ 0 \notin S
    BY <2>2
  <2>3. CASE 2 \in S /\ 0 \notin S /\ 1 \notin S
    BY <2>3
  <2>4. CASE 3 \in S /\ 0 \notin S /\ 1 \notin S /\ 2 \notin S
    BY <2>4
  <2>5. CASE 4 \in S /\ 0 \notin S /\ 1 \notin S /\ 2 \notin S /\ 3 \notin S
    BY <2>5
  <2>6. CASE 5 \in S /\ 0 \notin S /\ 1 \notin S /\ 2 \notin S /\ 3 \notin S /\ 4 \notin S
    BY <2>6
  <2>7. CASE 6 \in S /\ 0 \notin S /\ 1 \notin S /\ 2 \notin S /\ 3 \notin S /\ 4 \notin S /\ 5 \notin S
    BY <2>7
  <2>8. CASE 7 \in S /\ 0 \notin S /\ 1 \notin S /\ 2 \notin S /\ 3 \notin S /\ 4 \notin S /\ 5 \notin S /\ 6 \notin S
    BY <2>8
  <2>9. \E k \in S : k \in 0..7
    OBVIOUS
  <2>10. 0 \in S \/ 1 \in S \/ 2 \in S \/ 3 \in S \/ 4 \in S \/ 5 \in S \/ 6 \in S \/ 7 \in S
    BY <2>9
  <2> QED BY <2>1, <2>2, <2>3, <2>4, <2>5, <2>6, <2>7, <2>8, <2>10, Zenon
<1> QED BY <1>1, Zenon DEF Min

LEMMA HandlerType ==
    ASSUME NEW s \in CpuType
    PROVE  /\ handle_intrs(s) \in CpuType
           /\ handle_intrs(s).cycles = s.cycles
<1>1. CASE Accepts(s)
  <2> DEFINE k == Min(Pending(s))
             n == OfBits(Bits(s.if_reg) \ {k})
             t == [Wake(s) EXCEPT !.ime_enabled = FALSE, !.if_reg = n]
  <2>1. k \in 0..7
    <3>1. Pending(s) \in SUBSET (0..7)
      BY DEF Pending, Bits
    <3> QED BY <1>1, <3>1, Lowest DEF Accepts
  <2>2. n \in Byte
    BY OfBitsType
  <2>3. Accept(s) = CallTo(t, Handler(k))
    BY DEF Accept, process_intr, Wake
  <2> HIDE DEF k, n
  <2>4. t \in CpuType /\ t.cycles = s.cycles
    BY <2>2 DEF Wake, CpuType, CpuFields
  <2> HIDE DEF t
  <2>5. Handler(k) \in Word
    BY <2>1, Ranges DEF Handler
  <2>6. CallTo(t, Handler(k)) \in CpuType /\ CallTo(t, Handler(k)).cycles = t.cycles
    BY <2>4, <2>5, CallType
  <2>7. handle_intrs(s) = Accept(s)
    BY <1>1, Zenon DEF handle_intrs, Accepts
  <2> QED BY <2>3, <2>4, <2>6, <2>7
<1>2. CASE ~Accepts(s)
  <2>1. handle_intrs(s) = Wake(s) \/ handle_intrs(s) = s
    BY <1>2, Zenon DEF handle_intrs
  <2>2. Wake(s) \in CpuType /\ Wake(s).cycles = s.cycles
    BY DEF Wake, CpuType, CpuFields
  <2> QED BY <2>1, <2>2
<1> QED BY <1>1, <1>2

LEMMA BootType ==
    ASSUME NEW cart \in DOMAIN Cartridges
    PROVE  Boot(cart) \in CpuType
<1>1. <<>> \in Memory
  <2>1. {} \in SUBSET Word /\ <<>> \in [{} -> Byte]
    OBVIOUS
  <2> QED BY <2>1 DEF Memory
<1>2. 0 \in Byte /\ 0 \in Word /\ {} \in SUBSET Flags /\ 0 \in Dividers
  BY Ranges DEF Dividers
<1>3. [r \in Registers |-> 0] \in [Registers -> Byte]
  BY <1>2
<1> DEFINE m == <<>>
           g == [r \in Registers |-> 0]
<1>4. m \in Memory /\ g \in [Registers -> Byte]
  BY <1>1, <1>3
<1> HIDE DEF m, g
<1>5. Boot(cart) =
        [reg |-> g, f |-> {}, sp |-> 0, pc |-> 0,
         mem |-> m, cart |-> cart, window |-> 1, booting |-> TRUE,
         ime_enabled |-> FALSE, is_halted |-> FALSE, cycles |-> 0,
         disable_bootrom |-> 0, ie_reg |-> 0, if_reg |-> 0, div_reg |-> 0,
         div_counter |-> 0, tima_enabled |-> FALSE, tima_reg |-> 0, tma_reg |-> 0,
         tac_reg |-> 0, tac_counter |-> 0, tac_divider |-> 0]
  BY DEF Boot, m, g
<1>6. Boot(cart) \in CpuFields
  BY <1>2, <1>4, <1>5 DEF CpuFields
<1> QED BY <1>5, <1>6 DEF CpuType

IfAddress == 65295         \* the address of if_reg

\* The processor as an interrupt is about to call its handler.
LEMMA Accepted ==
    ASSUME NEW s \in CpuType, Accepts(s)
    PROVE  \E c \in CpuType :
              /\ handle_intrs(s) = CallTo(c, Handler(Min(Pending(s))))
              /\ Handler(Min(Pending(s))) \in Word
              /\ ~c.is_halted /\ ~c.ime_enabled
              /\ c.reg = s.reg /\ c.f = s.f /\ c.sp = s.sp /\ c.pc = s.pc
              /\ c.mem = s.mem /\ c.cart = s.cart /\ c.window = s.window
              /\ c.booting = s.booting
              /\ \A b \in Int : W16(b) # IfAddress
                    => monitor_rd_mem(c, b) = monitor_rd_mem(s, b)
<1> DEFINE k == Min(Pending(s))
           n == OfBits(Bits(s.if_reg) \ {k})
           c == [Wake(s) EXCEPT !.ime_enabled = FALSE, !.if_reg = n]
<1>1. k \in 0..7
  <2>1. Pending(s) \in SUBSET (0..7)
    BY DEF Pending, Bits
  <2> QED BY <2>1, Lowest DEF Accepts
<1>2. n \in Byte
  BY OfBitsType
<1>3. handle_intrs(s) = CallTo(c, Handler(k))
  <2>1. Accept(s) = CallTo(c, Handler(k))
    BY DEF Accept, process_intr, Wake
  <2>2. handle_intrs(s) = Accept(s)
    BY Zenon DEF handle_intrs, Accepts
  <2> QED BY <2>1, <2>2
<1>4. Handler(k) \in Word
  <2> HIDE DEF k
  <2> QED BY <1>1, Ranges DEF Handler
<1> HIDE DEF k, n
<1>5. /\ c \in CpuType /\ ~c.is_halted /\ ~c.ime_enabled
      /\ c.reg = s.reg /\ c.f = s.f /\ c.sp = s.sp /\ c.pc = s.pc
      /\ c.mem = s.mem /\ c.cart = s.cart /\ c.window = s.window
      /\ c.booting = s.booting /\ c.div_reg = s.div_reg /\ c.tima_reg = s.tima_reg
      /\ c.tma_reg = s.tma_reg /\ c.tac_reg = s.tac_reg /\ c.ie_reg = s.ie_reg
      /\ c.disable_bootrom = s.disable_bootrom
  BY <1>2 DEF Wake, CpuType, CpuFields
<1> HIDE DEF c
<1>6. ASSUME NEW b \in Int, W16(b) # IfAddress
      PROVE  monitor_rd_mem(c, b) = monitor_rd_mem(s, b)
  <2> DEFINE addr == W16(b)
  <2>1. addr \in Io => c[IoRegister[addr]] = s[IoRegister[addr]]
    <3>1. addr # 65295
      BY <1>6 DEF IfAddress
    <3> HIDE DEF addr
    <3> QED BY <1>5, <3>1, IoNames
  <2>2. mbc1_rd_mem(c, addr) = mbc1_rd_mem(s, addr)
    <3> HIDE DEF addr
    <3> QED BY <1>5, Zenon DEF mbc1_rd_mem
  <2>3. addr < CartridgeEnd \/ CartridgeEnd <= addr
    <3>1. addr \in Int
      BY Widths, Words, Zenon
    <3> QED BY <3>1 DEF CartridgeEnd, BankSize
  <2> QED BY <1>5, <2>1, <2>2, <2>3, ReadIs
<1> QED BY <1>3, <1>4, <1>5, <1>6 DEF k

\* The call of the handler changes nothing that the interrupted program sees
\* above its stack pointer: handle_intrs and process_intr take the request out
\* of IF, push PC, and leave the other registers, the flags and the memory.
THEOREM InterruptsEnterUnseen ==
    ASSUME NEW s \in CpuType, Accepts(s), KeepsWord(s.sp)
    PROVE  LET h == handle_intrs(s)
           IN  /\ h.pc = Handler(Min(Pending(s))) /\ h.sp = W16(s.sp - 2)
               /\ h.reg = s.reg /\ h.f = s.f
               /\ ~h.is_halted /\ ~h.ime_enabled
               /\ Pushed(h) = s.pc
               /\ \A b \in Int : W16(b) \notin BelowStack(s.sp) \cup {IfAddress}
                     => monitor_rd_mem(h, b) = monitor_rd_mem(s, b)
<1> DEFINE a == Handler(Min(Pending(s)))
           h == handle_intrs(s)
<1>1. PICK c \in CpuType :
         /\ h = CallTo(c, a) /\ a \in Word
         /\ ~c.is_halted /\ ~c.ime_enabled
         /\ c.reg = s.reg /\ c.f = s.f /\ c.sp = s.sp /\ c.pc = s.pc
         /\ c.mem = s.mem /\ c.cart = s.cart /\ c.window = s.window
         /\ c.booting = s.booting
         /\ \A b \in Int : W16(b) # IfAddress => monitor_rd_mem(c, b) = monitor_rd_mem(s, b)
  BY Accepted
<1> HIDE DEF h, a
<1> DEFINE e == Push(c, c.pc)
<1>2. c.pc \in Word
  BY Fields
<1>3. /\ e \in CpuType /\ e.sp = W16(c.sp - 2) /\ e.reg = c.reg /\ e.f = c.f
      /\ e.is_halted = c.is_halted /\ e.ime_enabled = c.ime_enabled
  BY <1>1, <1>2, PushType DEF Inside
<1>4. h = [e EXCEPT !.pc = a]
  BY <1>1 DEF CallTo
<1>5. ASSUME NEW x \in CpuType, SameMemory(e, x), x.sp = e.sp
      PROVE  /\ Pushed(x) = c.pc
             /\ \A b \in Int : W16(b) \notin BelowStack(c.sp)
                   => monitor_rd_mem(x, b) = monitor_rd_mem(c, b)
  BY <1>1, <1>2, <1>5, OnStack
<1> HIDE DEF e
<1>6. /\ h \in CpuType /\ SameMemory(e, h) /\ h.sp = e.sp /\ h.pc = a
      /\ h.reg = e.reg /\ h.f = e.f
      /\ h.is_halted = e.is_halted /\ h.ime_enabled = e.ime_enabled
  BY <1>1, <1>3, <1>4 DEF SameMemory, CpuType, CpuFields
<1>7. \A b \in Int : W16(b) \notin BelowStack(s.sp) \cup {IfAddress}
         => monitor_rd_mem(h, b) = monitor_rd_mem(s, b)
  BY <1>1, <1>5, <1>6
<1>8. Pushed(h) = s.pc
  BY <1>1, <1>5, <1>6
<1> QED BY <1>1, <1>3, <1>6, <1>7, <1>8 DEF h, a

\* A RETI takes PC and SP from the stack and leaves all else.
LEMMA Returned ==
    ASSUME NEW s \in CpuType, ~s.is_halted, N8(s) = RETI
    PROVE  LET t == Execute(s)
           IN  /\ t \in CpuType /\ t.pc = Pushed(s) /\ t.sp = W16(s.sp + 2)
               /\ t.ime_enabled
               /\ t.reg = s.reg /\ t.f = s.f /\ SameMemory(s, t)
<1> DEFINE w == ADVANCE_PC(s, 1)
           t == Execute(s)
<1>0. t \in CpuType
  BY ExecuteEnds DEF Lands
<1>1. t = op_reti(w)
  <2>1. 3 \in 0..3 /\ 3 \in Field /\ 1 \in Field /\ 64 * 3 + 8 * 3 + 1 = RETI
        /\ RETI # OPCODE_PREFIX
    BY DEF Field, RETI, OPCODE_PREFIX
  <2>2. t = Block3(w, 3, 1)
    BY <2>1, Dispatched
  <2>3. 1 # 0 /\ 1 # 2 /\ 1 # 3 /\ 1 # 4 /\ 1 # 5 /\ 1 # 6 /\ 1 # 7
        /\ 3 % 2 = 1 /\ 3 # 1 /\ 3 # 5 /\ 3 # 7
    OBVIOUS
  <2> HIDE DEF w, t
  <2> QED BY <2>2, <2>3, Zenon DEF Block3
<1>2. /\ w \in CpuType /\ w.reg = s.reg /\ w.sp = s.sp /\ w.f = s.f /\ SameMemory(s, w)
      /\ \A b \in Int : monitor_rd_mem(w, b) = monitor_rd_mem(s, b)
  BY Fetched
<1> HIDE DEF w, t
<1> DEFINE to == Pushed(s)
           sp == W16(s.sp + 2)
<1>3. Pushed(w) = to
  <2>1. s.sp \in Int /\ s.sp + 1 \in Int
    BY Fields, Ranges
  <2> QED BY <1>2, <2>1 DEF Pushed, RD_WORD
<1>4. W16(w.sp + 2) = sp
  BY <1>2
<1> HIDE DEF to, sp
<1>5. t = [[[[w EXCEPT !.pc = to] EXCEPT !.sp = sp] EXCEPT !.ime_enabled = TRUE]
              EXCEPT !.cycles = 4]
  <2> DEFINE r == [w EXCEPT !.pc = to]
  <2>1. t = Took([Drop(r) EXCEPT !.ime_enabled = TRUE], 4)
    BY <1>1, <1>3 DEF op_reti, DO_RET
  <2>2. r.sp = w.sp
    BY <1>2 DEF CpuType, CpuFields
  <2> HIDE DEF r
  <2>3. t = [[[r EXCEPT !.sp = sp] EXCEPT !.ime_enabled = TRUE] EXCEPT !.cycles = 4]
    BY <1>4, <2>1, <2>2 DEF Took, Drop
  <2> QED BY <2>3 DEF r
<1>6. /\ t.pc = to /\ t.sp = sp /\ t.ime_enabled /\ t.reg = w.reg /\ t.f = w.f
      /\ SameMemory(w, t)
  BY <1>2, <1>5 DEF SameMemory, CpuType, CpuFields
<1> QED BY <1>0, <1>2, <1>6 DEF t, to, sp, SameMemory

\* And its RETI resumes the program: wherever the handler has led, once it comes
\* to a RETI with SP and the word there as it found them, PC, SP and the enabled
\* interrupts are as they were when the interrupt was accepted, and registers
\* and flags as the handler left them.
THEOREM InterruptsReturn ==
    ASSUME NEW s \in CpuType, Accepts(s), KeepsWord(s.sp),
           NEW u \in CpuType, ~u.is_halted, N8(u) = RETI,
           u.sp = handle_intrs(s).sp, Pushed(u) = Pushed(handle_intrs(s))
    PROVE  LET t == Execute(u)
           IN  /\ t.pc = s.pc /\ t.sp = s.sp /\ t.ime_enabled = s.ime_enabled
               /\ t.reg = u.reg /\ t.f = u.f
               /\ \A b \in Int : monitor_rd_mem(t, b) = monitor_rd_mem(u, b)
<1> DEFINE t == Execute(u)
<1>1. Pushed(u) = s.pc /\ u.sp = W16(s.sp - 2) /\ s.ime_enabled
  BY InterruptsEnterUnseen DEF Accepts
<1>2. /\ t.pc = Pushed(u) /\ t.sp = W16(u.sp + 2) /\ t.ime_enabled
      /\ t.reg = u.reg /\ t.f = u.f /\ SameMemory(u, t)
  BY Returned
<1> HIDE DEF t
<1>3. t.sp = s.sp
  <2>1. s.sp \in Int /\ 0 <= s.sp /\ s.sp < 65536
    BY Fields, Ranges
  <2>2. W16(W16(s.sp - 2) + 2) = s.sp
    BY <2>1 DEF W16
  <2> QED BY <1>1, <1>2, <2>2
<1>4. \A b \in Int : monitor_rd_mem(t, b) = monitor_rd_mem(u, b)
  BY <1>2, SameReads
<1> QED BY <1>1, <1>2, <1>3, <1>4 DEF t

-----------------------------------------------------------------------------
(* Bits of a register.                                                      *)

\* The bits of a register put together from them, as far as interrupts use them.
LEMMA BitSet ==
    ASSUME NEW p \in {1, 2, 4, 8, 16}, NEW high \in Nat, NEW low \in Nat, low < p
    PROVE  ((p * (2 * high + 1) + low) \div p) % 2 = 1
<1> DEFINE n == p * (2 * high + 1) + low
           q == 2 * high + 1
<1>1. n \div p = q
  <2>1. q \in Nat
    OBVIOUS
  <2> HIDE DEF q
  <2>2. n = p * q + low
    BY DEF q
  <2>3. CASE p = 1
    BY <2>1, <2>2, <2>3
  <2>4. CASE p = 2
    BY <2>1, <2>2, <2>4
  <2>5. CASE p = 4
    BY <2>1, <2>2, <2>5
  <2>6. CASE p = 8
    BY <2>1, <2>2, <2>6
  <2>7. CASE p = 16
    BY <2>1, <2>2, <2>7
  <2> QED BY <2>3, <2>4, <2>5, <2>6, <2>7
<1>2. q % 2 = 1
  OBVIOUS
<1> QED BY <1>1, <1>2

LEMMA KeptBits ==
    ASSUME NEW S, NEW k \in Interrupts, k \in S
    PROVE  k \in Bits(OfBits(S))
<1> DEFINE v(i, n) == IF i \in S THEN n ELSE 0
           n == OfBits(S)
<1>1. n = v(0, 1) + v(1, 2) + v(2, 4) + v(3, 8) + v(4, 16) + v(5, 32) + v(6, 64) + v(7, 128)
  BY DEF OfBits
<1>2. CASE k = 0
  <2> DEFINE high == v(1, 1) + v(2, 2) + v(3, 4) + v(4, 8) + v(5, 16) + v(6, 32) + v(7, 64)
             low == 0
  <2>1. high \in Nat /\ low \in Nat /\ low < 1
    OBVIOUS
  <2>2. n = 1 * (2 * high + 1) + low
    BY <1>1, <1>2
  <2> HIDE DEF high, low, n
  <2>3. (n \div 1) % 2 = 1
    BY <2>1, <2>2, BitSet
  <2>4. Bit(n, 0) = 1
    BY <2>3 DEF Bit
  <2> QED BY <1>2, <2>4 DEF Bits, n
<1>3. CASE k = 1
  <2> DEFINE high == v(2, 1) + v(3, 2) + v(4, 4) + v(5, 8) + v(6, 16) + v(7, 32)
             low == v(0, 1)
  <2>1. high \in Nat /\ low \in Nat /\ low < 2
    OBVIOUS
  <2>2. n = 2 * (2 * high + 1) + low
    BY <1>1, <1>3
  <2> HIDE DEF high, low, n
  <2>3. (n \div 2) % 2 = 1
    BY <2>1, <2>2, BitSet
  <2>4. Bit(n, 1) = 1
    BY <2>3 DEF Bit
  <2> QED BY <1>3, <2>4 DEF Bits, n
<1>4. CASE k = 2
  <2> DEFINE high == v(3, 1) + v(4, 2) + v(5, 4) + v(6, 8) + v(7, 16)
             low == v(0, 1) + v(1, 2)
  <2>1. high \in Nat /\ low \in Nat /\ low < 4
    OBVIOUS
  <2>2. n = 4 * (2 * high + 1) + low
    BY <1>1, <1>4
  <2> HIDE DEF high, low, n
  <2>3. (n \div 4) % 2 = 1
    BY <2>1, <2>2, BitSet
  <2>4. Bit(n, 2) = 1
    BY <2>3 DEF Bit
  <2> QED BY <1>4, <2>4 DEF Bits, n
<1>5. CASE k = 3
  <2> DEFINE high == v(4, 1) + v(5, 2) + v(6, 4) + v(7, 8)
             low == v(0, 1) + v(1, 2) + v(2, 4)
  <2>1. high \in Nat /\ low \in Nat /\ low < 8
    OBVIOUS
  <2>2. n = 8 * (2 * high + 1) + low
    BY <1>1, <1>5
  <2> HIDE DEF high, low, n
  <2>3. (n \div 8) % 2 = 1
    BY <2>1, <2>2, BitSet
  <2>4. Bit(n, 3) = 1
    BY <2>3 DEF Bit
  <2> QED BY <1>5, <2>4 DEF Bits, n
<1>6. CASE k = 4
  <2> DEFINE high == v(5, 1) + v(6, 2) + v(7, 4)
             low == v(0, 1) + v(1, 2) + v(2, 4) + v(3, 8)
  <2>1. high \in Nat /\ low \in Nat /\ low < 16
    OBVIOUS
  <2>2. n = 16 * (2 * high + 1) + low
    BY <1>1, <1>6
  <2> HIDE DEF high, low, n
  <2>3. (n \div 16) % 2 = 1
    BY <2>1, <2>2, BitSet
  <2>4. Bit(n, 4) = 1
    BY <2>3 DEF Bit
  <2> QED BY <1>6, <2>4 DEF Bits, n
<1> QED BY <1>2, <1>3, <1>4, <1>5, <1>6 DEF Interrupts

-----------------------------------------------------------------------------
(* What leaves the clocks alone.                                            *)

SameClocks(s, t) ==
    /\ t.div_reg = s.div_reg /\ t.div_counter = s.div_counter
    /\ t.tima_reg = s.tima_reg /\ t.tma_reg = s.tma_reg
    /\ t.tima_enabled = s.tima_enabled
    /\ t.tac_counter = s.tac_counter /\ t.tac_divider = s.tac_divider

\* A write to no register of the processor.
LEMMA WriteKeepsClocks ==
    ASSUME NEW s \in CpuType, NEW a \in Int, NEW v \in Int, W16(a) \notin Io
    PROVE  LET t == monitor_wr_mem(s, a, v)
           IN  SameClocks(s, t) /\ t.if_reg = s.if_reg
<1> DEFINE addr == W16(a)
           b == W8(v)
           w == monitor_wr_mem(s, a, v)
<1>1. addr \in Word /\ b \in Byte
  BY Widths
<1>2. addr \in Int /\ CartridgeEnd \in Int
  BY <1>1, Ranges DEF CartridgeEnd, BankSize
<1>3. w = CASE addr \in Io ->
                   IF IoRegister[addr] = "disable_bootrom"
                     THEN [cpu_wr(s, addr, b) EXCEPT !.booting = FALSE] ELSE cpu_wr(s, addr, b)
            [] addr < CartridgeEnd -> mbc1_wr_mem(s, addr, b)
            [] addr >= CartridgeEnd /\ addr \notin Io ->
                   [s EXCEPT !.mem = Written(@, addr, b)]
  BY DEF monitor_wr_mem, Io
<1> HIDE DEF addr, b, w
<1>4. addr \notin Io
  BY DEF addr
<1>5. CASE addr < CartridgeEnd
  <2>1. ~(addr >= CartridgeEnd)
    BY <1>2, <1>5
  <2>2. w = mbc1_wr_mem(s, addr, b)
    BY <1>3, <1>4, <1>5, <2>1, Zenon
  <2>3. w = Select(s, b) \/ w = s
    BY <2>2 DEF mbc1_wr_mem
  <2>4. \E bank : Select(s, b) = [s EXCEPT !.window = bank] \/ Select(s, b) = s
    BY Zenon DEF Select
  <2>5. PICK bank : Select(s, b) = [s EXCEPT !.window = bank] \/ Select(s, b) = s
    BY <2>4
  <2>6. \/ w = s \/ w = [s EXCEPT !.window = bank]
    BY <2>3, <2>5, Zenon
  <2> QED BY <2>6 DEF SameClocks, w, CpuType, CpuFields
<1>6. CASE ~(addr < CartridgeEnd)
  <2>1. addr >= CartridgeEnd
    BY <1>2, <1>6
  <2>2. w = [s EXCEPT !.mem = Written(s.mem, addr, b)]
    BY <1>3, <1>4, <1>6, <2>1, Zenon
  <2> QED BY <2>2 DEF SameClocks, w, CpuType, CpuFields
<1> QED BY <1>5, <1>6

\* The two bytes that a call from s pushes go to no register of the processor.
PushesAway(s) == W16(s.sp - 2) \notin Io /\ W16(s.sp - 1) \notin Io

LEMMA CallKeepsClocks ==
    ASSUME NEW s \in CpuType, NEW a \in Word, PushesAway(s)
    PROVE  SameClocks(s, CallTo(s, a)) /\ CallTo(s, a).if_reg = s.if_reg
<1> DEFINE n == W16(s.sp - 2)
           t == [s EXCEPT !.sp = n]
           u == monitor_wr_mem(t, n, W8(s.pc))
           w == monitor_wr_mem(u, n + 1, s.pc \div 256)
           c == [w EXCEPT !.pc = a]
<1>0. s.sp \in Int /\ s.pc \in Word
  BY Fields, Words, Zenon
<1>1. s.sp - 2 \in Int /\ (s.sp - 2) + 1 = s.sp - 1
  BY <1>0
<1>2. n \in Word /\ n \in Int /\ n + 1 \in Int /\ W8(s.pc) \in Int /\ s.pc \div 256 \in Int
  <2>1. n \in Word /\ n \in Int
    BY <1>1, Widths, Words, Zenon
  <2>2. s.pc \in Int /\ s.pc \div 256 \in Int
    BY <1>0, Words, Zenon
  <2>3. W8(s.pc) \in Int
    BY <2>2, Widths, Words, Zenon
  <2>4. n + 1 \in Int
    <3> HIDE DEF n
    <3> QED BY <2>1
  <2> QED BY <2>1, <2>2, <2>3, <2>4
<1>3. W16(n) \notin Io /\ W16(n + 1) \notin Io
  <2>1. W16(n) = n
    BY <1>2, Widths, Zenon
  <2>2. 1 \in Int
    OBVIOUS
  <2>3. W16(n + 1) = W16((s.sp - 2) + 1)
    BY <1>1, <2>2, StepTwice, Zenon
  <2> QED BY <1>1, <2>1, <2>3 DEF PushesAway
<1>4. t \in CpuType /\ SameClocks(s, t) /\ t.if_reg = s.if_reg /\ t.sp = n /\ t.pc = s.pc
  <2> HIDE DEF n
  <2> QED BY <1>2 DEF CpuType, CpuFields, SameClocks
<1>5. CallTo(s, a) = c
  <2> HIDE DEF n
  <2>1. Push(s, s.pc) = WR_WORD(t, t.sp, s.pc)
    BY DEF Push, n
  <2>2. Push(s, s.pc) = w
    BY <1>4, <2>1 DEF WR_WORD
  <2> QED BY <2>2 DEF CallTo
<1> HIDE DEF n, t
<1>6. u \in CpuType /\ SameClocks(t, u) /\ u.if_reg = t.if_reg
  <2> DEFINE lo == W8(s.pc)
  <2>1. t \in CpuType /\ n \in Int /\ lo \in Int /\ W16(n) \notin Io
    BY <1>2, <1>3, <1>4
  <2> HIDE DEF lo
  <2>2. u = monitor_wr_mem(t, n, lo)
    BY DEF lo
  <2> HIDE DEF u
  <2> QED BY <2>1, <2>2, WriteType, WriteKeepsClocks, Zenon
<1> HIDE DEF u
<1>7. w \in CpuType /\ SameClocks(u, w) /\ w.if_reg = u.if_reg
  <2> DEFINE m == n + 1
             hi == s.pc \div 256
  <2>1. u \in CpuType /\ m \in Int /\ hi \in Int /\ W16(m) \notin Io
    BY <1>2, <1>3, <1>6
  <2> HIDE DEF m, hi
  <2>2. w = monitor_wr_mem(u, m, hi)
    BY DEF m, hi
  <2> HIDE DEF w
  <2> QED BY <2>1, <2>2, WriteType, WriteKeepsClocks, Zenon
<1> HIDE DEF w
<1>8. SameClocks(w, c) /\ c.if_reg = w.if_reg
  BY <1>7 DEF SameClocks, CpuType, CpuFields
<1> HIDE DEF c
<1> QED BY <1>4, <1>5, <1>6, <1>7, <1>8 DEF SameClocks

\* An interrupt that is taken leaves the clocks alone, and every request but its
\* own.
LEMMA InterruptKeepsClocks ==
    ASSUME NEW s \in CpuType, Accepts(s) => PushesAway(s)
    PROVE  /\ SameClocks(s, handle_intrs(s))
           /\ \A i \in Interrupts : i \in Bits(s.if_reg) =>
                 \/ i \in Bits(handle_intrs(s).if_reg)
                 \/ /\ Accepts(s) /\ i = Min(Pending(s))
                    /\ handle_intrs(s).pc = Handler(i)
<1>1. CASE Accepts(s)
  <2> DEFINE k == Min(Pending(s))
             S == Bits(s.if_reg) \ {k}
             n == OfBits(S)
             t == [Wake(s) EXCEPT !.ime_enabled = FALSE, !.if_reg = n]
  <2>1. k \in 0..7
    <3>1. Pending(s) \in SUBSET (0..7)
      BY DEF Pending, Bits
    <3> QED BY <1>1, <3>1, Lowest DEF Accepts
  <2>2. handle_intrs(s) = CallTo(t, Handler(k))
    <3>1. handle_intrs(s) = Accept(s)
      BY <1>1, Zenon DEF handle_intrs, Accepts
    <3> QED BY <3>1 DEF Accept, process_intr, Wake
  <2>3. n \in Byte /\ Handler(k) \in Word
    BY <2>1, OfBitsType, Ranges DEF Handler
  <2> HIDE DEF k, n
  <2>4. t \in CpuType /\ SameClocks(s, t) /\ t.if_reg = n /\ t.sp = s.sp
    BY <2>3 DEF Wake, CpuType, CpuFields, SameClocks
  <2> HIDE DEF t
  <2>5. PushesAway(t)
    BY <1>1, <2>4 DEF PushesAway
  <2>6. /\ SameClocks(t, handle_intrs(s)) /\ handle_intrs(s).if_reg = t.if_reg
        /\ handle_intrs(s).pc = Handler(k)
    BY <2>2, <2>3, <2>4, <2>5, CallKeepsClocks, CallType
  <2>7. ASSUME NEW i \in Interrupts, i \in Bits(s.if_reg)
        PROVE  i \in Bits(n) \/ i = k
    <3>1. CASE i # k
      <4>1. i \in S
        BY <2>7, <3>1
      <4> QED BY <4>1, KeptBits DEF n
    <3> QED BY <3>1
  <2>8. SameClocks(s, handle_intrs(s))
    BY <2>4, <2>6 DEF SameClocks
  <2> QED BY <1>1, <2>4, <2>6, <2>7, <2>8 DEF k
<1>2. CASE ~Accepts(s)
  <2>1. handle_intrs(s) = Wake(s) \/ handle_intrs(s) = s
    BY <1>2, Zenon DEF handle_intrs
  <2>2. SameClocks(s, Wake(s)) /\ Wake(s).if_reg = s.if_reg
    BY DEF Wake, CpuType, CpuFields, SameClocks
  <2>3. SameClocks(s, s)
    BY DEF SameClocks
  <2> QED BY <2>1, <2>2, <2>3
<1> QED BY <1>1, <1>2

\* Neither the clocks nor an interrupt swallows a request: after an instruction
\* each one waits until its own handler is entered, which is the first of those
\* that IE enables.
THEOREM RequestsWait ==
    ASSUME NEW s \in CpuType, NEW k \in Interrupts,
           k \in Bits(Execute(s).if_reg), Accepts(Clocked(s)) => PushesAway(Clocked(s))
    PROVE  LET next == handle_intrs(Clocked(s))
           IN  \/ k \in Bits(next.if_reg)
               \/ next.pc = Handler(k) /\ Accepts(Clocked(s)) /\ k = Min(Pending(Clocked(s)))
<1> DEFINE t == Execute(s)
           c == t.cycles
           u == CountDiv(t, c)
           w == CountTima(u, c)
<1>1. t \in CpuType /\ c \in Nat
  BY ExecuteEnds DEF Lands
<1>2. Clocked(s) = w
  BY DEF Clocked
<1> HIDE DEF t, c
<1>3. u \in CpuType /\ u.if_reg = t.if_reg
  <2> DEFINE n == (t.div_counter + c) % 64
             d == IF n < t.div_counter THEN W8(t.div_reg + 1) ELSE t.div_reg
  <2>1. u = [t EXCEPT !.div_counter = n, !.div_reg = d]
    BY DEF CountDiv
  <2>2. u \in CpuType
    BY <1>1, CountDivType
  <2> HIDE DEF n, d, u
  <2> QED BY <1>1, <2>1, <2>2 DEF CpuType, CpuFields
<1> HIDE DEF u
<1>4. w \in CpuType /\ k \in Bits(w.if_reg)
  <2> DEFINE i == IncTima(u)
             n == u.tac_counter + c
             m == n % u.tac_divider
  <2>1. w \in CpuType
    BY <1>1, <1>3, CountTimaType
  <2>2. k \in Bits(u.if_reg)
    BY <1>3 DEF t
  <2>3. i \in CpuType /\ k \in Bits(i.if_reg)
    <3> DEFINE r == [u EXCEPT !.tima_reg = u.tma_reg]
               S == Bits(u.if_reg) \cup {TIMER}
               b == OfBits(S)
    <3>1. i \in CpuType
      BY <1>3, IncTimaType
    <3>2. k \in Bits(b)
      <4>1. k \in S
        BY <2>2
      <4> QED BY <4>1, KeptBits
    <3>3. r.if_reg = u.if_reg
      BY <1>3 DEF CpuType, CpuFields
    <3>4. i = [u EXCEPT !.tima_reg = u.tima_reg + 1] \/ i = [r EXCEPT !.if_reg = b]
      BY <3>3 DEF IncTima, cpu_request_intr
    <3> HIDE DEF b
    <3>5. i.if_reg = u.if_reg \/ i.if_reg = b
      BY <1>3, <3>4 DEF CpuType, CpuFields
    <3> QED BY <2>2, <3>1, <3>2, <3>5
  <2>4. \/ w = u \/ w = [u EXCEPT !.tac_counter = n] \/ w = [i EXCEPT !.tac_counter = m]
    <3>0. n \in Int /\ u.tac_divider \in Int
      BY <1>1, <1>3 DEF CpuType, CpuFields, Dividers
    <3>1. \/ n < u.tac_divider /\ ~(n >= u.tac_divider)
          \/ n >= u.tac_divider /\ ~(n < u.tac_divider)
      BY <3>0
    <3>2. CASE ~u.tima_enabled
      BY <3>2, Zenon DEF CountTima
    <3>3. CASE u.tima_enabled /\ n < u.tac_divider /\ ~(n >= u.tac_divider)
      BY <3>3, Zenon DEF CountTima
    <3>4. CASE u.tima_enabled /\ n >= u.tac_divider /\ ~(n < u.tac_divider)
      BY <3>4, Zenon DEF CountTima
    <3> QED BY <3>1, <3>2, <3>3, <3>4
  <2> HIDE DEF i, n, m, w
  <2>5. w.if_reg = u.if_reg \/ w.if_reg = i.if_reg
    BY <1>3, <2>3, <2>4 DEF CpuType, CpuFields
  <2> QED BY <2>1, <2>2, <2>3, <2>5
<1> HIDE DEF w
<1>5. Accepts(w) => PushesAway(w)
  BY <1>2
<1> QED BY <1>2, <1>4, <1>5, InterruptKeepsClocks
=============================================================================
