------------------------------ MODULE CpuProofs -----------------------------
(***************************************************************************)
(* Proofs about Cpu, for any program and any requests of the picture unit: *)
(* the clocks count every cycle, a program that keeps its contract is not  *)
(* aware of its interrupts, and no request is lost.                        *)
(*                                                                         *)
(* The second rests on an argument of noninterference: an instruction that *)
(* reads only what the program sees takes two states that look alike to    *)
(* the program to two that look alike, whatever they hide.                 *)
(***************************************************************************)
EXTENDS Cpu, ProcessorProofs

CpuInv == cpu \in CpuType

-----------------------------------------------------------------------------
(* The clocks.                                                              *)

\* DIV and its counter together advance by the cycles counted; the timer does not.
LEMMA DivCounts ==
    ASSUME NEW s \in CpuType, NEW c \in 1..6
    PROVE  LET t == CountDiv(s, c)
           IN  /\ DivTime(t) = (DivTime(s) + c) % 16384
               /\ t.tima_reg = s.tima_reg /\ t.tma_reg = s.tma_reg
               /\ t.tima_enabled = s.tima_enabled /\ t.if_reg = s.if_reg
               /\ t.tac_counter = s.tac_counter /\ t.tac_divider = s.tac_divider
<1> DEFINE n == (s.div_counter + c) % 64
           d == IF n < s.div_counter THEN W8(s.div_reg + 1) ELSE s.div_reg
           t == [s EXCEPT !.div_counter = n, !.div_reg = d]
<1>1. /\ s.div_counter \in Int /\ 0 <= s.div_counter /\ s.div_counter < 64
      /\ s.div_reg \in Int /\ 0 <= s.div_reg /\ s.div_reg < 256
  <2>1. s.div_counter \in 0..63 /\ s.div_reg \in Byte
    BY DEF CpuType, CpuFields
  <2>2. s.div_reg \in Int /\ 0 <= s.div_reg /\ s.div_reg < 256
    BY <2>1, Ranges
  <2> QED BY <2>1, <2>2
<1>2. CountDiv(s, c) = t
  BY DEF CountDiv
<1>3. 64 * d + n = (64 * s.div_reg + s.div_counter + c) % 16384
  <2>1. CASE s.div_counter + c < 64
    <3>1. n = s.div_counter + c
      BY <1>1, <2>1
    <3>2. d = s.div_reg
      BY <1>1, <3>1
    <3> QED BY <1>1, <2>1, <3>1, <3>2
  <2>2. CASE ~(s.div_counter + c < 64)
    <3>1. n = (s.div_counter + c) - 64
      BY <1>1, <2>2
    <3>2. d = (s.div_reg + 1) % 256
      BY <1>1, <3>1 DEF W8
    <3> HIDE DEF n, d
    <3>3. CASE s.div_reg = 255
      <4>1. d = 0 /\ 64 * s.div_reg + s.div_counter + c = 16384 + n
        BY <1>1, <3>1, <3>2, <3>3
      <4>2. n \in Int /\ 0 <= n /\ n < 64
        BY <1>1, <2>2, <3>1
      <4> QED BY <4>1, <4>2
    <3>4. CASE s.div_reg < 255
      <4>1. d = s.div_reg + 1
        BY <1>1, <3>2, <3>4
      <4>2. 64 * s.div_reg + s.div_counter + c = 64 * d + n
        BY <1>1, <3>1, <4>1
      <4>3. 64 * d + n \in Int /\ 0 <= 64 * d + n /\ 64 * d + n < 16384
        BY <1>1, <2>2, <3>1, <3>4, <4>1
      <4> QED BY <4>2, <4>3
    <3> QED BY <1>1, <3>3, <3>4
  <2> QED BY <2>1, <2>2
<1> HIDE DEF n, d
<1>4. /\ t.div_reg = d /\ t.div_counter = n
      /\ t.tima_reg = s.tima_reg /\ t.tma_reg = s.tma_reg
      /\ t.tima_enabled = s.tima_enabled /\ t.if_reg = s.if_reg
      /\ t.tac_counter = s.tac_counter /\ t.tac_divider = s.tac_divider
  BY DEF CpuType, CpuFields
<1> HIDE DEF t
<1> QED BY <1>2, <1>3, <1>4 DEF DivTime

\* The timer leaves DIV alone.
LEMMA TimaKeepsDiv ==
    ASSUME NEW s \in CpuType, NEW c \in Nat
    PROVE  DivTime(CountTima(s, c)) = DivTime(s)
<1> DEFINE n == s.tac_counter + c
           w == CountTima(s, c)
           i == IncTima(s)
<1>0. n \in Int /\ s.tac_divider \in Int
  BY DEF CpuType, CpuFields, Dividers
<1>1. i \in CpuType /\ i.div_reg = s.div_reg /\ i.div_counter = s.div_counter
  <2>1. i \in CpuType
    BY IncTimaType
  <2> DEFINE t == [s EXCEPT !.tima_reg = s.tma_reg]
             m == OfBits(Bits(t.if_reg) \cup {TIMER})
  <2>2. i = [s EXCEPT !.tima_reg = s.tima_reg + 1] \/ i = [t EXCEPT !.if_reg = m]
    BY DEF IncTima, cpu_request_intr
  <2> HIDE DEF m
  <2> QED BY <2>1, <2>2 DEF CpuType, CpuFields
<1>2. \/ w = s \/ w = [s EXCEPT !.tac_counter = n]
      \/ w = [i EXCEPT !.tac_counter = n % s.tac_divider]
  <2>1. \/ n < s.tac_divider /\ ~(n >= s.tac_divider)
        \/ n >= s.tac_divider /\ ~(n < s.tac_divider)
    BY <1>0
  <2>2. CASE ~s.tima_enabled
    BY <2>2, Zenon DEF CountTima
  <2>3. CASE s.tima_enabled /\ n < s.tac_divider /\ ~(n >= s.tac_divider)
    BY <2>3, Zenon DEF CountTima
  <2>4. CASE s.tima_enabled /\ n >= s.tac_divider /\ ~(n < s.tac_divider)
    BY <2>4, Zenon DEF CountTima
  <2> QED BY <2>1, <2>2, <2>3, <2>4
<1> HIDE DEF i, w, n
<1> QED BY <1>1, <1>2 DEF DivTime, w, CpuType, CpuFields

\* With a divider of 16 or more an instruction is worth at most one tick of the
\* timer: TIMA and its counter together advance by the cycles, or start again at
\* TMA with the interrupt requested.
LEMMA TimaAdvances ==
    ASSUME NEW s \in CpuType, NEW c \in 1..6, s.tima_enabled, s.tac_divider > 4,
           s.tac_counter < s.tac_divider
    PROVE  LET w == CountTima(s, c)
               passed == TimaTime(s) + c
               full == 256 * s.tac_divider
           IN  IF passed < full
                 THEN TimaTime(w) = passed
                 ELSE /\ TimaTime(w) = s.tac_divider * s.tma_reg + passed - full
                      /\ TIMER \in Bits(w.if_reg)
<1> DEFINE n == s.tac_counter + c
           d == s.tac_divider
           a == s.tima_reg
           w == CountTima(s, c)
           passed == TimaTime(s) + c
           full == 256 * d
<1>0. s.tac_counter \in Nat /\ s.tma_reg \in Int /\ c \in Int /\ 1 <= c /\ c <= 6
  BY Ranges DEF CpuType, CpuFields
<1>1. d = 16 \/ d = 64 \/ d = 256
  BY DEF CpuType, CpuFields, Dividers
<1>2. a \in Int /\ 0 <= a /\ a <= 255
  <2>1. a \in Byte
    BY DEF CpuType, CpuFields
  <2> QED BY <2>1, Ranges
<1>3. passed = d * a + n
  BY <1>0, <1>1, <1>2 DEF TimaTime
<1>4. n \in Int /\ 0 <= n /\ n < 2 * d
  BY <1>0, <1>1
<1>5. CASE n < d
  <2>1. ~(n >= d)
    BY <1>1, <1>4, <1>5
  <2>2. w = [s EXCEPT !.tac_counter = n]
    BY <1>5, <2>1, Zenon DEF CountTima
  <2> HIDE DEF n
  <2>3. w.tac_divider = d /\ w.tima_reg = a /\ w.tac_counter = n
    BY <2>2 DEF CpuType, CpuFields
  <2> HIDE DEF w, d, a, passed
  <2>4. TimaTime(w) = passed
    BY <1>3, <2>3 DEF TimaTime
  <2>5. passed < full
    BY <1>1, <1>2, <1>3, <1>4, <1>5
  <2> QED BY <2>4, <2>5 DEF w, d, passed
<1>6. CASE n >= d
  <2>1. ~(n < d)
    BY <1>1, <1>4, <1>6
  <2>2. n % d = n - d
    BY <1>1, <1>4, <1>6
  <2> DEFINE i == IncTima(s)
  <2>3. w = [i EXCEPT !.tac_counter = n - d]
    <3>1. w = [i EXCEPT !.tac_counter = n % d]
      BY <1>6, <2>1, Zenon DEF CountTima
    <3> QED BY <2>2, <3>1
  <2>4. i \in CpuType /\ i.tac_divider = d
    BY IncTimaType
  <2>5. /\ a < 255 => i.tima_reg = a + 1
        /\ ~(a < 255) => i.tima_reg = s.tma_reg /\ TIMER \in Bits(i.if_reg)
    <3>1. CASE a < 255
      <4>1. i = [s EXCEPT !.tima_reg = a + 1]
        BY <3>1 DEF IncTima
      <4> QED BY <3>1, <4>1 DEF CpuType, CpuFields
    <3>2. CASE ~(a < 255)
      <4> DEFINE t == [s EXCEPT !.tima_reg = s.tma_reg]
                 S == Bits(t.if_reg) \cup {TIMER}
                 m == OfBits(S)
      <4>1. i = [t EXCEPT !.if_reg = m]
        BY <3>2 DEF IncTima, cpu_request_intr
      <4>2. TIMER \in Bits(m)
        <5>1. TIMER \in S /\ TIMER \in Interrupts
          BY DEF TIMER, Interrupts
        <5> QED BY <5>1, KeptBits
      <4> HIDE DEF m
      <4>3. i.tima_reg = s.tma_reg /\ i.if_reg = m
        BY <4>1 DEF CpuType, CpuFields
      <4> QED BY <3>2, <4>2, <4>3
    <3> QED BY <3>1, <3>2
  <2> DEFINE e == n - d
  <2> HIDE DEF i, e
  <2>6. w.tac_divider = d /\ w.tima_reg = i.tima_reg /\ w.tac_counter = e /\ w.if_reg = i.if_reg
    <3>1. w = [i EXCEPT !.tac_counter = e]
      BY <2>3 DEF e
    <3> QED BY <2>4, <3>1 DEF CpuType, CpuFields
  <2>7. TimaTime(w) = d * i.tima_reg + e
    BY <2>6 DEF TimaTime
  <2> HIDE DEF w, d, a, passed, n
  <2>8. CASE a < 255
    <3>1. TimaTime(w) = passed /\ passed < full
      BY <1>1, <1>2, <1>3, <1>4, <1>6, <2>5, <2>7, <2>8 DEF e
    <3> QED BY <3>1 DEF w, d, passed
  <2>9. CASE ~(a < 255)
    <3>1. a = 255 /\ i.tima_reg = s.tma_reg
      BY <1>2, <2>5, <2>9
    <3>2. ~(passed < full) /\ TimaTime(w) = d * s.tma_reg + passed - full
      BY <1>0, <1>1, <1>3, <1>4, <1>6, <2>7, <3>1 DEF e
    <3>3. TIMER \in Bits(w.if_reg)
      BY <2>5, <2>6, <2>9
    <3> QED BY <3>2, <3>3 DEF w, d, passed
  <2> QED BY <2>8, <2>9
<1> QED BY <1>1, <1>4, <1>5, <1>6

-----------------------------------------------------------------------------
(* exec_next.                                                               *)

\* The registers stay within their widths, whatever the program does.
LEMMA CpuTyped == Spec => []CpuInv
<1>1. Init => CpuInv
  BY BootType DEF Init, CpuInv
<1>2. ASSUME CpuInv, [Next]_vars PROVE CpuInv'
  <2>1. CASE cpu_exec_next
    <3>1. Clocked(cpu) \in CpuType
      BY <1>2, ClockedType DEF CpuInv, Lands
    <3>2. handle_intrs(Clocked(cpu)) \in CpuType
      BY <3>1, HandlerType
    <3>3. cpu' = handle_intrs(Clocked(cpu))
      BY <2>1 DEF cpu_exec_next
    <3> QED BY <3>2, <3>3 DEF CpuInv
  <2>2. CASE ppu_refresh
    <3>1. ASSUME NEW S PROVE [cpu EXCEPT !.if_reg = OfBits(Bits(@) \cup S)] \in CpuType
      <4> DEFINE n == OfBits(Bits(cpu.if_reg) \cup S)
      <4>1. n \in Byte
        BY OfBitsType
      <4> HIDE DEF n
      <4>2. [cpu EXCEPT !.if_reg = n] \in CpuType
        BY <1>2, <4>1, PutRequests DEF CpuInv
      <4> QED BY <4>2 DEF n
    <3> QED BY <1>2, <2>2, <3>1 DEF ppu_refresh, CpuInv
  <2>3. CASE UNCHANGED vars
    BY <1>2, <2>3 DEF vars, CpuInv
  <2> QED BY <1>2, <2>1, <2>2, <2>3 DEF Next
<1>3. Spec => Init /\ [][Next]_vars
  BY PTL DEF Spec
<1> QED BY <1>1, <1>2, <1>3, PTL

\* An interrupt never pushes its return address onto a register of the processor.
StackAway ==
    turn = "cpu" /\ Accepts(Clocked(cpu)) => PushesAway(Clocked(cpu))

LEMMA StepCounts ==
    ASSUME CpuInv, cpu_exec_next, Accepts(Clocked(cpu)) => PushesAway(Clocked(cpu))
    PROVE  LET t == Execute(cpu)
           IN  /\ DivTime(cpu') = (DivTime(t) + cpu'.cycles) % 16384
               /\ t.tima_enabled /\ t.tac_divider > 4 /\ t.tac_counter < t.tac_divider
                     => TimaCounts(t, cpu')
<1> DEFINE t == Execute(cpu)
           c == t.cycles
           u == CountDiv(t, c)
           w == CountTima(u, c)
           e == handle_intrs(w)
<1>1. t \in CpuType /\ c \in 1..6 /\ c \in Nat
  BY ExecuteEnds DEF CpuInv, Lands
<1>2. Clocked(cpu) = w
  BY DEF Clocked
<1>3. cpu' = e
  BY <1>2 DEF cpu_exec_next
<1>4. Accepts(w) => PushesAway(w)
  BY <1>2
<1> HIDE DEF t, c
<1>5. u \in CpuType /\ u.cycles = t.cycles
  BY <1>1, CountDivType
<1>6. /\ DivTime(u) = (DivTime(t) + c) % 16384
      /\ u.tima_reg = t.tima_reg /\ u.tma_reg = t.tma_reg
      /\ u.tima_enabled = t.tima_enabled
      /\ u.tac_counter = t.tac_counter /\ u.tac_divider = t.tac_divider
  BY <1>1, DivCounts
<1> HIDE DEF u
<1>7. w \in CpuType /\ w.cycles = u.cycles /\ DivTime(w) = DivTime(u)
  BY <1>1, <1>5, CountTimaType, TimaKeepsDiv
<1>8. ASSUME t.tima_enabled, t.tac_divider > 4, t.tac_counter < t.tac_divider
      PROVE  LET passed == TimaTime(t) + c
                 full == 256 * t.tac_divider
             IN  IF passed < full
                   THEN TimaTime(w) = passed
                   ELSE /\ TimaTime(w) = t.tac_divider * t.tma_reg + passed - full
                        /\ TIMER \in Bits(w.if_reg)
  <2>1. TimaTime(u) = TimaTime(t)
    BY <1>6 DEF TimaTime
  <2>2. LET passed == TimaTime(u) + c
            full == 256 * u.tac_divider
        IN  IF passed < full
              THEN TimaTime(w) = passed
              ELSE /\ TimaTime(w) = u.tac_divider * u.tma_reg + passed - full
                   /\ TIMER \in Bits(w.if_reg)
    <3>1. u.tima_enabled /\ u.tac_divider > 4 /\ u.tac_counter < u.tac_divider
      BY <1>6, <1>8
    <3> QED BY <1>1, <1>5, <3>1, TimaAdvances, Zenon
  <2> HIDE DEF w
  <2> QED BY <1>6, <2>1, <2>2
<1> HIDE DEF w
<1>9. /\ SameClocks(w, e) /\ e.cycles = w.cycles
      /\ TIMER \in Bits(w.if_reg) =>
            TIMER \in Bits(e.if_reg) \/ e.pc = Handler(TIMER)
  BY <1>4, <1>7, InterruptKeepsClocks, HandlerType DEF Interrupts, TIMER
<1> HIDE DEF e
<1>10. DivTime(e) = DivTime(w) /\ TimaTime(e) = TimaTime(w) /\ e.cycles = c
  BY <1>5, <1>7, <1>9 DEF SameClocks, DivTime, TimaTime, c
<1>11. DivTime(e) = (DivTime(t) + e.cycles) % 16384
  BY <1>6, <1>7, <1>10
<1>12. ASSUME t.tima_enabled, t.tac_divider > 4, t.tac_counter < t.tac_divider
       PROVE  TimaCounts(t, e)
  BY <1>8, <1>9, <1>10, <1>12 DEF TimaCounts
<1> QED BY <1>3, <1>11, <1>12 DEF t

\* Both clocks count every cycle of every instruction, for every program whose
\* interrupts find the stack away from the registers of the processor.
THEOREM ClocksTrue == Spec /\ []StackAway => ClocksCountCycles
<1> DEFINE A ==
      cpu_exec_next =>
          LET t == Execute(cpu)
          IN  /\ DivTime(cpu') = (DivTime(t) + cpu'.cycles) % 16384
              /\ t.tima_enabled /\ t.tac_divider > 4 /\ t.tac_counter < t.tac_divider
                    => TimaCounts(t, cpu')
<1>1. CpuInv /\ StackAway => A
  BY StepCounts DEF StackAway, cpu_exec_next
<1>2. CpuInv /\ StackAway => [A]_vars
  BY <1>1
<1> QED BY <1>2, CpuTyped, PTL DEF ClocksCountCycles

-----------------------------------------------------------------------------
(* Two states that differ in what is hidden alone.                          *)

Agree(H, m, n) ==
    \A a \in Word : a \notin H => (a \in DOMAIN n <=> a \in DOMAIN m) /\ At(n, a) = At(m, a)

\* The same registers, flags, bank and boot image, and the same memory but for
\* the addresses of H.  The registers of the machine may be anything.
Alike(H, s, t) ==
    /\ s \in CpuType /\ t \in CpuType
    /\ t.reg = s.reg /\ t.f = s.f /\ t.sp = s.sp /\ t.pc = s.pc
    /\ t.cart = s.cart /\ t.window = s.window /\ t.booting = s.booting
    /\ Agree(H, s.mem, t.mem)

Clear(H, a) == W16(a) \notin Io /\ W16(a) \notin H

LEMMA AlikeReads ==
    ASSUME NEW H, NEW s, NEW t, Alike(H, s, t), NEW a \in Int, Clear(H, a)
    PROVE  monitor_rd_mem(t, a) = monitor_rd_mem(s, a)
<1> DEFINE addr == W16(a)
<1>1. addr \notin Io /\ addr \notin H /\ addr \in Word
  BY Widths DEF Clear
<1>2. addr < CartridgeEnd \/ CartridgeEnd <= addr
  <2>1. addr \in Int
    BY Widths, Words, Zenon
  <2> QED BY <2>1 DEF CartridgeEnd, BankSize
<1>3. mbc1_rd_mem(t, addr) = mbc1_rd_mem(s, addr)
  <2> HIDE DEF addr
  <2> QED BY Zenon DEF mbc1_rd_mem, Alike
<1>4. At(t.mem, addr) = At(s.mem, addr)
  <2> HIDE DEF addr
  <2> QED BY <1>1 DEF Alike, Agree
<1> QED BY <1>1, <1>2, <1>3, <1>4, ReadIs

LEMMA AlikeWords ==
    ASSUME NEW H, NEW s, NEW t, Alike(H, s, t), NEW a \in Int, Clear(H, a), Clear(H, a + 1)
    PROVE  RD_WORD(t, a) = RD_WORD(s, a)
<1>1. a + 1 \in Int
  OBVIOUS
<1> QED BY <1>1, AlikeReads DEF RD_WORD

\* The same write to both.
LEMMA AgreeWritten ==
    ASSUME NEW H, NEW m, NEW n, Agree(H, m, n), NEW a, NEW v
    PROVE  Agree(H \ {a}, Written(m, a, v), Written(n, a, v))
<1> SUFFICES ASSUME NEW b \in Word, b \notin H \ {a}
             PROVE  /\ b \in DOMAIN Written(n, a, v) <=> b \in DOMAIN Written(m, a, v)
                    /\ At(Written(n, a, v), b) = At(Written(m, a, v), b)
  BY DEF Agree
<1>1. CASE b = a
  BY <1>1 DEF Written, At
<1>2. CASE b # a
  <2>1. (b \in DOMAIN n <=> b \in DOMAIN m) /\ At(n, b) = At(m, b)
    BY <1>2 DEF Agree
  <2> QED BY <1>2, <2>1 DEF Written, At
<1> QED BY <1>1, <1>2

LEMMA AgreeMore ==
    ASSUME NEW H, NEW G, NEW m, NEW n, Agree(H, m, n), \A a \in Word : a \in H => a \in G
    PROVE  Agree(G, m, n)
  BY DEF Agree

\* A write to a register of the machine.
LEMMA IoWritten ==
    ASSUME NEW s \in CpuType, NEW addr \in Io, NEW b \in Byte
    PROVE  LET t == cpu_wr(s, addr, b)
           IN  /\ t.mem = s.mem /\ t.window = s.window /\ t.booting = s.booting
               /\ [t EXCEPT !.booting = FALSE].mem = s.mem
               /\ [t EXCEPT !.booting = FALSE].window = s.window
               /\ [t EXCEPT !.booting = FALSE].booting = FALSE
<1> DEFINE t == cpu_wr(s, addr, b)
<1>1. CASE addr = 65284
  <2>1. t = [s EXCEPT !.div_reg = 0]
    BY <1>1, IoNames DEF cpu_wr
  <2> QED BY <2>1 DEF CpuType, CpuFields
<1>2. CASE addr = 65295
  <2>1. t = [s EXCEPT !.if_reg = b % 32]
    BY <1>2, IoNames DEF cpu_wr
  <2> QED BY <2>1 DEF CpuType, CpuFields
<1>3. CASE addr = 65287
  <2>1. t = [s EXCEPT !.tac_reg = b % 8, !.tima_enabled = Bit(b, 2) = 1,
                      !.tac_divider = Divider[(b % 4) + 1]]
    BY <1>3, IoNames DEF cpu_wr
  <2> QED BY <2>1 DEF CpuType, CpuFields
<1>4. CASE addr = 65360
  <2>1. t = [s EXCEPT !.disable_bootrom = IF b = 0 THEN 0 ELSE 1]
    BY <1>4, IoNames DEF cpu_wr
  <2> QED BY <2>1 DEF CpuType, CpuFields
<1>5. CASE addr \in {65285, 65286, 65535}
  <2>1. t = [s EXCEPT ![IoRegister[addr]] = b]
    BY <1>5, IoNames DEF cpu_wr
  <2>2. IoRegister[addr] \in {"tima_reg", "tma_reg", "ie_reg"}
    BY <1>5, IoNames
  <2> QED BY <2>1, <2>2 DEF CpuType, CpuFields
<1> QED BY <1>1, <1>2, <1>3, <1>4, <1>5, IoNames

\* Where a write of the byte b goes.
WroteAt(s, addr, b, w) ==
    LET t == cpu_wr(s, addr, b)
    IN  /\ addr \in Io => w = IF IoRegister[addr] = "disable_bootrom"
                                THEN [t EXCEPT !.booting = FALSE] ELSE t
        /\ addr < CartridgeEnd => w = mbc1_wr_mem(s, addr, b)
        /\ CartridgeEnd <= addr /\ addr \notin Io
              => w = [s EXCEPT !.mem = Written(s.mem, addr, b)]
        /\ addr < CartridgeEnd \/ CartridgeEnd <= addr

LEMMA WriteIs ==
    ASSUME NEW s, NEW a \in Int, NEW v \in Int
    PROVE  WroteAt(s, W16(a), W8(v), monitor_wr_mem(s, a, v))
<1> DEFINE addr == W16(a)
           b == W8(v)
           t == cpu_wr(s, addr, b)
           w == monitor_wr_mem(s, a, v)
<1>1. w = CASE addr \in Io ->
                   IF IoRegister[addr] = "disable_bootrom"
                     THEN [t EXCEPT !.booting = FALSE] ELSE t
            [] addr < CartridgeEnd -> mbc1_wr_mem(s, addr, b)
            [] addr >= CartridgeEnd /\ addr \notin Io ->
                   [s EXCEPT !.mem = Written(@, addr, b)]
  BY DEF monitor_wr_mem, Io
<1>2. addr \in Int
  BY Widths, Words, Zenon
<1> HIDE DEF addr, b, w, t
<1>3. CartridgeEnd = 32768
  BY DEF CartridgeEnd, BankSize
<1>4. addr \in Io => ~(addr < CartridgeEnd)
  BY <1>3, IoNames
<1>5. /\ ~(addr < CartridgeEnd) <=> addr >= CartridgeEnd
      /\ CartridgeEnd <= addr => addr >= CartridgeEnd
      /\ addr < CartridgeEnd \/ CartridgeEnd <= addr
  BY <1>2, <1>3
<1>6. addr \in Io => w = IF IoRegister[addr] = "disable_bootrom"
                           THEN [t EXCEPT !.booting = FALSE] ELSE t
  BY <1>1, <1>4, <1>5, Zenon
<1>7. addr < CartridgeEnd => w = mbc1_wr_mem(s, addr, b)
  BY <1>1, <1>4, <1>5, Zenon
<1>8. CartridgeEnd <= addr /\ ~(addr \in Io) => w = [s EXCEPT !.mem = Written(@, addr, b)]
  BY <1>1, <1>5, Zenon
<1> QED BY <1>5, <1>6, <1>7, <1>8 DEF WroteAt, addr, b, w, t

LEMMA AlikeWrites ==
    ASSUME NEW H, NEW s, NEW t, Alike(H, s, t), NEW a \in Int, NEW v \in Int
    PROVE  LET x == monitor_wr_mem(s, a, v)
               y == monitor_wr_mem(t, a, v)
           IN  /\ Alike(H, x, y)
               /\ CartridgeEnd <= W16(a) /\ W16(a) \notin Io => Alike(H \ {W16(a)}, x, y)
<1> DEFINE addr == W16(a)
           b == W8(v)
           x == monitor_wr_mem(s, a, v)
           y == monitor_wr_mem(t, a, v)
<1>0. s \in CpuType /\ t \in CpuType /\ Agree(H, s.mem, t.mem)
  BY DEF Alike
<1>1. x \in CpuType /\ y \in CpuType /\ Wrote(s, x) /\ Wrote(t, y)
  BY <1>0, WriteType
<1>2. addr \in Word /\ b \in Byte /\ addr \in Int
  BY Widths, Words, Zenon
<1>3. WroteAt(s, addr, b, x) /\ WroteAt(t, addr, b, y)
  BY WriteIs
<1> HIDE DEF addr, b, x, y
<1>5. s.cart = t.cart /\ s.window = t.window /\ s.booting = t.booting
  BY DEF Alike
<1>6. ASSUME NEW G, Agree(G, x.mem, y.mem), y.window = x.window, y.booting = x.booting
      PROVE  Alike(G, x, y)
  BY <1>1, <1>6 DEF Alike, Wrote
<1>7. ASSUME addr \in Io PROVE Alike(H, x, y)
  <2> DEFINE p == cpu_wr(s, addr, b)
             q == cpu_wr(t, addr, b)
  <2>1. /\ x = IF IoRegister[addr] = "disable_bootrom" THEN [p EXCEPT !.booting = FALSE] ELSE p
        /\ y = IF IoRegister[addr] = "disable_bootrom" THEN [q EXCEPT !.booting = FALSE] ELSE q
    BY <1>3, <1>7 DEF WroteAt
  <2>2. /\ p.mem = s.mem /\ p.window = s.window /\ p.booting = s.booting
        /\ [p EXCEPT !.booting = FALSE].mem = s.mem
        /\ [p EXCEPT !.booting = FALSE].window = s.window
        /\ [p EXCEPT !.booting = FALSE].booting = FALSE
    BY <1>0, <1>2, <1>7, IoWritten
  <2>3. /\ q.mem = t.mem /\ q.window = t.window /\ q.booting = t.booting
        /\ [q EXCEPT !.booting = FALSE].mem = t.mem
        /\ [q EXCEPT !.booting = FALSE].window = t.window
        /\ [q EXCEPT !.booting = FALSE].booting = FALSE
    BY <1>0, <1>2, <1>7, IoWritten
  <2> HIDE DEF p, q
  <2>4. CASE IoRegister[addr] = "disable_bootrom"
    BY <1>0, <1>5, <1>6, <2>1, <2>2, <2>3, <2>4
  <2>5. CASE IoRegister[addr] # "disable_bootrom"
    BY <1>0, <1>5, <1>6, <2>1, <2>2, <2>3, <2>5
  <2> QED BY <2>4, <2>5
<1>8. ASSUME addr < CartridgeEnd PROVE Alike(H, x, y)
  <2> DEFINE bank == IF b = 0 THEN 1 ELSE b % 32
  <2>1. ASSUME NEW q \in CpuType, q.cart = s.cart
        PROVE  mbc1_wr_mem(q, addr, b) =
                  IF 8192 <= addr /\ addr < BankSize /\ bank < Cartridges[s.cart].banks
                    THEN [q EXCEPT !.window = bank] ELSE q
    <3>1. Select(q, b) = IF bank < Cartridges[s.cart].banks
                           THEN [q EXCEPT !.window = bank] ELSE q
      BY <2>1, Zenon DEF Select, bank
    <3> HIDE DEF bank
    <3>2. mbc1_wr_mem(q, addr, b) =
            IF 8192 <= addr /\ addr < BankSize THEN Select(q, b) ELSE q
      BY Zenon DEF mbc1_wr_mem
    <3> QED BY <3>1, <3>2
  <2> HIDE DEF bank
  <2>2. /\ x = IF 8192 <= addr /\ addr < BankSize /\ bank < Cartridges[s.cart].banks
                 THEN [s EXCEPT !.window = bank] ELSE s
        /\ y = IF 8192 <= addr /\ addr < BankSize /\ bank < Cartridges[s.cart].banks
                 THEN [t EXCEPT !.window = bank] ELSE t
    BY <1>0, <1>3, <1>5, <1>8, <2>1 DEF WroteAt
  <2>3. x.mem = s.mem /\ y.mem = t.mem /\ x.window = y.window
        /\ x.booting = s.booting /\ y.booting = t.booting
    BY <1>0, <1>5, <2>2 DEF CpuType, CpuFields
  <2> QED BY <1>0, <1>5, <1>6, <2>3
<1>9. ASSUME CartridgeEnd <= addr, addr \notin Io
      PROVE  Alike(H \ {addr}, x, y) /\ Alike(H, x, y)
  <2> DEFINE m == Written(s.mem, addr, b)
             n == Written(t.mem, addr, b)
  <2>1. Agree(H \ {addr}, m, n)
    BY <1>0, AgreeWritten
  <2>2. x = [s EXCEPT !.mem = m] /\ y = [t EXCEPT !.mem = n]
    BY <1>3, <1>9 DEF WroteAt
  <2> HIDE DEF m, n
  <2>3. x.mem = m /\ y.mem = n /\ x.window = s.window /\ y.window = t.window
        /\ x.booting = s.booting /\ y.booting = t.booting
    BY <1>0, <2>2 DEF CpuType, CpuFields
  <2>4. Agree(H, m, n)
    BY <2>1 DEF Agree
  <2> QED BY <1>5, <1>6, <2>1, <2>3, <2>4
<1> QED BY <1>3, <1>7, <1>8, <1>9 DEF WroteAt, addr, x, y

\* x shows these registers, and otherwise what s does.
Shows(x, reg, f, sp, pc, s) ==
    /\ x \in CpuType /\ x.reg = reg /\ x.f = f /\ x.sp = sp /\ x.pc = pc
    /\ x.mem = s.mem /\ x.cart = s.cart /\ x.window = s.window /\ x.booting = s.booting

LEMMA PutsShow ==
    ASSUME NEW s \in CpuType
    PROVE  /\ \A f \in SUBSET Flags : Shows([s EXCEPT !.f = f], s.reg, f, s.sp, s.pc, s)
           /\ \A n \in Word : Shows([s EXCEPT !.sp = n], s.reg, s.f, n, s.pc, s)
           /\ \A n \in Word : Shows([s EXCEPT !.pc = n], s.reg, s.f, s.sp, n, s)
           /\ \A n \in Nat : Shows([s EXCEPT !.cycles = n], s.reg, s.f, s.sp, s.pc, s)
           /\ \A b \in BOOLEAN :
                 /\ Shows([s EXCEPT !.ime_enabled = b], s.reg, s.f, s.sp, s.pc, s)
                 /\ Shows([s EXCEPT !.is_halted = b], s.reg, s.f, s.sp, s.pc, s)
           /\ \A r \in Registers, v \in Byte :
                 Shows([s EXCEPT !.reg[r] = v], [s.reg EXCEPT ![r] = v], s.f, s.sp, s.pc, s)
  BY DEF Shows, CpuType, CpuFields

LEMMA AlikeShown ==
    ASSUME NEW H, NEW s, NEW t, Alike(H, s, t), NEW x, NEW y,
           NEW reg, NEW f, NEW sp, NEW pc,
           Shows(x, reg, f, sp, pc, s), Shows(y, reg, f, sp, pc, t)
    PROVE  Alike(H, x, y)
  BY DEF Alike, Shows

\* The same assignment to both.
LEMMA AlikePuts ==
    ASSUME NEW H, NEW s, NEW t, Alike(H, s, t)
    PROVE  /\ \A f \in SUBSET Flags : Alike(H, [s EXCEPT !.f = f], [t EXCEPT !.f = f])
           /\ \A n \in Word : Alike(H, [s EXCEPT !.sp = n], [t EXCEPT !.sp = n])
           /\ \A n \in Word : Alike(H, [s EXCEPT !.pc = n], [t EXCEPT !.pc = n])
           /\ \A n \in Nat : Alike(H, Took(s, n), Took(t, n))
           /\ \A b \in BOOLEAN :
                 /\ Alike(H, [s EXCEPT !.ime_enabled = b], [t EXCEPT !.ime_enabled = b])
                 /\ Alike(H, [s EXCEPT !.is_halted = b], [t EXCEPT !.is_halted = b])
           /\ \A r \in Registers, v \in Byte :
                 Alike(H, [s EXCEPT !.reg[r] = v], [t EXCEPT !.reg[r] = v])
<1>0. /\ s \in CpuType /\ t \in CpuType
      /\ t.reg = s.reg /\ t.f = s.f /\ t.sp = s.sp /\ t.pc = s.pc
  BY DEF Alike
<1>1. ASSUME NEW f \in SUBSET Flags PROVE Alike(H, [s EXCEPT !.f = f], [t EXCEPT !.f = f])
  <2>1. /\ Shows([s EXCEPT !.f = f], s.reg, f, s.sp, s.pc, s)
        /\ Shows([t EXCEPT !.f = f], s.reg, f, s.sp, s.pc, t)
    BY <1>0, PutsShow, Zenon
  <2> QED BY <2>1, AlikeShown, Zenon
<1>2. ASSUME NEW n \in Word
      PROVE  /\ Alike(H, [s EXCEPT !.sp = n], [t EXCEPT !.sp = n])
             /\ Alike(H, [s EXCEPT !.pc = n], [t EXCEPT !.pc = n])
  <2>1. /\ Shows([s EXCEPT !.sp = n], s.reg, s.f, n, s.pc, s)
        /\ Shows([t EXCEPT !.sp = n], s.reg, s.f, n, s.pc, t)
        /\ Shows([s EXCEPT !.pc = n], s.reg, s.f, s.sp, n, s)
        /\ Shows([t EXCEPT !.pc = n], s.reg, s.f, s.sp, n, t)
    BY <1>0, PutsShow, Zenon
  <2> QED BY <2>1, AlikeShown, Zenon
<1>3. ASSUME NEW n \in Nat PROVE Alike(H, Took(s, n), Took(t, n))
  <2>1. /\ Shows([s EXCEPT !.cycles = n], s.reg, s.f, s.sp, s.pc, s)
        /\ Shows([t EXCEPT !.cycles = n], s.reg, s.f, s.sp, s.pc, t)
    BY <1>0, PutsShow, Zenon
  <2> QED BY <2>1, AlikeShown, Zenon DEF Took
<1>4. ASSUME NEW b \in BOOLEAN
      PROVE  /\ Alike(H, [s EXCEPT !.ime_enabled = b], [t EXCEPT !.ime_enabled = b])
             /\ Alike(H, [s EXCEPT !.is_halted = b], [t EXCEPT !.is_halted = b])
  <2>1. /\ Shows([s EXCEPT !.ime_enabled = b], s.reg, s.f, s.sp, s.pc, s)
        /\ Shows([t EXCEPT !.ime_enabled = b], s.reg, s.f, s.sp, s.pc, t)
        /\ Shows([s EXCEPT !.is_halted = b], s.reg, s.f, s.sp, s.pc, s)
        /\ Shows([t EXCEPT !.is_halted = b], s.reg, s.f, s.sp, s.pc, t)
    BY <1>0, PutsShow, Zenon
  <2> QED BY <2>1, AlikeShown, Zenon
<1>5. ASSUME NEW r \in Registers, NEW v \in Byte
      PROVE  Alike(H, [s EXCEPT !.reg[r] = v], [t EXCEPT !.reg[r] = v])
  <2>1. /\ Shows([s EXCEPT !.reg[r] = v], [s.reg EXCEPT ![r] = v], s.f, s.sp, s.pc, s)
        /\ Shows([t EXCEPT !.reg[r] = v], [s.reg EXCEPT ![r] = v], s.f, s.sp, s.pc, t)
    BY <1>0, PutsShow, Zenon
  <2> QED BY <2>1, AlikeShown, Zenon
<1> QED BY <1>1, <1>2, <1>3, <1>4, <1>5

\* What both read alike.
LEMMA AlikeOperands ==
    ASSUME NEW H, NEW s, NEW t, Alike(H, s, t)
    PROVE  /\ s \in CpuType /\ t \in CpuType
           /\ t.reg = s.reg /\ t.f = s.f /\ t.sp = s.sp /\ t.pc = s.pc
           /\ \A p : Get16(t, p) = Get16(s, p)
           /\ HL(t) = HL(s)
           /\ \A k : Cond(t, k) = Cond(s, k)
           /\ \A a \in Word : Clear(H, a) => monitor_rd_mem(t, a) = monitor_rd_mem(s, a)
           /\ \A r : (r = "IND_HL" => Clear(H, HL(s))) => Get(t, r) = Get(s, r)
           /\ Clear(H, s.pc) => N8(t) = N8(s)
           /\ Clear(H, s.pc) /\ Clear(H, s.pc + 1) => N16(t) = N16(s)
           /\ Clear(H, s.sp) /\ Clear(H, s.sp + 1) => Pushed(t) = Pushed(s)
<1>1. /\ s \in CpuType /\ t \in CpuType
      /\ t.reg = s.reg /\ t.f = s.f /\ t.sp = s.sp /\ t.pc = s.pc
  BY DEF Alike
<1>2. \A p : Get16(t, p) = Get16(s, p)
  BY <1>1, Zenon DEF Get16
<1>3. HL(t) = HL(s)
  BY <1>2, Zenon DEF HL
<1>4. \A k : Cond(t, k) = Cond(s, k)
  BY <1>1, Zenon DEF Cond
<1>5. HL(s) \in Int /\ s.pc \in Int /\ s.sp \in Int
  BY <1>1, GetType, Fields, Words, Zenon
<1>6. \A a \in Word : Clear(H, a) => monitor_rd_mem(t, a) = monitor_rd_mem(s, a)
  <2>1. \A a \in Word : a \in Int
    BY Words
  <2> QED BY <2>1, AlikeReads, Zenon
<1>7. ASSUME NEW r, r = "IND_HL" => Clear(H, HL(s)) PROVE Get(t, r) = Get(s, r)
  <2>1. CASE r = "IND_HL"
    <3>1. monitor_rd_mem(t, HL(s)) = monitor_rd_mem(s, HL(s))
      BY <1>5, <1>7, <2>1, AlikeReads, Zenon
    <3> QED BY <1>3, <2>1, <3>1, Zenon DEF Get
  <2>2. CASE r # "IND_HL"
    BY <1>1, <2>2, Zenon DEF Get
  <2> QED BY <2>1, <2>2, Zenon
<1>8. Clear(H, s.pc) => N8(t) = N8(s)
  <2>1. Clear(H, s.pc) => monitor_rd_mem(t, s.pc) = monitor_rd_mem(s, s.pc)
    BY <1>5, AlikeReads, Zenon
  <2> QED BY <1>1, <2>1, Zenon DEF N8
<1>9. Clear(H, s.pc) /\ Clear(H, s.pc + 1) => N16(t) = N16(s)
  <2>1. Clear(H, s.pc) /\ Clear(H, s.pc + 1) => RD_WORD(t, s.pc) = RD_WORD(s, s.pc)
    BY <1>5, AlikeWords, Zenon
  <2> QED BY <1>1, <2>1, Zenon DEF N16
<1>10. Clear(H, s.sp) /\ Clear(H, s.sp + 1) => Pushed(t) = Pushed(s)
  <2>1. Clear(H, s.sp) /\ Clear(H, s.sp + 1) => RD_WORD(t, s.sp) = RD_WORD(s, s.sp)
    BY <1>5, AlikeWords, Zenon
  <2> QED BY <1>1, <2>1, Zenon DEF Pushed
<1> QED BY <1>1, <1>2, <1>3, <1>4, <1>6, <1>7, <1>8, <1>9, <1>10, Zenon

\* The parts handlers are made of, on both.
LEMMA AlikeParts ==
    ASSUME NEW H, NEW s, NEW t, Alike(H, s, t)
    PROVE  /\ \A k \in Int : Alike(H, ADVANCE_PC(s, k), ADVANCE_PC(t, k))
           /\ \A c, f \in SUBSET Flags : Alike(H, PutFlags(s, c, f), PutFlags(t, c, f))
           /\ \A p \in Pairs, v \in Int : Alike(H, Put16(s, p, v), Put16(t, p, v))
           /\ \A r \in Targets, v \in Int : Alike(H, Put(s, r, v), Put(t, r, v))
           /\ \A a \in Int, v \in Int :
                 Alike(H, monitor_wr_mem(s, a, v), monitor_wr_mem(t, a, v))
           /\ \A y \in 0..7, v \in Int : Alike(H, AluOn(s, y, v), AluOn(t, y, v))
           /\ Alike(H, Drop(s), Drop(t))
<1>0. /\ s \in CpuType /\ t \in CpuType
      /\ t.reg = s.reg /\ t.f = s.f /\ t.sp = s.sp /\ t.pc = s.pc /\ HL(t) = HL(s)
  BY AlikeOperands, Zenon
<1>1. /\ s.pc \in Int /\ s.sp \in Int /\ HL(s) \in Int /\ s.f \in SUBSET Flags
      /\ "A" \in Registers /\ s.reg["A"] \in Byte
  BY <1>0, GetType, Fields, Words, Zenon DEF Registers
<1>2. ASSUME NEW k \in Int PROVE Alike(H, ADVANCE_PC(s, k), ADVANCE_PC(t, k))
  <2>1. s.pc + k \in Int
    BY <1>1
  <2>2. W16(s.pc + k) \in Word
    BY <2>1, Widths, Zenon
  <2> QED BY <1>0, <2>2, AlikePuts, Zenon DEF ADVANCE_PC
<1>3. ASSUME NEW c \in SUBSET Flags, NEW f \in SUBSET Flags
      PROVE  Alike(H, PutFlags(s, c, f), PutFlags(t, c, f))
  <2>1. (s.f \ c) \cup f \in SUBSET Flags
    BY <1>1
  <2> QED BY <1>0, <2>1, AlikePuts, Zenon DEF PutFlags
<1>4. ASSUME NEW r \in Registers, NEW q \in Registers, NEW v \in Byte, NEW w \in Byte
      PROVE  Alike(H, [s EXCEPT !.reg[r] = v, !.reg[q] = w],
                      [t EXCEPT !.reg[r] = v, !.reg[q] = w])
  <2> DEFINE x == [s EXCEPT !.reg[r] = v]
             y == [t EXCEPT !.reg[r] = v]
  <2>1. Alike(H, x, y)
    BY AlikePuts, Zenon
  <2>2. /\ [s EXCEPT !.reg[r] = v, !.reg[q] = w] = [x EXCEPT !.reg[q] = w]
        /\ [t EXCEPT !.reg[r] = v, !.reg[q] = w] = [y EXCEPT !.reg[q] = w]
    OBVIOUS
  <2> HIDE DEF x, y
  <2>3. Alike(H, [x EXCEPT !.reg[q] = w], [y EXCEPT !.reg[q] = w])
    BY <2>1, AlikePuts, Zenon
  <2> QED BY <2>2, <2>3, Zenon
<1>5. ASSUME NEW v \in Byte, NEW f \in SUBSET Flags
      PROVE  Alike(H, [s EXCEPT !.reg["A"] = v, !.f = f], [t EXCEPT !.reg["A"] = v, !.f = f])
  <2> DEFINE x == [s EXCEPT !.reg["A"] = v]
             y == [t EXCEPT !.reg["A"] = v]
  <2>1. Alike(H, x, y)
    BY <1>1, AlikePuts, Zenon
  <2>2. /\ [s EXCEPT !.reg["A"] = v, !.f = f] = [x EXCEPT !.f = f]
        /\ [t EXCEPT !.reg["A"] = v, !.f = f] = [y EXCEPT !.f = f]
    OBVIOUS
  <2> HIDE DEF x, y
  <2>3. Alike(H, [x EXCEPT !.f = f], [y EXCEPT !.f = f])
    BY <2>1, AlikePuts, Zenon
  <2> QED BY <2>2, <2>3, Zenon
<1>6. ASSUME NEW p \in Pairs, NEW v \in Int
      PROVE  Alike(H, Put16(s, p, v), Put16(t, p, v))
  <2>1. W16(v) \in Word /\ W8(v) \in Byte /\ W16(v) \div 256 \in Byte
    BY Widths, Words, Zenon
  <2>2. CASE p = "SP"
    <3>1. /\ Put16(s, p, v) = [s EXCEPT !.sp = W16(v)]
          /\ Put16(t, p, v) = [t EXCEPT !.sp = W16(v)]
      BY <2>2 DEF Put16
    <3>2. Alike(H, [s EXCEPT !.sp = W16(v)], [t EXCEPT !.sp = W16(v)])
      BY <2>1, AlikePuts, Zenon
    <3> QED BY <3>1, <3>2
  <2>3. CASE p = "AF"
    <3>1. /\ Put16(s, p, v) = [s EXCEPT !.reg["A"] = W16(v) \div 256, !.f = FlagsOf(W8(v))]
          /\ Put16(t, p, v) = [t EXCEPT !.reg["A"] = W16(v) \div 256, !.f = FlagsOf(W8(v))]
      BY <2>3 DEF Put16
    <3>2. FlagsOf(W8(v)) \in SUBSET Flags
      BY DEF FlagsOf
    <3>3. Alike(H, [s EXCEPT !.reg["A"] = W16(v) \div 256, !.f = FlagsOf(W8(v))],
                   [t EXCEPT !.reg["A"] = W16(v) \div 256, !.f = FlagsOf(W8(v))])
      BY <1>5, <2>1, <3>2, Zenon
    <3> QED BY <3>1, <3>3
  <2>4. CASE p \in {"BC", "DE", "HL"}
    <3>1. /\ Put16(s, p, v) = [s EXCEPT !.reg[HighOf(p)] = W16(v) \div 256,
                                        !.reg[LowOf(p)] = W8(v)]
          /\ Put16(t, p, v) = [t EXCEPT !.reg[HighOf(p)] = W16(v) \div 256,
                                        !.reg[LowOf(p)] = W8(v)]
      BY <2>4 DEF Put16
    <3>2. HighOf(p) \in Registers /\ LowOf(p) \in Registers
      BY <2>4 DEF HighOf, LowOf, Registers
    <3>3. Alike(H, [s EXCEPT !.reg[HighOf(p)] = W16(v) \div 256, !.reg[LowOf(p)] = W8(v)],
                   [t EXCEPT !.reg[HighOf(p)] = W16(v) \div 256, !.reg[LowOf(p)] = W8(v)])
      BY <1>4, <2>1, <3>2, Zenon
    <3> QED BY <3>1, <3>3
  <2> QED BY <2>2, <2>3, <2>4 DEF Pairs
<1>7. ASSUME NEW a \in Int, NEW v \in Int
      PROVE  Alike(H, monitor_wr_mem(s, a, v), monitor_wr_mem(t, a, v))
  BY AlikeWrites, Zenon
<1>8. ASSUME NEW r \in Targets, NEW v \in Int PROVE Alike(H, Put(s, r, v), Put(t, r, v))
  <2>1. CASE r = "IND_HL"
    BY <1>0, <1>1, <1>7, <2>1, Zenon DEF Put
  <2>2. CASE r # "IND_HL"
    <3>1. r \in Registers
      BY <2>2 DEF Targets, Registers
    <3>2. W8(v) \in Byte
      BY Widths, Zenon
    <3> QED BY <2>2, <3>1, <3>2, AlikePuts, Zenon DEF Put
  <2> QED BY <2>1, <2>2, Zenon
<1>9. ASSUME NEW y \in 0..7, NEW v \in Int PROVE Alike(H, AluOn(s, y, v), AluOn(t, y, v))
  <2> DEFINE r == Accumulate(y, s.reg["A"], v, s.f)
  <2>1. r \in ResultType
    BY <1>1, AccumulateType, Zenon
  <2>2. /\ AluOn(s, y, v) = [s EXCEPT !.reg["A"] = r.value, !.f = r.f]
        /\ AluOn(t, y, v) = [t EXCEPT !.reg["A"] = r.value, !.f = r.f]
    BY <1>0, Zenon DEF AluOn
  <2> HIDE DEF r
  <2>3. r.value \in Byte /\ r.f \in SUBSET Flags
    BY <2>1 DEF ResultType
  <2> QED BY <1>5, <2>2, <2>3, Zenon
<1>10. Alike(H, Drop(s), Drop(t))
  <2>1. s.sp + 2 \in Int
    BY <1>1
  <2>2. W16(s.sp + 2) \in Word
    BY <2>1, Widths, Zenon
  <2> QED BY <1>0, <2>2, AlikePuts, Zenon DEF Drop
<1> QED BY <1>2, <1>3, <1>6, <1>7, <1>8, <1>9, <1>10, Zenon

\* A word pushed on both.
Lowered(H, s, x, y) ==
    /\ Alike(H, x, y)
    /\ x.sp < s.sp => x.sp = W16(s.sp - 2)
    /\ x.sp < s.sp /\ KeepsWord(s.sp) => Alike(H \ BelowStack(s.sp), x, y)

LEMMA AlikePush ==
    ASSUME NEW H, NEW s, NEW t, Alike(H, s, t), NEW v \in Word
    PROVE  Lowered(H, s, Push(s, v), Push(t, v))
<1> DEFINE n == W16(s.sp - 2)
           p == [s EXCEPT !.sp = n]
           q == [t EXCEPT !.sp = n]
           c == monitor_wr_mem(p, n, W8(v))
           d == monitor_wr_mem(q, n, W8(v))
           x == monitor_wr_mem(c, n + 1, v \div 256)
           y == monitor_wr_mem(d, n + 1, v \div 256)
<1>0. s \in CpuType /\ t \in CpuType /\ t.sp = s.sp /\ s.sp \in Word /\ s.sp \in Int
  <2>1. s \in CpuType /\ t \in CpuType /\ t.sp = s.sp
    BY DEF Alike
  <2>2. s.sp \in Word
    BY <2>1, Fields, Zenon
  <2>3. s.sp \in Int
    BY <2>2, Ranges
  <2> QED BY <2>1, <2>2, <2>3
<1>1. s.sp - 2 \in Int
  BY <1>0
<1>2. n \in Word /\ n \in Int /\ W8(v) \in Int /\ v \div 256 \in Int
  BY <1>1, Widths, Words, Zenon
<1>3. n + 1 \in Int
  BY <1>2
<1>4. Push(s, v) = x /\ Push(t, v) = y
  <2>1. Push(s, v) = WR_WORD(p, p.sp, v) /\ Push(t, v) = WR_WORD(q, q.sp, v)
    BY <1>0 DEF Push
  <2>2. p.sp = n /\ q.sp = n
    <3> HIDE DEF n
    <3> QED BY <1>0 DEF CpuType, CpuFields
  <2> HIDE DEF p, q, n
  <2> QED BY <2>1, <2>2 DEF WR_WORD
<1>5. Alike(H, p, q)
  BY <1>2, AlikePuts, Zenon
<1> HIDE DEF p, q
<1>6. Alike(H, c, d) /\ (CartridgeEnd <= W16(n) /\ W16(n) \notin Io => Alike(H \ {W16(n)}, c, d))
  BY <1>2, <1>5, AlikeWrites
<1> HIDE DEF c, d
<1>7. \A G : Alike(G, c, d) =>
        /\ Alike(G, x, y)
        /\ CartridgeEnd <= W16(n + 1) /\ W16(n + 1) \notin Io => Alike(G \ {W16(n + 1)}, x, y)
  BY <1>2, <1>3, AlikeWrites
<1>8. Push(s, v).sp = n
  BY <1>0, PushType, Zenon
<1> HIDE DEF x, y
<1>9. ASSUME n < s.sp, KeepsWord(s.sp) PROVE Alike(H \ BelowStack(s.sp), x, y)
  <2>1. /\ n = s.sp - 2 /\ 0 <= n /\ W16(n) = n /\ W16(n + 1) = n + 1
        /\ W16(s.sp - 1) = n + 1 /\ n + 1 < 65535
    <3>1. s.sp \in Int /\ 0 <= s.sp /\ s.sp < 65536
      BY <1>0, Ranges
    <3> QED BY <1>9, <3>1 DEF W16
  <2>2. BelowStack(s.sp) = {n + 1, n}
    BY <2>1 DEF BelowStack
  <2>3. Keeps(n) /\ Keeps(n + 1)
    BY <1>9, <2>2 DEF KeepsWord
  <2>4. n \notin Io /\ n + 1 \notin Io
    BY <1>2, <2>1, <2>3 DEF Keeps, Io
  <2>5. CartridgeEnd <= n /\ CartridgeEnd <= n + 1
    BY <2>3 DEF Keeps
  <2>6. Alike((H \ {n}) \ {n + 1}, x, y)
    BY <1>6, <1>7, <2>1, <2>4, <2>5
  <2>7. (H \ {n}) \ {n + 1} = H \ BelowStack(s.sp)
    BY <2>2
  <2> QED BY <2>6, <2>7
<1>10. Alike(H, x, y)
  BY <1>6, <1>7
<1> QED BY <1>4, <1>8, <1>9, <1>10 DEF Lowered

LEMMA AlikeTook ==
    ASSUME NEW H, NEW s, NEW t, Alike(H, s, t), NEW n \in 1..6
    PROVE  /\ Alike(H, Took(s, n), Took(t, n))
           /\ \A k \in Int : Alike(H, Took(ADVANCE_PC(s, k), n), Took(ADVANCE_PC(t, k), n))
<1>1. n \in Nat
  OBVIOUS
<1>2. \A k \in Int : Alike(H, ADVANCE_PC(s, k), ADVANCE_PC(t, k))
  BY AlikeParts, Zenon
<1> QED BY <1>1, <1>2, AlikePuts, Zenon

-----------------------------------------------------------------------------
(* The handlers, family by family, on two states alike.                     *)

LEMMA AlikeAlu ==
    ASSUME NEW H, NEW s, NEW t, Alike(H, s, t), NEW y \in 0..7
    PROVE  /\ \A r \in Registers : Alike(H, op_alu_reg(s, y, r), op_alu_reg(t, y, r))
           /\ Clear(H, HL(s)) => Alike(H, op_alu_ind_hl(s, y), op_alu_ind_hl(t, y))
           /\ Clear(H, s.pc) => Alike(H, op_alu_n8(s, y), op_alu_n8(t, y))
<1>0. s \in CpuType /\ t.reg = s.reg
  BY AlikeOperands, Zenon
<1>1. (IF y = 2 THEN 1 ELSE 2) \in 1..6 /\ 1 \in 1..6 /\ 1 \in Int
  OBVIOUS
<1>2. \A v \in Int : Alike(H, AluOn(s, y, v), AluOn(t, y, v))
  BY AlikeParts, Zenon
<1>3. ASSUME NEW r \in Registers PROVE Alike(H, op_alu_reg(s, y, r), op_alu_reg(t, y, r))
  <2>1. s.reg[r] \in Int
    BY <1>0, Fields, Words, Zenon
  <2> QED BY <1>0, <1>1, <1>2, <2>1, AlikeTook, Zenon DEF op_alu_reg
<1>4. FromMemory(y, Get(s, "IND_HL")) \in Int /\ FromMemory(y, N8(s)) \in Int
  BY <1>0, GetType, Words DEF FromMemory, Targets
<1>5. ASSUME Clear(H, HL(s)) PROVE Alike(H, op_alu_ind_hl(s, y), op_alu_ind_hl(t, y))
  <2>1. Get(t, "IND_HL") = Get(s, "IND_HL")
    BY <1>5, AlikeOperands
  <2> QED BY <1>1, <1>2, <1>4, <2>1, AlikeTook, Zenon DEF op_alu_ind_hl
<1>6. ASSUME Clear(H, s.pc) PROVE Alike(H, op_alu_n8(s, y), op_alu_n8(t, y))
  <2>1. N8(t) = N8(s)
    BY <1>6, AlikeOperands, Zenon
  <2> QED BY <1>1, <1>2, <1>4, <2>1, AlikeTook, Zenon DEF op_alu_n8
<1> QED BY <1>3, <1>5, <1>6, Zenon

\* What an operand needs.
Reaches(H, s, r) == r = "IND_HL" => Clear(H, HL(s))

LEMMA AlikeSums ==
    ASSUME NEW H, NEW s, NEW t, Alike(H, s, t)
    PROVE  /\ \A r \in Targets : Reaches(H, s, r) =>
                 /\ Alike(H, op_inc(s, r), op_inc(t, r))
                 /\ Alike(H, op_dec(s, r), op_dec(t, r))
           /\ \A p \in Pairs : /\ Alike(H, op_inc16(s, p), op_inc16(t, p))
                               /\ Alike(H, op_dec16(s, p), op_dec16(t, p))
                               /\ Alike(H, op_add_hl(s, p), op_add_hl(t, p))
<1>0. s \in CpuType /\ HL(t) = HL(s) /\ \A p : Get16(t, p) = Get16(s, p)
  BY AlikeOperands
<1>1. ASSUME NEW r \in Targets, NEW v \in Int,
             NEW c \in SUBSET Flags, NEW f \in SUBSET Flags
      PROVE  Alike(H, PutFlags(Put(s, r, v), c, f), PutFlags(Put(t, r, v), c, f))
  <2>1. Alike(H, Put(s, r, v), Put(t, r, v))
    BY AlikeParts, Zenon
  <2> QED BY <2>1, AlikeParts, Zenon
<1>2. ASSUME NEW r \in Targets, Reaches(H, s, r)
      PROVE  Alike(H, op_inc(s, r), op_inc(t, r)) /\ Alike(H, op_dec(s, r), op_dec(t, r))
  <2> DEFINE v == Get(s, r)
             f == ZeroFlag(v + 1) \cup When(IS_ADD_HALF_CARRY(v, 1), "HCARRY")
             g == {"SUB"} \cup ZeroFlag(v - 1)
                    \cup When(IS_SUB_HALF_CARRY(v, 1), "HCARRY")
             n == IF r = "IND_HL" THEN 3 ELSE 1
             c == {"SUB", "HCARRY", "ZERO"}
  <2>1. v \in Int
    BY <1>0, GetType, Words, Zenon
  <2>2. v + 1 \in Int /\ v - 1 \in Int
    BY <2>1
  <2>3. f \in SUBSET Flags /\ g \in SUBSET Flags /\ c \in SUBSET Flags
    BY DEF ZeroFlag, When, Flags
  <2>4. Get(t, r) = v
    BY <1>2, AlikeOperands DEF Reaches
  <2>5. /\ op_inc(s, r) = Took(PutFlags(Put(s, r, v + 1), c, f), n)
        /\ op_inc(t, r) = Took(PutFlags(Put(t, r, v + 1), c, f), n)
        /\ op_dec(s, r) = Took(PutFlags(Put(s, r, v - 1), c, g), n)
        /\ op_dec(t, r) = Took(PutFlags(Put(t, r, v - 1), c, g), n)
    BY <2>4, Zenon DEF op_inc, op_dec
  <2>6. n \in 1..6
    BY Counts, Zenon
  <2> HIDE DEF v, f, g, n, c
  <2>7. /\ Alike(H, PutFlags(Put(s, r, v + 1), c, f), PutFlags(Put(t, r, v + 1), c, f))
        /\ Alike(H, PutFlags(Put(s, r, v - 1), c, g), PutFlags(Put(t, r, v - 1), c, g))
    BY <1>1, <2>2, <2>3, Zenon
  <2>8. /\ Alike(H, Took(PutFlags(Put(s, r, v + 1), c, f), n),
                    Took(PutFlags(Put(t, r, v + 1), c, f), n))
        /\ Alike(H, Took(PutFlags(Put(s, r, v - 1), c, g), n),
                    Took(PutFlags(Put(t, r, v - 1), c, g), n))
    BY <2>6, <2>7, AlikeTook, Zenon
  <2> QED BY <2>5, <2>8, Zenon
<1>3. ASSUME NEW p \in Pairs
      PROVE  Alike(H, op_inc16(s, p), op_inc16(t, p)) /\ Alike(H, op_dec16(s, p), op_dec16(t, p))
  <2>1. Get16(s, p) \in Int
    BY <1>0, GetType, Words, Zenon
  <2>2. Get16(s, p) + 1 \in Int /\ Get16(s, p) - 1 \in Int
    BY <2>1
  <2>3. /\ Alike(H, Put16(s, p, Get16(s, p) + 1), Put16(t, p, Get16(s, p) + 1))
        /\ Alike(H, Put16(s, p, Get16(s, p) - 1), Put16(t, p, Get16(s, p) - 1))
    BY <2>2, AlikeParts, Zenon
  <2> QED BY <1>0, <2>3, AlikeTook, Counts, Zenon DEF op_inc16, op_dec16
<1>4. ASSUME NEW p \in Pairs PROVE Alike(H, op_add_hl(s, p), op_add_hl(t, p))
  <2> DEFINE v == Get16(s, p)
             f == When(IS_ADD16_CARRY(HL(s), v), "CARRY")
                    \cup When(IS_ADD16_HALF_CARRY(HL(s), v), "HCARRY")
             c == {"CARRY", "HCARRY", "SUB"}
             w == HL(s) + v
  <2>1. HL(s) \in Int /\ v \in Int
    BY <1>0, GetType, Words, Zenon
  <2>2. w \in Int /\ "HL" \in Pairs
    BY <2>1 DEF Pairs
  <2>3. f \in SUBSET Flags /\ c \in SUBSET Flags
    BY DEF When, Flags
  <2>4. /\ op_add_hl(s, p) = Took(PutFlags(Put16(s, "HL", w), c, f), 2)
        /\ op_add_hl(t, p) = Took(PutFlags(Put16(t, "HL", w), c, f), 2)
    BY <1>0, Zenon DEF op_add_hl
  <2> HIDE DEF v, f, c, w
  <2>5. Alike(H, Put16(s, "HL", w), Put16(t, "HL", w))
    BY <2>2, AlikeParts, Zenon
  <2>6. Alike(H, PutFlags(Put16(s, "HL", w), c, f), PutFlags(Put16(t, "HL", w), c, f))
    BY <2>3, <2>5, AlikeParts, Zenon
  <2>7. Alike(H, Took(PutFlags(Put16(s, "HL", w), c, f), 2),
                 Took(PutFlags(Put16(t, "HL", w), c, f), 2))
    BY <2>6, AlikeTook, Counts, Zenon
  <2> QED BY <2>4, <2>7, Zenon
<1> QED BY <1>2, <1>3, <1>4, Zenon

LEMMA AlikeOffsets ==
    ASSUME NEW H, NEW s, NEW t, Alike(H, s, t), Clear(H, s.pc)
    PROVE  /\ Alike(H, op_add_sp_e8(s), op_add_sp_e8(t))
           /\ Alike(H, op_ld_hl_sp_e8(s), op_ld_hl_sp_e8(t))
<1> DEFINE n == SpPlus(s)
           f == SpFlags(s)
<1>0. s \in CpuType /\ t.sp = s.sp /\ N8(t) = N8(s)
  BY AlikeOperands, Zenon
<1>1. n \in Word /\ n \in Int
  <2>0. s.sp \in Int /\ Int8(N8(s)) \in Int
    BY <1>0, GetType, Fields, Words, Zenon
  <2>1. s.sp + Int8(N8(s)) \in Int
    BY <2>0
  <2> QED BY <2>1, Widths, Words DEF SpPlus
<1>2. f \in SUBSET Flags
  BY DEF SpFlags, When, Flags
<1>3. SpPlus(t) = n /\ SpFlags(t) = f
  BY <1>0, Zenon DEF SpPlus, SpFlags
<1>4. /\ op_add_sp_e8(s) = Took(ADVANCE_PC([s EXCEPT !.sp = n, !.f = f], 1), 4)
      /\ op_add_sp_e8(t) = Took(ADVANCE_PC([t EXCEPT !.sp = n, !.f = f], 1), 4)
      /\ op_ld_hl_sp_e8(s) = Took(ADVANCE_PC(Put16([s EXCEPT !.f = f], "HL", n), 1), 3)
      /\ op_ld_hl_sp_e8(t) = Took(ADVANCE_PC(Put16([t EXCEPT !.f = f], "HL", n), 1), 3)
  BY <1>3, Zenon DEF op_add_sp_e8, op_ld_hl_sp_e8
<1> HIDE DEF n, f
<1> DEFINE p == [s EXCEPT !.sp = n]
           q == [t EXCEPT !.sp = n]
           c == [p EXCEPT !.f = f]
           d == [q EXCEPT !.f = f]
           x == [s EXCEPT !.f = f]
           y == [t EXCEPT !.f = f]
<1>5. Alike(H, p, q) /\ Alike(H, x, y)
  BY <1>1, <1>2, AlikePuts, Zenon
<1>6. /\ [s EXCEPT !.sp = n, !.f = f] = c
      /\ [t EXCEPT !.sp = n, !.f = f] = d
  OBVIOUS
<1> HIDE DEF p, q, x, y
<1>7. Alike(H, c, d)
  BY <1>2, <1>5, AlikePuts, Zenon
<1> HIDE DEF c, d
<1>8. "HL" \in Pairs
  BY DEF Pairs
<1>9. Alike(H, Put16(x, "HL", n), Put16(y, "HL", n))
  BY <1>1, <1>5, <1>8, AlikeParts, Zenon
<1>10. 1 \in Int
  OBVIOUS
<1>11. /\ Alike(H, Took(ADVANCE_PC(c, 1), 4), Took(ADVANCE_PC(d, 1), 4))
       /\ Alike(H, Took(ADVANCE_PC(Put16(x, "HL", n), 1), 3),
                   Took(ADVANCE_PC(Put16(y, "HL", n), 1), 3))
  BY <1>7, <1>9, <1>10, AlikeTook, Counts, Zenon
<1> QED BY <1>4, <1>6, <1>11 DEF x, y

LEMMA AlikeAccumulator ==
    ASSUME NEW H, NEW s, NEW t, Alike(H, s, t)
    PROVE  /\ Alike(H, op_daa(s), op_daa(t)) /\ Alike(H, op_cpl(s), op_cpl(t))
           /\ Alike(H, op_scf(s), op_scf(t)) /\ Alike(H, op_ccf(s), op_ccf(t))
<1>0. s \in CpuType /\ t.reg = s.reg /\ t.f = s.f
  BY AlikeOperands
<1>1. /\ "A" \in Registers /\ "A" \in Targets /\ s.reg["A"] \in Byte /\ s.reg["A"] \in Int
      /\ s.f \in SUBSET Flags
  BY <1>0, Fields, Words DEF Registers, Targets
<1>2. Alike(H, op_daa(s), op_daa(t))
  <2> DEFINE sum == DaaSum(s.reg["A"], s.f)
             g == (s.f \ {"HCARRY", "ZERO"}) \cup ZeroFlag(sum)
                    \cup When(Bit(sum, 8) = 1, "CARRY")
             v == W8(sum)
  <2>1. v \in Byte
    <3>1. sum \in Int
      <4> DEFINE a == s.reg["A"]
      <4> SUFFICES a \in Int => DaaSum(a, s.f) \in Int
        BY <1>1
      <4> HIDE DEF a
      <4> QED BY Widths DEF DaaSum, W8, W16
    <3> QED BY <3>1, Widths, Zenon
  <2>2. g \in SUBSET Flags
    BY <1>1 DEF ZeroFlag, When, Flags
  <2>3. Daa(s.reg["A"], s.f).value = v /\ Daa(s.reg["A"], s.f).f = g
    BY DEF Daa, Result
  <2>4. /\ op_daa(s) = Took([s EXCEPT !.reg["A"] = v, !.f = g], 1)
        /\ op_daa(t) = Took([t EXCEPT !.reg["A"] = v, !.f = g], 1)
    BY <1>0, <2>3, Zenon DEF op_daa
  <2> HIDE DEF sum, g, v
  <2> DEFINE x == [s EXCEPT !.reg["A"] = v]
             y == [t EXCEPT !.reg["A"] = v]
  <2>5. Alike(H, x, y)
    BY <1>1, <2>1, AlikePuts, Zenon
  <2>6. /\ [s EXCEPT !.reg["A"] = v, !.f = g] = [x EXCEPT !.f = g]
        /\ [t EXCEPT !.reg["A"] = v, !.f = g] = [y EXCEPT !.f = g]
    OBVIOUS
  <2> HIDE DEF x, y
  <2>7. Alike(H, [x EXCEPT !.f = g], [y EXCEPT !.f = g])
    BY <2>2, <2>5, AlikePuts, Zenon
  <2>8. Alike(H, Took([x EXCEPT !.f = g], 1), Took([y EXCEPT !.f = g], 1))
    BY <2>7, AlikeTook, Counts, Zenon
  <2> QED BY <2>4, <2>6, <2>8, Zenon
<1>3. Alike(H, op_cpl(s), op_cpl(t))
  <2> DEFINE v == 255 - s.reg["A"]
  <2>1. v \in Int /\ {} \in SUBSET Flags /\ {"SUB", "HCARRY"} \in SUBSET Flags
    BY <1>1 DEF Flags
  <2>2. /\ op_cpl(s) = Took(PutFlags(Put(s, "A", v), {}, {"SUB", "HCARRY"}), 1)
        /\ op_cpl(t) = Took(PutFlags(Put(t, "A", v), {}, {"SUB", "HCARRY"}), 1)
    BY <1>0, Zenon DEF op_cpl
  <2> HIDE DEF v
  <2>3. Alike(H, Put(s, "A", v), Put(t, "A", v))
    BY <1>1, <2>1, AlikeParts, Zenon
  <2>4. Alike(H, PutFlags(Put(s, "A", v), {}, {"SUB", "HCARRY"}),
                 PutFlags(Put(t, "A", v), {}, {"SUB", "HCARRY"}))
    BY <2>1, <2>3, AlikeParts, Zenon
  <2> QED BY <2>2, <2>4, AlikeTook, Counts, Zenon
<1>4. Alike(H, op_scf(s), op_scf(t)) /\ Alike(H, op_ccf(s), op_ccf(t))
  <2>1. /\ {"CARRY"} \in SUBSET Flags /\ {"CARRY"} \ s.f \in SUBSET Flags
        /\ {"SUB", "HCARRY"} \in SUBSET Flags /\ {"SUB", "HCARRY", "CARRY"} \in SUBSET Flags
    BY DEF Flags
  <2>2. /\ Alike(H, PutFlags(s, {"SUB", "HCARRY"}, {"CARRY"}),
                    PutFlags(t, {"SUB", "HCARRY"}, {"CARRY"}))
        /\ Alike(H, PutFlags(s, {"SUB", "HCARRY", "CARRY"}, {"CARRY"} \ s.f),
                    PutFlags(t, {"SUB", "HCARRY", "CARRY"}, {"CARRY"} \ s.f))
    BY <2>1, AlikeParts, Zenon
  <2> QED BY <1>0, <2>2, AlikeTook, Counts, Zenon DEF op_scf, op_ccf
<1> QED BY <1>2, <1>3, <1>4, Zenon

LEMMA TurnType ==
    ASSUME NEW y \in 0..7, NEW v \in Int, NEW f
    PROVE  Turn(y, v, f)[1] \in Int
<1>0. CarryOf(f) \in Int
  BY DEF CarryOf
<1>1. /\ DO_RLC(v)[1] \in Int /\ DO_RRC(v)[1] \in Int
      /\ DO_RL(v, f)[1] \in Int /\ DO_RR(v, f)[1] \in Int
  BY <1>0 DEF DO_RLC, DO_RRC, DO_RL, DO_RR, W8, Top, Low
<1>2. /\ DO_SLA(v)[1] \in Int /\ DO_SRA(v)[1] \in Int
      /\ DO_SWP(v)[1] \in Int /\ DO_SRL(v)[1] \in Int
  BY DEF DO_SLA, DO_SRA, DO_SWP, DO_SRL, W8, Top, Low
<1>3. y = 0 \/ y = 1 \/ y = 2 \/ y = 3 \/ y = 4 \/ y = 5 \/ y = 6 \/ y = 7
  OBVIOUS
<1> QED BY <1>1, <1>2, <1>3 DEF Turn

LEMMA AlikeTurns ==
    ASSUME NEW H, NEW s, NEW t, Alike(H, s, t), NEW y \in 0..7
    PROVE  /\ \A r \in Targets : Reaches(H, s, r) =>
                 /\ Alike(H, op_turn(s, y, r), op_turn(t, y, r))
                 /\ Alike(H, op_bit(s, y, r), op_bit(t, y, r))
                 /\ Alike(H, op_rst(s, y, r), op_rst(t, y, r))
                 /\ Alike(H, op_set(s, y, r), op_set(t, y, r))
           /\ Alike(H, op_turn_a(s, y), op_turn_a(t, y))
<1>0. s \in CpuType /\ t.f = s.f
  BY AlikeOperands
<1>1. ASSUME NEW r \in Targets, Reaches(H, s, r)
      PROVE  Get(t, r) = Get(s, r) /\ Get(s, r) \in Int
  <2>1. Get(t, r) = Get(s, r)
    BY <1>1, AlikeOperands DEF Reaches
  <2> QED BY <1>0, <2>1, GetType, Words, Zenon
<1>2. ASSUME NEW r \in Targets, Reaches(H, s, r)
      PROVE  Alike(H, op_turn(s, y, r), op_turn(t, y, r))
  <2> DEFINE v == Get(s, r)
             o == Turn(y, v, s.f)
             f == ZeroFlag(o[1]) \cup When(o[2] = 1, "CARRY")
             n == IF r = "IND_HL" THEN 4 ELSE 2
             a == Put(s, r, o[1])
             b == Put(t, r, o[1])
  <2>1. o[1] \in Int
    BY <1>1, <1>2, TurnType, Zenon
  <2>2. f \in SUBSET Flags
    BY DEF ZeroFlag, When, Flags
  <2>3. n \in 1..6
    BY Counts, Zenon
  <2>4. /\ op_turn(s, y, r) = Took([a EXCEPT !.f = f], n)
        /\ op_turn(t, y, r) = Took([b EXCEPT !.f = f], n)
    BY <1>0, <1>1, <1>2, Zenon DEF op_turn
  <2> HIDE DEF v, o, f, n
  <2>5. Alike(H, a, b)
    BY <2>1, AlikeParts, Zenon
  <2> HIDE DEF a, b
  <2>6. Alike(H, [a EXCEPT !.f = f], [b EXCEPT !.f = f])
    BY <2>2, <2>5, AlikePuts, Zenon
  <2>7. Alike(H, Took([a EXCEPT !.f = f], n), Took([b EXCEPT !.f = f], n))
    BY <2>3, <2>6, AlikeTook, Zenon
  <2> QED BY <2>4, <2>7
<1>3. ASSUME NEW r \in Targets, Reaches(H, s, r)
      PROVE  Alike(H, op_bit(s, y, r), op_bit(t, y, r))
  <2> DEFINE f == {"HCARRY"} \cup When(y \notin Bits(Get(s, r)), "ZERO")
             n == IF r = "IND_HL" THEN 3 ELSE 2
  <2>1. f \in SUBSET Flags /\ {"ZERO", "SUB"} \in SUBSET Flags
    BY DEF When, Flags
  <2>2. n \in 1..6
    BY Counts, Zenon
  <2>3. /\ op_bit(s, y, r) = Took(PutFlags(s, {"ZERO", "SUB"}, f), n)
        /\ op_bit(t, y, r) = Took(PutFlags(t, {"ZERO", "SUB"}, f), n)
    BY <1>1, <1>3, Zenon DEF op_bit
  <2> HIDE DEF f, n
  <2>4. Alike(H, PutFlags(s, {"ZERO", "SUB"}, f), PutFlags(t, {"ZERO", "SUB"}, f))
    BY <2>1, AlikeParts, Zenon
  <2> QED BY <2>2, <2>3, <2>4, AlikeTook, Zenon
<1>4. ASSUME NEW r \in Targets, Reaches(H, s, r)
      PROVE  /\ Alike(H, op_rst(s, y, r), op_rst(t, y, r))
             /\ Alike(H, op_set(s, y, r), op_set(t, y, r))
  <2> DEFINE v == OfBits(Bits(Get(s, r)) \ {y})
             w == OfBits(Bits(Get(s, r)) \cup {y})
             n == IF r = "IND_HL" THEN 4 ELSE 2
  <2>1. v \in Int /\ w \in Int
    BY OfBitsType, Words, Zenon
  <2>2. n \in 1..6
    BY Counts, Zenon
  <2>3. /\ op_rst(s, y, r) = Took(Put(s, r, v), n) /\ op_rst(t, y, r) = Took(Put(t, r, v), n)
        /\ op_set(s, y, r) = Took(Put(s, r, w), n) /\ op_set(t, y, r) = Took(Put(t, r, w), n)
    BY <1>1, <1>4, Zenon DEF op_rst, op_set
  <2> HIDE DEF v, w, n
  <2>4. Alike(H, Put(s, r, v), Put(t, r, v)) /\ Alike(H, Put(s, r, w), Put(t, r, w))
    BY <2>1, AlikeParts, Zenon
  <2> QED BY <2>2, <2>3, <2>4, AlikeTook, Zenon
<1>5. Alike(H, op_turn_a(s, y), op_turn_a(t, y))
  <2> DEFINE a == op_turn(s, y, "A")
             b == op_turn(t, y, "A")
  <2>1. "A" \in Targets /\ Reaches(H, s, "A")
    BY DEF Targets, Reaches
  <2>2. Alike(H, a, b)
    BY <1>2, <2>1, Zenon
  <2>3. op_turn_a(s, y) = Took([a EXCEPT !.f = @ \ {"ZERO"}], 1)
        /\ op_turn_a(t, y) = Took([b EXCEPT !.f = @ \ {"ZERO"}], 1)
    BY DEF op_turn_a
  <2> HIDE DEF a, b
  <2>4. a \in CpuType /\ b.f = a.f
    BY <2>2, AlikeOperands
  <2>5. a.f \ {"ZERO"} \in SUBSET Flags
    BY <2>4, Fields
  <2>6. Alike(H, [a EXCEPT !.f = a.f \ {"ZERO"}], [b EXCEPT !.f = a.f \ {"ZERO"}])
    BY <2>2, <2>5, AlikePuts, Zenon
  <2>7. Alike(H, Took([a EXCEPT !.f = a.f \ {"ZERO"}], 1), Took([b EXCEPT !.f = a.f \ {"ZERO"}], 1))
    BY <2>6, AlikeTook, Counts, Zenon
  <2> QED BY <2>3, <2>4, <2>7
<1> QED BY <1>2, <1>3, <1>4, <1>5, Zenon

LEMMA AlikeLoads ==
    ASSUME NEW H, NEW s, NEW t, Alike(H, s, t)
    PROVE  /\ \A d \in Targets, r \in Registers :
                 Alike(H, op_ld_reg_reg(s, d, r), op_ld_reg_reg(t, d, r))
           /\ \A d \in Registers : Clear(H, HL(s)) =>
                 Alike(H, op_ld_reg_ind_hl(s, d), op_ld_reg_ind_hl(t, d))
           /\ \A r \in Registers : Alike(H, op_ld_ind_hl_reg(s, r), op_ld_ind_hl_reg(t, r))
           /\ \A d \in Targets : Clear(H, s.pc) => Alike(H, op_ld_n8(s, d), op_ld_n8(t, d))
           /\ \A p \in Pairs : Clear(H, s.pc) /\ Clear(H, s.pc + 1) =>
                 Alike(H, op_ld_n16(s, p), op_ld_n16(t, p))
           /\ Alike(H, op_ld_sp_hl(s), op_ld_sp_hl(t))
<1>0. s \in CpuType /\ t.reg = s.reg /\ HL(t) = HL(s)
  BY AlikeOperands
<1>1. "IND_HL" \in Targets /\ Registers \subseteq Targets
  BY DEF Targets, Registers
<1>2. \A d \in Registers : s.reg[d] \in Int
  BY <1>0, Fields, Words, Zenon
<1>3. Get(s, "IND_HL") \in Int /\ N8(s) \in Int /\ N16(s) \in Int /\ HL(s) \in Word
  BY <1>0, <1>1, GetType, Words, Zenon
<1>4. \A r \in Targets, v \in Int : Alike(H, Put(s, r, v), Put(t, r, v))
  BY AlikeParts, Zenon
<1>5. ASSUME NEW d \in Targets, NEW r \in Registers
      PROVE  Alike(H, op_ld_reg_reg(s, d, r), op_ld_reg_reg(t, d, r))
  BY <1>0, <1>2, <1>4, AlikeTook, Counts, Zenon DEF op_ld_reg_reg
<1>6. ASSUME NEW d \in Registers, Clear(H, HL(s))
      PROVE  Alike(H, op_ld_reg_ind_hl(s, d), op_ld_reg_ind_hl(t, d))
  <2>1. Get(t, "IND_HL") = Get(s, "IND_HL")
    BY <1>6, AlikeOperands
  <2>2. (IF d \in {"A", "B"} THEN 2 ELSE 1) \in 1..6
    OBVIOUS
  <2>3. Alike(H, Put(s, d, Get(s, "IND_HL")), Put(t, d, Get(s, "IND_HL")))
    BY <1>1, <1>3, <1>4, Zenon
  <2> QED BY <2>1, <2>2, <2>3, AlikeTook, Zenon DEF op_ld_reg_ind_hl
<1>7. ASSUME NEW r \in Registers
      PROVE  Alike(H, op_ld_ind_hl_reg(s, r), op_ld_ind_hl_reg(t, r))
  BY <1>0, <1>1, <1>2, <1>4, AlikeTook, Counts, Zenon DEF op_ld_ind_hl_reg
<1>8. ASSUME NEW d \in Targets, Clear(H, s.pc) PROVE Alike(H, op_ld_n8(s, d), op_ld_n8(t, d))
  <2>1. N8(t) = N8(s)
    BY <1>8, AlikeOperands
  <2>2. (IF d = "IND_HL" THEN 3 ELSE 2) \in 1..6 /\ 1 \in Int
    OBVIOUS
  <2>3. Alike(H, Put(s, d, N8(s)), Put(t, d, N8(s)))
    BY <1>3, <1>4, Zenon
  <2> QED BY <2>1, <2>2, <2>3, AlikeTook, Zenon DEF op_ld_n8
<1>9. ASSUME NEW p \in Pairs, Clear(H, s.pc), Clear(H, s.pc + 1)
      PROVE  Alike(H, op_ld_n16(s, p), op_ld_n16(t, p))
  <2>1. N16(t) = N16(s)
    BY <1>9, AlikeOperands
  <2>2. 3 \in 1..6 /\ 2 \in Int
    OBVIOUS
  <2>3. Alike(H, Put16(s, p, N16(s)), Put16(t, p, N16(s)))
    BY <1>3, AlikeParts, Zenon
  <2> QED BY <2>1, <2>2, <2>3, AlikeTook, Zenon DEF op_ld_n16
<1>10. Alike(H, op_ld_sp_hl(s), op_ld_sp_hl(t))
  <2>1. Alike(H, [s EXCEPT !.sp = HL(s)], [t EXCEPT !.sp = HL(s)])
    BY <1>3, AlikePuts, Zenon
  <2>2. Alike(H, Took([s EXCEPT !.sp = HL(s)], 1), Took([t EXCEPT !.sp = HL(s)], 1))
    BY <2>1, AlikeTook, Counts, Zenon
  <2> QED BY <1>0, <2>2 DEF op_ld_sp_hl
<1> QED BY <1>5, <1>6, <1>7, <1>8, <1>9, <1>10, Zenon

LEMMA AlikeIndirect ==
    ASSUME NEW H, NEW s, NEW t, Alike(H, s, t)
    PROVE  \A a \in Word :
              /\ Alike(H, op_ld_ind_a(s, a), op_ld_ind_a(t, a))
              /\ Clear(H, a) => Alike(H, op_ld_a_ind(s, a), op_ld_a_ind(t, a))
<1>0. s \in CpuType /\ t.reg = s.reg
  BY AlikeOperands
<1>1. "A" \in Targets /\ "A" \in Registers
  BY DEF Targets, Registers
<1>2. s.reg["A"] \in Int
  BY <1>0, <1>1, Fields, Words, Zenon
<1> SUFFICES ASSUME NEW a \in Word
             PROVE  /\ Alike(H, op_ld_ind_a(s, a), op_ld_ind_a(t, a))
                    /\ Clear(H, a) => Alike(H, op_ld_a_ind(s, a), op_ld_a_ind(t, a))
  OBVIOUS
<1>3. a \in Int
  BY Words
<1>4. Alike(H, monitor_wr_mem(s, a, s.reg["A"]), monitor_wr_mem(t, a, s.reg["A"]))
  BY <1>2, <1>3, AlikeWrites, Zenon
<1>5. Alike(H, op_ld_ind_a(s, a), op_ld_ind_a(t, a))
  BY <1>0, <1>4, AlikeTook, Counts, Zenon DEF op_ld_ind_a
<1>6. ASSUME Clear(H, a) PROVE Alike(H, op_ld_a_ind(s, a), op_ld_a_ind(t, a))
  <2>1. monitor_rd_mem(t, a) = monitor_rd_mem(s, a)
    BY <1>3, <1>6, AlikeReads, Zenon
  <2>2. monitor_rd_mem(s, a) \in Int
    BY <1>0, <1>3, ReadType, Words, Zenon
  <2>3. Alike(H, Put(s, "A", monitor_rd_mem(s, a)), Put(t, "A", monitor_rd_mem(s, a)))
    BY <1>1, <2>2, AlikeParts, Zenon
  <2> QED BY <2>1, <2>3, AlikeTook, Counts, Zenon DEF op_ld_a_ind
<1> QED BY <1>5, <1>6, Zenon

\* The moves whose address is in the code.
LEMMA AlikeAddressed ==
    ASSUME NEW H, NEW s, NEW t, Alike(H, s, t)
    PROVE  /\ Clear(H, s.pc) /\ Clear(H, s.pc + 1) =>
                 /\ Alike(H, op_ld_ind_a16_sp(s), op_ld_ind_a16_sp(t))
                 /\ Alike(H, op_ld_ind_a16_a(s), op_ld_ind_a16_a(t))
                 /\ Clear(H, N16(s)) => Alike(H, op_ld_a_ind_a16(s), op_ld_a_ind_a16(t))
           /\ Clear(H, s.pc) =>
                 /\ Alike(H, op_ldh_ind_a8_a(s), op_ldh_ind_a8_a(t))
                 /\ Clear(H, HighPage(N8(s))) =>
                       Alike(H, op_ldh_a_ind_a8(s), op_ldh_a_ind_a8(t))
           /\ Alike(H, op_ldh_ind_c_a(s), op_ldh_ind_c_a(t))
           /\ Clear(H, HighPage(s.reg["C"])) => Alike(H, op_ldh_a_ind_c(s), op_ldh_a_ind_c(t))
<1>0. s \in CpuType /\ t.reg = s.reg /\ t.sp = s.sp
  BY AlikeOperands
<1>1. /\ N16(s) \in Word /\ HighPage(N8(s)) \in Word /\ HighPage(s.reg["C"]) \in Word
      /\ 1 \in Int /\ 2 \in Int
  <2>1. \A b \in Byte : HighPage(b) \in Word
    BY Ranges DEF HighPage
  <2>2. "C" \in Registers
    BY DEF Registers
  <2> QED BY <1>0, <2>1, <2>2, GetType, Fields
<1>2. ASSUME Clear(H, s.pc), Clear(H, s.pc + 1)
      PROVE  /\ Alike(H, op_ld_ind_a16_sp(s), op_ld_ind_a16_sp(t))
             /\ Alike(H, op_ld_ind_a16_a(s), op_ld_ind_a16_a(t))
             /\ Clear(H, N16(s)) => Alike(H, op_ld_a_ind_a16(s), op_ld_a_ind_a16(t))
  <2>1. N16(t) = N16(s)
    BY <1>2, AlikeOperands
  <2>2. Alike(H, op_ld_ind_a16_sp(s), op_ld_ind_a16_sp(t))
    <3> DEFINE a == N16(s)
               v == W8(s.sp)
               w == s.sp \div 256
               c == monitor_wr_mem(s, a, v)
               d == monitor_wr_mem(t, a, v)
    <3>1. a \in Int /\ v \in Int /\ w \in Int
      BY <1>0, <1>1, Fields, Widths, Words, Zenon
    <3>2. a + 1 \in Int
      BY <3>1
    <3>3. /\ op_ld_ind_a16_sp(s) = Took(ADVANCE_PC(monitor_wr_mem(c, a + 1, w), 2), 5)
          /\ op_ld_ind_a16_sp(t) = Took(ADVANCE_PC(monitor_wr_mem(d, a + 1, w), 2), 5)
      BY <1>0, <2>1, Zenon DEF op_ld_ind_a16_sp, WR_WORD
    <3> HIDE DEF a, v, w
    <3>4. Alike(H, c, d)
      BY <3>1, AlikeParts, Zenon
    <3> HIDE DEF c, d
    <3>5. Alike(H, monitor_wr_mem(c, a + 1, w), monitor_wr_mem(d, a + 1, w))
      BY <3>1, <3>2, <3>4, AlikeParts, Zenon
    <3> QED BY <1>1, <3>3, <3>5, AlikeTook, Counts, Zenon
  <2>3. /\ Alike(H, op_ld_ind_a(s, N16(s)), op_ld_ind_a(t, N16(s)))
        /\ Clear(H, N16(s)) => Alike(H, op_ld_a_ind(s, N16(s)), op_ld_a_ind(t, N16(s)))
    BY <1>1, AlikeIndirect, Zenon
  <2>4. /\ Alike(H, op_ld_ind_a16_a(s), op_ld_ind_a16_a(t))
        /\ Clear(H, N16(s)) => Alike(H, op_ld_a_ind_a16(s), op_ld_a_ind_a16(t))
    BY <1>1, <2>1, <2>3, AlikeTook, Counts, Zenon DEF op_ld_ind_a16_a, op_ld_a_ind_a16
  <2> QED BY <2>2, <2>4, Zenon
<1>3. ASSUME Clear(H, s.pc)
      PROVE  /\ Alike(H, op_ldh_ind_a8_a(s), op_ldh_ind_a8_a(t))
             /\ Clear(H, HighPage(N8(s))) => Alike(H, op_ldh_a_ind_a8(s), op_ldh_a_ind_a8(t))
  <2> DEFINE a == HighPage(N8(s))
  <2>1. HighPage(N8(t)) = a
    BY <1>3, AlikeOperands
  <2>2. /\ Alike(H, op_ld_ind_a(s, a), op_ld_ind_a(t, a))
        /\ Clear(H, a) => Alike(H, op_ld_a_ind(s, a), op_ld_a_ind(t, a))
    BY <1>1, AlikeIndirect, Zenon
  <2> QED BY <1>1, <2>1, <2>2, AlikeTook, Counts, Zenon DEF op_ldh_ind_a8_a, op_ldh_a_ind_a8
<1>4. /\ Alike(H, op_ldh_ind_c_a(s), op_ldh_ind_c_a(t))
      /\ Clear(H, HighPage(s.reg["C"])) => Alike(H, op_ldh_a_ind_c(s), op_ldh_a_ind_c(t))
  BY <1>0, <1>1, AlikeIndirect, Zenon DEF op_ldh_ind_c_a, op_ldh_a_ind_c
<1> QED BY <1>2, <1>3, <1>4, Zenon

LEMMA AlikeThenHL ==
    ASSUME NEW H, NEW s, NEW t, Alike(H, s, t), NEW d \in Int
    PROVE  Alike(H, ThenHL(s, d), ThenHL(t, d))
<1>0. s \in CpuType /\ HL(t) = HL(s)
  BY AlikeOperands
<1>1. HL(s) \in Int
  BY <1>0, GetType, Words, Zenon
<1>2. HL(s) + d \in Int /\ "HL" \in Pairs
  BY <1>1 DEF Pairs
<1>3. Alike(H, Put16(s, "HL", HL(s) + d), Put16(t, "HL", HL(s) + d))
  BY <1>2, AlikeParts, Zenon
<1> QED BY <1>0, <1>3, Zenon DEF ThenHL

LEMMA LoweredPuts ==
    ASSUME NEW H, NEW s, NEW x, NEW y, Lowered(H, s, x, y)
    PROVE  /\ \A n \in 1..6 : Lowered(H, s, Took(x, n), Took(y, n))
           /\ \A a \in Word : Lowered(H, s, [x EXCEPT !.pc = a], [y EXCEPT !.pc = a])
<1>0. Alike(H, x, y) /\ x \in CpuType
  BY DEF Lowered, Alike
<1>1. ASSUME NEW n \in 1..6 PROVE Lowered(H, s, Took(x, n), Took(y, n))
  <2>1. Took(x, n).sp = x.sp
    BY <1>0 DEF Took, CpuType, CpuFields
  <2>2. \A G : Alike(G, x, y) => Alike(G, Took(x, n), Took(y, n))
    BY AlikeTook, Zenon
  <2> QED BY <1>0, <2>1, <2>2, Zenon DEF Lowered
<1>2. ASSUME NEW a \in Word PROVE Lowered(H, s, [x EXCEPT !.pc = a], [y EXCEPT !.pc = a])
  <2> DEFINE c == [x EXCEPT !.pc = a]
             d == [y EXCEPT !.pc = a]
  <2>1. c.sp = x.sp
    BY <1>0 DEF CpuType, CpuFields
  <2>2. \A G : Alike(G, x, y) => Alike(G, c, d)
    BY AlikePuts, Zenon
  <2> HIDE DEF c, d
  <2>3. Lowered(H, s, c, d)
    BY <1>0, <2>1, <2>2, Zenon DEF Lowered
  <2> QED BY <2>3 DEF c, d
<1> QED BY <1>1, <1>2, Zenon

LEMMA AlikeStack ==
    ASSUME NEW H, NEW s, NEW t, Alike(H, s, t), NEW p \in Pairs
    PROVE  /\ Lowered(H, s, op_push(s, p), op_push(t, p))
           /\ Clear(H, s.sp) /\ Clear(H, s.sp + 1) => Alike(H, op_pop(s, p), op_pop(t, p))
<1>0. s \in CpuType /\ Get16(t, p) = Get16(s, p)
  BY AlikeOperands
<1>1. Get16(s, p) \in Word /\ Pushed(s) \in Int
  BY <1>0, GetType, Words, Zenon
<1>2. Lowered(H, s, Push(s, Get16(s, p)), Push(t, Get16(s, p)))
  BY <1>1, AlikePush, Zenon
<1>3. Lowered(H, s, op_push(s, p), op_push(t, p))
  BY <1>0, <1>2, LoweredPuts, Counts, Zenon DEF op_push
<1>4. ASSUME Clear(H, s.sp), Clear(H, s.sp + 1) PROVE Alike(H, op_pop(s, p), op_pop(t, p))
  <2>1. Pushed(t) = Pushed(s)
    BY <1>4, AlikeOperands
  <2>2. Alike(H, Put16(s, p, Pushed(s)), Put16(t, p, Pushed(s)))
    BY <1>1, AlikeParts, Zenon
  <2>3. Alike(H, Drop(Put16(s, p, Pushed(s))), Drop(Put16(t, p, Pushed(s))))
    BY <2>2, AlikeParts, Zenon
  <2> QED BY <2>1, <2>3, AlikeTook, Counts, Zenon DEF op_pop
<1> QED BY <1>3, <1>4, Zenon

LEMMA AlikeJumps ==
    ASSUME NEW H, NEW s, NEW t, Alike(H, s, t), Clear(H, s.pc), Clear(H, s.pc + 1)
    PROVE  /\ Alike(H, DO_JMP(s), DO_JMP(t)) /\ Alike(H, DO_JR(s), DO_JR(t))
           /\ \A c : /\ Alike(H, op_jmp_cond(s, c), op_jmp_cond(t, c))
                     /\ Alike(H, op_jr_cond(s, c), op_jr_cond(t, c))
<1>0. s \in CpuType /\ N8(t) = N8(s) /\ N16(t) = N16(s)
  BY AlikeOperands
<1>1. N16(s) \in Word /\ Int8(N8(s)) \in Int
  BY <1>0, GetType, Words
<1>2. 1 + Int8(N8(s)) \in Int /\ 1 \in Int /\ 2 \in Int
  BY <1>1
<1>3. Alike(H, DO_JMP(s), DO_JMP(t))
  <2>1. Alike(H, [s EXCEPT !.pc = N16(s)], [t EXCEPT !.pc = N16(s)])
    BY <1>1, AlikePuts, Zenon
  <2>2. Alike(H, Took([s EXCEPT !.pc = N16(s)], 4), Took([t EXCEPT !.pc = N16(s)], 4))
    BY <2>1, AlikeTook, Counts, Zenon
  <2> QED BY <1>0, <2>2 DEF DO_JMP
<1>4. Alike(H, DO_JR(s), DO_JR(t))
  BY <1>0, <1>2, AlikeTook, Counts, Zenon DEF DO_JR
<1>5. ASSUME NEW c
      PROVE  /\ Alike(H, op_jmp_cond(s, c), op_jmp_cond(t, c))
             /\ Alike(H, op_jr_cond(s, c), op_jr_cond(t, c))
  <2>1. /\ Alike(H, Took(ADVANCE_PC(s, 2), 3), Took(ADVANCE_PC(t, 2), 3))
        /\ Alike(H, Took(ADVANCE_PC(s, 1), 2), Took(ADVANCE_PC(t, 1), 2))
    BY <1>2, AlikeTook, Counts, Zenon
  <2> QED BY <1>3, <1>4, <2>1, Zenon DEF op_jmp_cond, op_jr_cond
<1> QED BY <1>3, <1>4, <1>5, Zenon

LEMMA AlikeLeaps ==
    ASSUME NEW H, NEW s, NEW t, Alike(H, s, t)
    PROVE  Alike(H, op_jmp_hl(s), op_jmp_hl(t))
<1>0. s \in CpuType /\ HL(t) = HL(s)
  BY AlikeOperands
<1>1. HL(s) \in Word
  BY <1>0, GetType, Zenon
<1>2. Alike(H, [s EXCEPT !.pc = HL(s)], [t EXCEPT !.pc = HL(s)])
  BY <1>1, AlikePuts, Zenon
<1>3. Alike(H, Took([s EXCEPT !.pc = HL(s)], 1), Took([t EXCEPT !.pc = HL(s)], 1))
  BY <1>2, AlikeTook, Counts, Zenon
<1> QED BY <1>0, <1>3 DEF op_jmp_hl

LEMMA AlikeCall ==
    ASSUME NEW H, NEW s, NEW t, Alike(H, s, t), NEW a \in Word
    PROVE  Lowered(H, s, CallTo(s, a), CallTo(t, a))
<1>0. s \in CpuType /\ t.pc = s.pc
  BY AlikeOperands
<1>1. s.pc \in Word
  BY <1>0, Fields, Zenon
<1>2. Lowered(H, s, Push(s, s.pc), Push(t, t.pc))
  BY <1>0, <1>1, AlikePush, Zenon
<1> QED BY <1>2, LoweredPuts, Zenon DEF CallTo

LEMMA AlikeCalls ==
    ASSUME NEW H, NEW s, NEW t, Alike(H, s, t)
    PROVE  /\ Clear(H, s.pc) /\ Clear(H, s.pc + 1) =>
                 /\ Lowered(H, s, DO_CALL(s), DO_CALL(t))
                 /\ \A c : Lowered(H, s, op_call_cond(s, c), op_call_cond(t, c))
           /\ \A y \in 0..7 : Lowered(H, s, op_restart(s, y), op_restart(t, y))
<1>0. s \in CpuType
  BY AlikeOperands
<1>1. ASSUME NEW y \in 0..7 PROVE Lowered(H, s, op_restart(s, y), op_restart(t, y))
  <2>1. 8 * y \in Word
    BY Ranges
  <2>2. Lowered(H, s, CallTo(s, 8 * y), CallTo(t, 8 * y))
    BY <2>1, AlikeCall, Zenon
  <2> QED BY <2>2, LoweredPuts, Counts, Zenon DEF op_restart
<1>2. ASSUME Clear(H, s.pc), Clear(H, s.pc + 1) PROVE Lowered(H, s, DO_CALL(s), DO_CALL(t))
  <2> DEFINE p == ADVANCE_PC(s, 2)
             q == ADVANCE_PC(t, 2)
             a == N16(s)
  <2>1. N16(t) = a
    BY <1>2, AlikeOperands
  <2>2. a \in Word /\ 2 \in Int
    BY <1>0, GetType
  <2>3. Alike(H, p, q)
    BY <2>2, AlikeParts, Zenon
  <2>4. p.sp = s.sp
    BY <1>0 DEF ADVANCE_PC, CpuType, CpuFields
  <2>5. DO_CALL(s) = Took(CallTo(p, a), 6) /\ DO_CALL(t) = Took(CallTo(q, a), 6)
    BY <2>1, Zenon DEF DO_CALL
  <2> HIDE DEF p, q, a
  <2>6. Lowered(H, p, CallTo(p, a), CallTo(q, a))
    BY <2>2, <2>3, AlikeCall, Zenon
  <2>7. Lowered(H, s, CallTo(p, a), CallTo(q, a))
    BY <2>4, <2>6, Zenon DEF Lowered
  <2>8. Lowered(H, s, Took(CallTo(p, a), 6), Took(CallTo(q, a), 6))
    BY <2>7, LoweredPuts, Counts, Zenon
  <2> QED BY <2>5, <2>8
<1>3. ASSUME NEW c, Clear(H, s.pc), Clear(H, s.pc + 1)
      PROVE  Lowered(H, s, op_call_cond(s, c), op_call_cond(t, c))
  <2>1. CASE c
    BY <1>2, <1>3, <2>1, Zenon DEF op_call_cond
  <2>2. CASE ~c
    <3> DEFINE x == Took(ADVANCE_PC(s, 2), 3)
               y == Took(ADVANCE_PC(t, 2), 3)
    <3>1. 2 \in Int
      OBVIOUS
    <3>2. Alike(H, x, y)
      BY <3>1, AlikeTook, Counts, Zenon
    <3>3. x.sp = s.sp
      BY <1>0 DEF Took, ADVANCE_PC, CpuType, CpuFields
    <3>4. op_call_cond(s, c) = x /\ op_call_cond(t, c) = y
      BY <2>2, Zenon DEF op_call_cond
    <3> HIDE DEF x, y
    <3>5. ~(x.sp < s.sp)
      <4>1. s.sp \in Word
        BY <1>0, Fields, Zenon
      <4>2. s.sp \in Int
        BY <4>1, Ranges
      <4> QED BY <3>3, <4>2
    <3> QED BY <3>2, <3>4, <3>5 DEF Lowered
  <2> QED BY <2>1, <2>2
<1> QED BY <1>1, <1>2, <1>3, Zenon

LEMMA AlikeReturns ==
    ASSUME NEW H, NEW s, NEW t, Alike(H, s, t), Clear(H, s.sp), Clear(H, s.sp + 1)
    PROVE  /\ Alike(H, op_ret(s), op_ret(t)) /\ Alike(H, op_reti(s), op_reti(t))
           /\ \A c : Alike(H, op_ret_cond(s, c), op_ret_cond(t, c))
<1>0. s \in CpuType /\ Pushed(t) = Pushed(s)
  BY AlikeOperands
<1> DEFINE p == [s EXCEPT !.pc = Pushed(s)]
           q == [t EXCEPT !.pc = Pushed(s)]
<1>1. Pushed(s) \in Word
  BY <1>0, GetType, Zenon
<1>2. Alike(H, p, q)
  BY <1>1, AlikePuts, Zenon
<1>3. DO_RET(s) = Drop(p) /\ DO_RET(t) = Drop(q)
  BY <1>0, Zenon DEF DO_RET
<1> HIDE DEF p, q
<1>4. Alike(H, DO_RET(s), DO_RET(t))
  BY <1>2, <1>3, AlikeParts, Zenon
<1>5. Alike(H, op_ret(s), op_ret(t))
  BY <1>4, AlikeTook, Counts, Zenon DEF op_ret
<1>6. Alike(H, op_reti(s), op_reti(t))
  <2>1. Alike(H, [DO_RET(s) EXCEPT !.ime_enabled = TRUE], [DO_RET(t) EXCEPT !.ime_enabled = TRUE])
    BY <1>4, AlikePuts, Zenon
  <2> QED BY <2>1, AlikeTook, Counts, Zenon DEF op_reti
<1>7. ASSUME NEW c PROVE Alike(H, op_ret_cond(s, c), op_ret_cond(t, c))
  <2>1. Alike(H, Took(DO_RET(s), 5), Took(DO_RET(t), 5)) /\ Alike(H, Took(s, 2), Took(t, 2))
    BY <1>4, AlikeTook, Counts, Zenon
  <2> QED BY <2>1, Zenon DEF op_ret_cond
<1> QED BY <1>5, <1>6, <1>7, Zenon

LEMMA AlikeOthers ==
    ASSUME NEW H, NEW s, NEW t, Alike(H, s, t)
    PROVE  /\ Alike(H, op_nop(s), op_nop(t)) /\ Alike(H, op_stop_n8(s), op_stop_n8(t))
           /\ Alike(H, op_halt(s), op_halt(t))
           /\ Alike(H, op_dis_ints(s), op_dis_ints(t)) /\ Alike(H, op_ena_ints(s), op_ena_ints(t))
<1>0. 1 \in Int
  OBVIOUS
<1>1. Alike(H, op_nop(s), op_nop(t)) /\ Alike(H, op_stop_n8(s), op_stop_n8(t))
  BY <1>0, AlikeTook, Counts, Zenon DEF op_nop, op_stop_n8
<1>2. /\ Alike(H, [s EXCEPT !.is_halted = TRUE], [t EXCEPT !.is_halted = TRUE])
      /\ Alike(H, [s EXCEPT !.ime_enabled = FALSE], [t EXCEPT !.ime_enabled = FALSE])
      /\ Alike(H, [s EXCEPT !.ime_enabled = TRUE], [t EXCEPT !.ime_enabled = TRUE])
  BY AlikePuts, Zenon
<1>3. /\ Alike(H, op_halt(s), op_halt(t)) /\ Alike(H, op_dis_ints(s), op_dis_ints(t))
      /\ Alike(H, op_ena_ints(s), op_ena_ints(t))
  BY <1>2, AlikeTook, Counts DEF op_halt, op_dis_ints, op_ena_ints
<1> QED BY <1>1, <1>3, Zenon

-----------------------------------------------------------------------------
(* The table, on two states alike.                                          *)

\* SeesData with the addresses of H for those hidden, and the operand bytes.
Finds(H, s, x, y, z) ==
    /\ Clear(H, s.pc) /\ Clear(H, s.pc + 1)
    /\ ReadsHL(x, y, z) => Clear(H, HL(s))
    /\ Pops(x, y, z) => Clear(H, s.sp) /\ Clear(H, s.sp + 1)
    /\ x = 0 /\ z = 2 /\ y = 1 => Clear(H, Get16(s, "BC"))
    /\ x = 0 /\ z = 2 /\ y = 3 => Clear(H, Get16(s, "DE"))
    /\ x = 3 /\ z = 0 /\ y = 6 => Clear(H, HighPage(N8(s)))
    /\ x = 3 /\ z = 2 /\ y = 6 => Clear(H, HighPage(s.reg["C"]))
    /\ x = 3 /\ z = 2 /\ y = 7 => Clear(H, N16(s))

LEMMA Operands8 ==
    /\ \A y \in Field : y # 6 => Operand[y + 1] # "IND_HL"
    /\ \A y \in Field : Operand[y + 1] = "IND_HL" => y = 6
  BY DEF Field, Operand

LEMMA AlikeBlock0 ==
    ASSUME NEW H, NEW s, NEW t, Alike(H, s, t), NEW y \in Field, NEW z \in Field,
           Finds(H, s, 0, y, z)
    PROVE  Alike(H, Block0(s, y, z), Block0(t, y, z))
<1> DEFINE p == Pair[y \div 2 + 1]
           r == Operand[y + 1]
           c == Block0(s, y, z)
           d == Block0(t, y, z)
<1>0. s \in CpuType /\ HL(t) = HL(s) /\ Get16(t, p) = Get16(s, p)
      /\ Clear(H, s.pc) /\ Clear(H, s.pc + 1)
      /\ \A k : Cond(t, k) = Cond(s, k)
  BY AlikeOperands DEF Finds
<1>1. p \in Pairs /\ r \in Targets /\ y \in 0..7 /\ Get16(s, p) \in Word /\ HL(s) \in Word
  BY <1>0, Fields8, GetType DEF Field
<1>2. CASE z = 0
  <2>0. z # 1 /\ z # 2 /\ z # 3 /\ z # 4 /\ z # 5 /\ z # 6 /\ z # 7
    BY <1>2
  <2>1. /\ c = CASE y = 0 -> op_nop(s)
                 [] y = 1 -> op_ld_ind_a16_sp(s)
                 [] y = 2 -> op_stop_n8(s)
                 [] y = 3 -> DO_JR(s)
                 [] y \in 4..7 -> op_jr_cond(s, Cond(s, y - 4))
        /\ d = CASE y = 0 -> op_nop(t)
                 [] y = 1 -> op_ld_ind_a16_sp(t)
                 [] y = 2 -> op_stop_n8(t)
                 [] y = 3 -> DO_JR(t)
                 [] y \in 4..7 -> op_jr_cond(t, Cond(s, y - 4))
    BY <1>0, <1>2, <2>0, Zenon DEF Block0
  <2> DEFINE k == Cond(s, y - 4)
  <2>2. /\ Alike(H, op_nop(s), op_nop(t)) /\ Alike(H, op_stop_n8(s), op_stop_n8(t))
        /\ Alike(H, op_ld_ind_a16_sp(s), op_ld_ind_a16_sp(t))
        /\ Alike(H, DO_JR(s), DO_JR(t)) /\ Alike(H, op_jr_cond(s, k), op_jr_cond(t, k))
    BY <1>0, AlikeOthers, AlikeAddressed, AlikeJumps, Zenon
  <2> HIDE DEF c, d, k, p, r
  <2> QED BY <2>1, <2>2, Fields8 DEF k, c, d
<1>3. CASE z = 1
  <2>1. /\ c = IF y % 2 = 1 THEN op_add_hl(s, p) ELSE op_ld_n16(s, p)
        /\ d = IF y % 2 = 1 THEN op_add_hl(t, p) ELSE op_ld_n16(t, p)
    BY <1>3 DEF Block0
  <2>2. Alike(H, op_add_hl(s, p), op_add_hl(t, p)) /\ Alike(H, op_ld_n16(s, p), op_ld_n16(t, p))
    BY <1>0, <1>1, AlikeSums, AlikeLoads, Zenon
  <2> HIDE DEF c, d, p
  <2> QED BY <2>1, <2>2 DEF c, d
<1>4. CASE z = 2
  <2>0. z # 0 /\ z # 1 /\ z # 3 /\ z # 4 /\ z # 5 /\ z # 6 /\ z # 7
    BY <1>4
  <2>1. /\ c = CASE y \in {0, 2} -> op_ld_ind_a(s, Get16(s, p))
                 [] y \in {1, 3} -> op_ld_a_ind(s, Get16(s, p))
                 [] y = 4 -> ThenHL(op_ld_ind_a(s, HL(s)), 1)
                 [] y = 5 -> ThenHL(op_ld_a_ind(s, HL(s)), 1)
                 [] y = 6 -> ThenHL(op_ld_ind_a(s, HL(s)), -1)
                 [] y = 7 -> ThenHL(op_ld_a_ind(s, HL(s)), -1)
        /\ d = CASE y \in {0, 2} -> op_ld_ind_a(t, Get16(s, p))
                 [] y \in {1, 3} -> op_ld_a_ind(t, Get16(s, p))
                 [] y = 4 -> ThenHL(op_ld_ind_a(t, HL(s)), 1)
                 [] y = 5 -> ThenHL(op_ld_a_ind(t, HL(s)), 1)
                 [] y = 6 -> ThenHL(op_ld_ind_a(t, HL(s)), -1)
                 [] y = 7 -> ThenHL(op_ld_a_ind(t, HL(s)), -1)
    BY <1>0, <1>4, <2>0, Zenon DEF Block0
  <2>2. 1 \in Int /\ -1 \in Int
    OBVIOUS
  <2>3. /\ Alike(H, op_ld_ind_a(s, Get16(s, p)), op_ld_ind_a(t, Get16(s, p)))
        /\ Alike(H, op_ld_ind_a(s, HL(s)), op_ld_ind_a(t, HL(s)))
        /\ Clear(H, HL(s)) => Alike(H, op_ld_a_ind(s, HL(s)), op_ld_a_ind(t, HL(s)))
        /\ Clear(H, Get16(s, p)) =>
              Alike(H, op_ld_a_ind(s, Get16(s, p)), op_ld_a_ind(t, Get16(s, p)))
    BY <1>1, AlikeIndirect, Zenon
  <2>4. /\ Alike(H, ThenHL(op_ld_ind_a(s, HL(s)), 1), ThenHL(op_ld_ind_a(t, HL(s)), 1))
        /\ Alike(H, ThenHL(op_ld_ind_a(s, HL(s)), -1), ThenHL(op_ld_ind_a(t, HL(s)), -1))
        /\ Clear(H, HL(s)) =>
              /\ Alike(H, ThenHL(op_ld_a_ind(s, HL(s)), 1), ThenHL(op_ld_a_ind(t, HL(s)), 1))
              /\ Alike(H, ThenHL(op_ld_a_ind(s, HL(s)), -1), ThenHL(op_ld_a_ind(t, HL(s)), -1))
    BY <2>2, <2>3, AlikeThenHL, Zenon
  <2>5. y \in {5, 7} => Clear(H, HL(s))
    BY <1>4 DEF Finds, ReadsHL
  <2>6. y \in {1, 3} => Clear(H, Get16(s, p))
    <3>1. CASE y = 1
      <4>1. p = "BC"
        BY <3>1 DEF Pair
      <4> QED BY <1>4, <3>1, <4>1 DEF Finds
    <3>2. CASE y = 3
      <4>1. p = "DE"
        BY <3>2 DEF Pair
      <4> QED BY <1>4, <3>2, <4>1 DEF Finds
    <3> QED BY <3>1, <3>2
  <2> HIDE DEF c, d, p, r
  <2> QED BY <2>1, <2>3, <2>4, <2>5, <2>6, Fields8 DEF c, d
<1>5. CASE z \in {3, 4, 5, 6}
  <2>1. /\ c = CASE z = 3 -> IF y % 2 = 1 THEN op_dec16(s, p) ELSE op_inc16(s, p)
                 [] z = 4 -> op_inc(s, r)
                 [] z = 5 -> op_dec(s, r)
                 [] z = 6 -> op_ld_n8(s, r)
        /\ d = CASE z = 3 -> IF y % 2 = 1 THEN op_dec16(t, p) ELSE op_inc16(t, p)
                 [] z = 4 -> op_inc(t, r)
                 [] z = 5 -> op_dec(t, r)
                 [] z = 6 -> op_ld_n8(t, r)
    BY <1>5 DEF Block0
  <2>2. z \in {4, 5} => Reaches(H, s, r)
    BY Operands8 DEF Reaches, Finds, ReadsHL
  <2>3. /\ Alike(H, op_dec16(s, p), op_dec16(t, p)) /\ Alike(H, op_inc16(s, p), op_inc16(t, p))
        /\ Alike(H, op_ld_n8(s, r), op_ld_n8(t, r))
        /\ Reaches(H, s, r) =>
              Alike(H, op_inc(s, r), op_inc(t, r)) /\ Alike(H, op_dec(s, r), op_dec(t, r))
    BY <1>0, <1>1, AlikeSums, AlikeLoads, Zenon
  <2> HIDE DEF c, d, p, r
  <2> QED BY <1>5, <2>1, <2>2, <2>3 DEF c, d
<1>6. CASE z = 7
  <2>0. z # 0 /\ z # 1 /\ z # 2 /\ z # 3 /\ z # 4 /\ z # 5 /\ z # 6
    BY <1>6
  <2>1. /\ c = CASE y \in 0..3 -> op_turn_a(s, y)
                 [] y = 4 -> op_daa(s) [] y = 5 -> op_cpl(s)
                 [] y = 6 -> op_scf(s) [] y = 7 -> op_ccf(s)
        /\ d = CASE y \in 0..3 -> op_turn_a(t, y)
                 [] y = 4 -> op_daa(t) [] y = 5 -> op_cpl(t)
                 [] y = 6 -> op_scf(t) [] y = 7 -> op_ccf(t)
    BY <1>6, <2>0, Zenon DEF Block0
  <2>2. /\ Alike(H, op_turn_a(s, y), op_turn_a(t, y))
        /\ Alike(H, op_daa(s), op_daa(t)) /\ Alike(H, op_cpl(s), op_cpl(t))
        /\ Alike(H, op_scf(s), op_scf(t)) /\ Alike(H, op_ccf(s), op_ccf(t))
    BY <1>1, AlikeTurns, AlikeAccumulator, Zenon
  <2> HIDE DEF c, d, p, r
  <2> QED BY <2>1, <2>2, Fields8 DEF c, d
<1> HIDE DEF c, d
<1> QED BY <1>2, <1>3, <1>4, <1>5, <1>6, Fields8 DEF c, d

LEMMA AlikeBlock1 ==
    ASSUME NEW H, NEW s, NEW t, Alike(H, s, t), NEW y \in Field, NEW z \in Field,
           Finds(H, s, 1, y, z)
    PROVE  Alike(H, Block1(s, y, z), Block1(t, y, z))
<1> DEFINE u == Operand[y + 1]
           r == Operand[z + 1]
           c == Block1(s, y, z)
           d == Block1(t, y, z)
<1>1. /\ u \in Targets /\ (u # "IND_HL" => u \in Registers)
      /\ r \in Targets /\ (r # "IND_HL" => r \in Registers)
  <2>1. u \in Targets /\ r \in Targets
    BY Fields8
  <2> HIDE DEF u, r
  <2> QED BY <2>1 DEF Targets, Registers
<1>2. /\ c = CASE u = "IND_HL" /\ r = "IND_HL" -> op_halt(s)
               [] u = "IND_HL" /\ r # "IND_HL" -> op_ld_ind_hl_reg(s, r)
               [] u # "IND_HL" /\ r = "IND_HL" -> op_ld_reg_ind_hl(s, u)
               [] OTHER -> op_ld_reg_reg(s, u, r)
      /\ d = CASE u = "IND_HL" /\ r = "IND_HL" -> op_halt(t)
               [] u = "IND_HL" /\ r # "IND_HL" -> op_ld_ind_hl_reg(t, r)
               [] u # "IND_HL" /\ r = "IND_HL" -> op_ld_reg_ind_hl(t, u)
               [] OTHER -> op_ld_reg_reg(t, u, r)
  BY Zenon DEF Block1
<1>3. u # "IND_HL" /\ r = "IND_HL" => Clear(H, HL(s))
  <2>1. u # "IND_HL" /\ r = "IND_HL" => y # 6 /\ z = 6
    BY Operands8, Fields8
  <2> QED BY <2>1 DEF Finds, ReadsHL
<1> HIDE DEF u, r, c, d
<1>4. CASE u = "IND_HL" /\ r = "IND_HL"
  BY <1>2, <1>4, AlikeOthers DEF c, d
<1>5. CASE u = "IND_HL" /\ r # "IND_HL"
  BY <1>1, <1>2, <1>5, AlikeLoads DEF c, d
<1>6. CASE u # "IND_HL" /\ r = "IND_HL"
  BY <1>1, <1>2, <1>3, <1>6, AlikeLoads DEF c, d
<1>7. CASE u # "IND_HL" /\ r # "IND_HL"
  BY <1>1, <1>2, <1>7, AlikeLoads DEF c, d
<1> QED BY <1>4, <1>5, <1>6, <1>7

LEMMA AlikeBlock2 ==
    ASSUME NEW H, NEW s, NEW t, Alike(H, s, t), NEW y \in Field, NEW z \in Field,
           Finds(H, s, 2, y, z)
    PROVE  Alike(H, Block2(s, y, z), Block2(t, y, z))
<1>1. y \in 0..7
  BY DEF Field
<1>2. CASE z = 6
  <2>1. Clear(H, HL(s))
    BY <1>2 DEF Finds, ReadsHL
  <2>2. Alike(H, op_alu_ind_hl(s, y), op_alu_ind_hl(t, y))
    BY <1>1, <2>1, AlikeAlu, Zenon
  <2> QED BY <1>2, <2>2, Zenon DEF Block2
<1>3. CASE z # 6
  <2>1. Operand[z + 1] \in Registers
    BY <1>3, Fields8
  <2>2. Alike(H, op_alu_reg(s, y, Operand[z + 1]), op_alu_reg(t, y, Operand[z + 1]))
    BY <1>1, <2>1, AlikeAlu, Zenon
  <2> QED BY <1>3, <2>2, Zenon DEF Block2
<1> QED BY <1>2, <1>3

LEMMA AlikePrefixed ==
    ASSUME NEW H, NEW s, NEW t, Alike(H, s, t), NEW x \in 0..3, NEW y \in Field,
           NEW z \in Field, z = 6 => Clear(H, HL(s))
    PROVE  Alike(H, Prefixed(s, x, y, z), Prefixed(t, x, y, z))
<1> DEFINE r == Operand[z + 1]
<1>1. r \in Targets /\ y \in 0..7
  BY Fields8 DEF Field
<1>2. Reaches(H, s, r)
  BY Operands8 DEF Reaches
<1>3. x = 0 \/ x = 1 \/ x = 2 \/ x = 3
  OBVIOUS
<1>4. /\ Alike(H, op_turn(s, y, r), op_turn(t, y, r)) /\ Alike(H, op_bit(s, y, r), op_bit(t, y, r))
      /\ Alike(H, op_rst(s, y, r), op_rst(t, y, r)) /\ Alike(H, op_set(s, y, r), op_set(t, y, r))
  BY <1>1, <1>2, AlikeTurns, Zenon
<1> QED BY <1>3, <1>4 DEF Prefixed

LEMMA AlikeBlock3 ==
    ASSUME NEW H, NEW s, NEW t, Alike(H, s, t), NEW y \in Field, NEW z \in Field,
           Finds(H, s, 3, y, z)
    PROVE  /\ Alike(H, Block3(s, y, z), Block3(t, y, z))
           /\ Pushes(3, y, z) => Lowered(H, s, Block3(s, y, z), Block3(t, y, z))
<1> DEFINE p == <<"BC", "DE", "HL", "AF">>[y \div 2 + 1]
           k == Cond(s, y)
           c == Block3(s, y, z)
           d == Block3(t, y, z)
<1>0. /\ s \in CpuType /\ Cond(t, y) = k
      /\ Clear(H, s.pc) /\ Clear(H, s.pc + 1)
      /\ Pops(3, y, z) => Clear(H, s.sp) /\ Clear(H, s.sp + 1)
  BY AlikeOperands DEF Finds
<1>1. p \in Pairs /\ y \in 0..7
  BY Fields8 DEF Field
<1>2. \A x, w : Lowered(H, s, x, w) => Alike(H, x, w)
  BY DEF Lowered
<1>3. CASE z = 0
  <2>0. z # 1 /\ z # 2 /\ z # 3 /\ z # 4 /\ z # 5 /\ z # 6 /\ z # 7
    BY <1>3
  <2>1. /\ c = CASE y \in 0..3 -> op_ret_cond(s, k)
                 [] y = 4 -> op_ldh_ind_a8_a(s)
                 [] y = 5 -> op_add_sp_e8(s)
                 [] y = 6 -> op_ldh_a_ind_a8(s)
                 [] y = 7 -> op_ld_hl_sp_e8(s)
        /\ d = CASE y \in 0..3 -> op_ret_cond(t, k)
                 [] y = 4 -> op_ldh_ind_a8_a(t)
                 [] y = 5 -> op_add_sp_e8(t)
                 [] y = 6 -> op_ldh_a_ind_a8(t)
                 [] y = 7 -> op_ld_hl_sp_e8(t)
    BY <1>0, <1>3, <2>0, Zenon DEF Block3
  <2>2. /\ Alike(H, op_ldh_ind_a8_a(s), op_ldh_ind_a8_a(t))
        /\ Alike(H, op_add_sp_e8(s), op_add_sp_e8(t))
        /\ Alike(H, op_ld_hl_sp_e8(s), op_ld_hl_sp_e8(t))
    BY <1>0, AlikeAddressed, AlikeOffsets, Zenon
  <2>3. y = 6 => Alike(H, op_ldh_a_ind_a8(s), op_ldh_a_ind_a8(t))
    <3>1. y = 6 => Clear(H, HighPage(N8(s)))
      BY <1>3 DEF Finds
    <3> QED BY <1>0, <3>1, AlikeAddressed, Zenon
  <2>4. y \in 0..3 => Alike(H, op_ret_cond(s, k), op_ret_cond(t, k))
    <3>1. y \in 0..3 => Pops(3, y, z)
      BY <1>3 DEF Pops
    <3> QED BY <1>0, <3>1, AlikeReturns, Zenon
  <2>5. ~Pushes(3, y, z)
    BY <1>3 DEF Pushes
  <2> HIDE DEF c, d, p, k
  <2> QED BY <2>1, <2>2, <2>3, <2>4, <2>5, Fields8 DEF c, d
<1>4. CASE z = 1
  <2>0. z # 0 /\ z # 2 /\ z # 3 /\ z # 4 /\ z # 5 /\ z # 6 /\ z # 7
    BY <1>4
  <2>1. /\ c = CASE ~(y % 2 = 1) -> op_pop(s, p)
                 [] y = 1 -> op_ret(s)
                 [] y = 3 -> op_reti(s)
                 [] y = 5 -> op_jmp_hl(s)
                 [] y = 7 -> op_ld_sp_hl(s)
        /\ d = CASE ~(y % 2 = 1) -> op_pop(t, p)
                 [] y = 1 -> op_ret(t)
                 [] y = 3 -> op_reti(t)
                 [] y = 5 -> op_jmp_hl(t)
                 [] y = 7 -> op_ld_sp_hl(t)
    BY <1>4, <2>0, Zenon DEF Block3
  <2>2. Alike(H, op_jmp_hl(s), op_jmp_hl(t)) /\ Alike(H, op_ld_sp_hl(s), op_ld_sp_hl(t))
    BY AlikeLeaps, AlikeLoads, Zenon
  <2>3. y # 5 /\ y # 7 => /\ Alike(H, op_pop(s, p), op_pop(t, p))
                          /\ Alike(H, op_ret(s), op_ret(t)) /\ Alike(H, op_reti(s), op_reti(t))
    <3>1. y # 5 /\ y # 7 => Pops(3, y, z)
      BY <1>4 DEF Pops
    <3> QED BY <1>0, <1>1, <3>1, AlikeStack, AlikeReturns, Zenon
  <2>4. ~Pushes(3, y, z)
    BY <1>4 DEF Pushes
  <2>5. /\ 1 % 2 = 1 /\ 3 % 2 = 1 /\ 5 % 2 = 1 /\ 7 % 2 = 1
        /\ y = 0 \/ y = 2 \/ y = 4 \/ y = 6 => ~(y % 2 = 1)
    OBVIOUS
  <2> HIDE DEF c, d, p, k
  <2>6. CASE y = 5 \/ y = 7
    BY <2>1, <2>2, <2>4, <2>5, <2>6 DEF c, d
  <2>7. CASE y # 5 /\ y # 7
    BY <2>1, <2>3, <2>4, <2>5, <2>7, Fields8 DEF c, d
  <2> QED BY <2>6, <2>7
<1>5. CASE z = 2
  <2>0. z # 0 /\ z # 1 /\ z # 3 /\ z # 4 /\ z # 5 /\ z # 6 /\ z # 7
    BY <1>5
  <2>1. /\ c = CASE y \in 0..3 -> op_jmp_cond(s, k)
                 [] y = 4 -> op_ldh_ind_c_a(s)
                 [] y = 5 -> op_ld_ind_a16_a(s)
                 [] y = 6 -> op_ldh_a_ind_c(s)
                 [] y = 7 -> op_ld_a_ind_a16(s)
        /\ d = CASE y \in 0..3 -> op_jmp_cond(t, k)
                 [] y = 4 -> op_ldh_ind_c_a(t)
                 [] y = 5 -> op_ld_ind_a16_a(t)
                 [] y = 6 -> op_ldh_a_ind_c(t)
                 [] y = 7 -> op_ld_a_ind_a16(t)
    BY <1>0, <1>5, <2>0, Zenon DEF Block3
  <2>2. /\ Alike(H, op_jmp_cond(s, k), op_jmp_cond(t, k))
        /\ Alike(H, op_ldh_ind_c_a(s), op_ldh_ind_c_a(t))
        /\ Alike(H, op_ld_ind_a16_a(s), op_ld_ind_a16_a(t))
    BY <1>0, AlikeAddressed, AlikeJumps, Zenon
  <2>3. /\ y = 6 => Alike(H, op_ldh_a_ind_c(s), op_ldh_a_ind_c(t))
        /\ y = 7 => Alike(H, op_ld_a_ind_a16(s), op_ld_a_ind_a16(t))
    <3>1. (y = 6 => Clear(H, HighPage(s.reg["C"]))) /\ (y = 7 => Clear(H, N16(s)))
      BY <1>5 DEF Finds
    <3> QED BY <1>0, <3>1, AlikeAddressed, Zenon
  <2>4. ~Pushes(3, y, z)
    BY <1>5 DEF Pushes
  <2> HIDE DEF c, d, p, k
  <2> QED BY <2>1, <2>2, <2>3, <2>4, Fields8 DEF c, d
<1>6. CASE z = 3
  <2>0. z # 0 /\ z # 1 /\ z # 2 /\ z # 4 /\ z # 5 /\ z # 6 /\ z # 7
    BY <1>6
  <2>1. /\ c = CASE y = 0 -> DO_JMP(s)
                 [] y \in 1..5 -> op_nop(s)
                 [] y = 6 -> op_dis_ints(s)
                 [] y = 7 -> op_ena_ints(s)
        /\ d = CASE y = 0 -> DO_JMP(t)
                 [] y \in 1..5 -> op_nop(t)
                 [] y = 6 -> op_dis_ints(t)
                 [] y = 7 -> op_ena_ints(t)
    BY <1>6, <2>0, Zenon DEF Block3
  <2>2. /\ Alike(H, DO_JMP(s), DO_JMP(t)) /\ Alike(H, op_nop(s), op_nop(t))
        /\ Alike(H, op_dis_ints(s), op_dis_ints(t)) /\ Alike(H, op_ena_ints(s), op_ena_ints(t))
    BY <1>0, AlikeJumps, AlikeOthers, Zenon
  <2>3. ~Pushes(3, y, z)
    BY <1>6 DEF Pushes
  <2> HIDE DEF c, d, p, k
  <2> QED BY <2>1, <2>2, <2>3, Fields8 DEF c, d
<1>7. CASE z = 4
  <2>0. z # 0 /\ z # 1 /\ z # 2 /\ z # 3 /\ z # 5 /\ z # 6 /\ z # 7
    BY <1>7
  <2>1. /\ c = IF y < 4 THEN op_call_cond(s, k) ELSE op_nop(s)
        /\ d = IF y < 4 THEN op_call_cond(t, k) ELSE op_nop(t)
    BY <1>0, <1>7, <2>0, Zenon DEF Block3
  <2>2. Lowered(H, s, op_call_cond(s, k), op_call_cond(t, k)) /\ Alike(H, op_nop(s), op_nop(t))
    BY <1>0, AlikeCalls, AlikeOthers, Zenon
  <2>3. Pushes(3, y, z) => y < 4
    BY <1>7 DEF Pushes
  <2> HIDE DEF c, d, p, k
  <2> QED BY <1>2, <2>1, <2>2, <2>3 DEF c, d
<1>8. CASE z = 5
  <2>0. z # 0 /\ z # 1 /\ z # 2 /\ z # 3 /\ z # 4 /\ z # 6 /\ z # 7
    BY <1>8
  <2>1. /\ c = CASE ~(y % 2 = 1) -> op_push(s, p)
                 [] y = 1 -> DO_CALL(s)
                 [] y \in {3, 5, 7} -> op_nop(s)
        /\ d = CASE ~(y % 2 = 1) -> op_push(t, p)
                 [] y = 1 -> DO_CALL(t)
                 [] y \in {3, 5, 7} -> op_nop(t)
    BY <1>8, <2>0, Zenon DEF Block3
  <2>2. /\ Lowered(H, s, op_push(s, p), op_push(t, p)) /\ Lowered(H, s, DO_CALL(s), DO_CALL(t))
        /\ Alike(H, op_nop(s), op_nop(t))
    BY <1>0, <1>1, AlikeStack, AlikeCalls, AlikeOthers, Zenon
  <2>3. y \in {3, 5, 7} => ~Pushes(3, y, z)
    BY <1>8 DEF Pushes
  <2>5. /\ 1 % 2 = 1 /\ 3 % 2 = 1 /\ 5 % 2 = 1 /\ 7 % 2 = 1
        /\ y = 0 \/ y = 2 \/ y = 4 \/ y = 6 => ~(y % 2 = 1)
    OBVIOUS
  <2> HIDE DEF c, d, p, k
  <2> QED BY <1>2, <2>1, <2>2, <2>3, <2>5, Fields8 DEF c, d
<1>9. CASE z = 6
  <2>1. c = op_alu_n8(s, y) /\ d = op_alu_n8(t, y)
    BY <1>9 DEF Block3
  <2>2. Alike(H, op_alu_n8(s, y), op_alu_n8(t, y))
    BY <1>0, <1>1, AlikeAlu, Zenon
  <2>3. ~Pushes(3, y, z)
    BY <1>9 DEF Pushes
  <2> HIDE DEF c, d
  <2> QED BY <2>1, <2>2, <2>3 DEF c, d
<1>10. CASE z = 7
  <2>1. c = op_restart(s, y) /\ d = op_restart(t, y)
    BY <1>10 DEF Block3
  <2>2. Lowered(H, s, op_restart(s, y), op_restart(t, y))
    BY <1>1, AlikeCalls, Zenon
  <2> HIDE DEF c, d
  <2> QED BY <1>2, <2>1, <2>2 DEF c, d
<1> HIDE DEF c, d, p, k
<1> QED BY <1>3, <1>4, <1>5, <1>6, <1>7, <1>8, <1>9, <1>10, Fields8 DEF c, d

\* The addresses hidden from a program whose stack pointer is sp.
Hidden(sp) == {a \in Word : Hides(sp, a)}

LEMMA SeesClear ==
    ASSUME NEW s, NEW a, Sees(s, a)
    PROVE  Clear(Hidden(s.sp), a)
  BY DEF Sees, Clear, Hidden, Io

\* An instruction takes two states that look alike to the program to two that
\* look alike.
LEMMA AlikeExecute ==
    ASSUME NEW s, NEW t, Alike(Hidden(s.sp), s, t), ~s.is_halted, ~t.is_halted,
           ReadsOwn(s), LowersByPushing(s)
    PROVE  Alike(Hidden(Execute(s).sp), Execute(s), Execute(t))
<1> DEFINE H == Hidden(s.sp)
           op == N8(s)
           x == op \div 64
           y == (op \div 8) % 8
           z == op % 8
           p == ADVANCE_PC(s, 1)
           q == ADVANCE_PC(t, 1)
           e == Execute(s)
           f == Execute(t)
<1>1. s \in CpuType /\ t \in CpuType /\ op \in Byte /\ s.sp \in Word
  <2>1. s \in CpuType /\ t \in CpuType
    BY DEF Alike
  <2> QED BY <2>1, GetType, Fields, Zenon
<1>2. /\ Clear(H, s.pc) /\ Clear(H, s.pc + 1) /\ Clear(H, s.pc + 2)
  BY SeesClear DEF ReadsOwn
<1>3. N8(t) = op
  BY <1>2, AlikeOperands
<1>4. Alike(H, p, q) /\ p \in CpuType
  <2>1. 1 \in Int
    OBVIOUS
  <2>2. Alike(H, p, q)
    BY <2>1, AlikeParts, Zenon
  <2> QED BY <2>2 DEF Alike
<1>5. p.sp = s.sp /\ p.pc = W16(s.pc + 1) /\ HL(p) = HL(s)
  <2>1. p.sp = s.sp /\ p.pc = W16(s.pc + 1) /\ p.reg = s.reg
    BY <1>1 DEF ADVANCE_PC, CpuType, CpuFields
  <2>2. HL(p) = HL(s)
    BY <2>1 DEF HL, Get16
  <2> QED BY <2>1, <2>2
<1>6. Clear(H, p.pc) /\ Clear(H, p.pc + 1)
  <2>1. s.pc \in Int
    BY <1>1, Fields, Words, Zenon
  <2>2. W16(W16(s.pc + 1)) = W16(s.pc + 1) /\ W16(W16(s.pc + 1) + 1) = W16(s.pc + 2)
    BY <2>1 DEF W16
  <2> QED BY <1>2, <1>5, <2>2 DEF Clear
<1>7. x \in 0..3 /\ y \in Field /\ z \in Field
  BY <1>1, OpcodeFields, Zenon
<1>8. Alike(H, e, f) /\ (op # OPCODE_PREFIX /\ Pushes(x, y, z) => Lowered(H, s, e, f))
  <2>1. CASE op = OPCODE_PREFIX
    <3> DEFINE b == N8(p)
               u == ADVANCE_PC(p, 1)
               v == ADVANCE_PC(q, 1)
    <3>1. N8(q) = b
      BY <1>4, <1>6, AlikeOperands
    <3>2. /\ e = ops_table_dispatch(u, b, TRUE)
          /\ f = ops_table_dispatch(v, b, TRUE)
      <4>1. e = ops_table_dispatch(u, b, TRUE)
        BY <2>1, Zenon DEF Execute
      <4>2. f = ops_table_dispatch(v, N8(q), TRUE)
        BY <1>3, <2>1, Zenon DEF Execute
      <4> QED BY <3>1, <4>1, <4>2
    <3>3. /\ e = Prefixed(u, b \div 64, (b \div 8) % 8, b % 8)
          /\ f = Prefixed(v, b \div 64, (b \div 8) % 8, b % 8)
      <4> HIDE DEF u, v, b, e, f
      <4> QED BY <3>2, Zenon DEF ops_table_dispatch
    <3>4. b \in Byte
      BY <1>4, GetType
    <3>5. b \div 64 \in 0..3 /\ (b \div 8) % 8 \in Field /\ b % 8 \in Field
      BY <3>4, OpcodeFields, Zenon
    <3>6. 1 \in Int
      OBVIOUS
    <3>7. Alike(H, u, v)
      BY <1>4, <3>6, AlikeParts, Zenon
    <3>8. HL(u) = HL(s)
      <4>1. u.reg = p.reg
        BY <1>4 DEF ADVANCE_PC, CpuType, CpuFields
      <4>2. HL(u) = HL(p)
        BY <4>1 DEF HL, Get16
      <4> QED BY <1>5, <4>2
    <3>9. b % 8 = 6 => Clear(H, HL(u))
      BY <2>1, <3>8, SeesClear DEF ReadsOwn
    <3> HIDE DEF u, v, b, e, f, H
    <3> QED BY <2>1, <3>3, <3>5, <3>7, <3>9, AlikePrefixed
  <2>2. CASE op # OPCODE_PREFIX
    <3>1. SeesData(p, x, y, z)
      BY <2>2 DEF ReadsOwn
    <3>2. Finds(H, p, x, y, z)
      <4>1. \A a : Sees(p, a) => Clear(H, a)
        BY <1>5, SeesClear
      <4> HIDE DEF p, x, y, z, H
      <4> QED BY <1>6, <3>1, <4>1, Zenon DEF SeesData, Finds
    <3>3. e = ops_table_dispatch(p, op, FALSE) /\ f = ops_table_dispatch(q, op, FALSE)
      BY <1>3, <2>2, Zenon DEF Execute
    <3> HIDE DEF p, q, e, f
    <3>4. /\ e = CASE FALSE -> Prefixed(p, x, y, z)
                   [] ~FALSE /\ x = 0 -> Block0(p, y, z)
                   [] ~FALSE /\ x = 1 -> Block1(p, y, z)
                   [] ~FALSE /\ x = 2 -> Block2(p, y, z)
                   [] ~FALSE /\ x = 3 -> Block3(p, y, z)
          /\ f = CASE FALSE -> Prefixed(q, x, y, z)
                   [] ~FALSE /\ x = 0 -> Block0(q, y, z)
                   [] ~FALSE /\ x = 1 -> Block1(q, y, z)
                   [] ~FALSE /\ x = 2 -> Block2(q, y, z)
                   [] ~FALSE /\ x = 3 -> Block3(q, y, z)
      BY <3>3, Zenon DEF ops_table_dispatch
    <3> HIDE DEF x, y, z, op, H
    <3>5. Pushes(x, y, z) => x = 3
      BY DEF Pushes
    <3>6. CASE x = 0
      BY <1>4, <1>7, <3>2, <3>4, <3>5, <3>6, AlikeBlock0
    <3>7. CASE x = 1
      BY <1>4, <1>7, <3>2, <3>4, <3>5, <3>7, AlikeBlock1
    <3>8. CASE x = 2
      BY <1>4, <1>7, <3>2, <3>4, <3>5, <3>8, AlikeBlock2
    <3>9. CASE x = 3
      <4>1. e = Block3(p, y, z) /\ f = Block3(q, y, z)
        BY <3>4, <3>9
      <4>2. Alike(H, e, f) /\ (Pushes(x, y, z) => Lowered(H, p, e, f))
        BY <1>4, <1>7, <3>2, <3>9, <4>1, AlikeBlock3
      <4> QED BY <1>5, <4>2 DEF Lowered
    <3> QED BY <1>7, <3>6, <3>7, <3>8, <3>9
  <2> QED BY <2>1, <2>2
<1>9. e.sp \in Word
  BY <1>8, Fields, Zenon DEF Alike
<1>10. CASE e.sp < s.sp
  <2>1. Pushes(x, y, z) /\ KeepsWord(s.sp)
    BY <1>10 DEF LowersByPushing
  <2>2. op # OPCODE_PREFIX
    <3>1. op = 203 => ~Pushes(3, 1, 3) /\ x = 3 /\ y = 1 /\ z = 3
      BY DEF Pushes
    <3> QED BY <2>1, <3>1 DEF OPCODE_PREFIX
  <2>3. Alike(H \ BelowStack(s.sp), e, f)
    BY <1>8, <1>10, <2>1, <2>2 DEF Lowered
  <2>4. e.sp = W16(s.sp - 2)
    BY <1>8, <1>10, <2>1, <2>2 DEF Lowered
  <2>5. s.sp \in Int /\ e.sp = s.sp - 2 /\ BelowStack(s.sp) = {s.sp - 1, s.sp - 2}
    <3>1. s.sp \in Int /\ 0 <= s.sp /\ s.sp < 65536
      BY <1>1, Ranges
    <3>2. W16(s.sp - 2) = s.sp - 2 /\ W16(s.sp - 1) = s.sp - 1
      BY <1>10, <2>4, <3>1 DEF W16
    <3> QED BY <2>4, <3>1, <3>2 DEF BelowStack
  <2>6. \A a \in Word : a \in H \ BelowStack(s.sp) => a \in Hidden(e.sp)
    <3>1. \A n \in Word : n \in Int
      BY Words
    <3>2. StackBase \in Int
      BY <3>1, StackAssumption
    <3> HIDE DEF e
    <3> QED BY <2>5, <3>1, <3>2 DEF Hidden, Hides
  <2> HIDE DEF e, f, H
  <2>7. Agree(Hidden(e.sp), e.mem, f.mem)
    BY <2>3, <2>6, AgreeMore DEF Alike
  <2> QED BY <1>8, <2>7 DEF Alike, e, f
<1>11. CASE ~(e.sp < s.sp)
  <2>1. \A a \in Word : a \in H => a \in Hidden(e.sp)
    <3>1. \A n \in Word : n \in Int
      BY Words
    <3>2. e.sp \in Int /\ s.sp \in Int
      BY <1>1, <1>9, <3>1
    <3>3. StackBase \in Int
      BY <3>1, StackAssumption
    <3> HIDE DEF e
    <3> QED BY <1>11, <3>1, <3>2, <3>3 DEF Hidden, Hides
  <2> HIDE DEF e, f, H
  <2>2. Agree(Hidden(e.sp), e.mem, f.mem)
    BY <1>8, <2>1, AgreeMore DEF Alike
  <2> QED BY <1>8, <2>2 DEF Alike, e, f
<1> QED BY <1>10, <1>11

-----------------------------------------------------------------------------
(* What a program sees.                                                     *)

\* Two states that are the same but for the registers of the machine.
Twin(s, t) ==
    /\ t.reg = s.reg /\ t.f = s.f /\ t.sp = s.sp /\ t.pc = s.pc /\ t.mem = s.mem
    /\ t.cart = s.cart /\ t.window = s.window /\ t.booting = s.booting

LEMMA SeenTwin ==
    ASSUME NEW s, NEW t, Twin(s, t)
    PROVE  Seen(t) = Seen(s)
<1>1. Shown(t) = Shown(s)
  BY DEF Shown, Twin
<1> QED BY <1>1 DEF Seen, Twin

LEMMA MemoryAt ==
    ASSUME NEW s \in CpuType
    PROVE  DOMAIN s.mem \subseteq Word /\ s.mem \in [DOMAIN s.mem -> Byte]
<1>1. s.mem \in Memory
  BY Fields
<1> QED BY <1>1 DEF Memory

LEMMA SeenAlike ==
    ASSUME NEW s, NEW t, Alike(Hidden(s.sp), s, t)
    PROVE  Seen(t) = Seen(s)
<1>1. s \in CpuType /\ t \in CpuType /\ t.sp = s.sp
  BY DEF Alike
<1>2. \A a \in Word : ~Hides(s.sp, a) =>
         (a \in DOMAIN t.mem <=> a \in DOMAIN s.mem) /\ At(t.mem, a) = At(s.mem, a)
  BY DEF Alike, Agree, Hidden
<1>3. DOMAIN s.mem \subseteq Word /\ DOMAIN t.mem \subseteq Word
  BY <1>1, MemoryAt
<1>4. Shown(t) = Shown(s)
  BY <1>1, <1>2, <1>3 DEF Shown
<1>5. \A a \in Shown(s) : t.mem[a] = s.mem[a]
  BY <1>2, <1>3, <1>4 DEF Shown, At
<1>6. [a \in Shown(t) |-> t.mem[a]] = [a \in Shown(s) |-> s.mem[a]]
  BY <1>4, <1>5
<1> QED BY <1>6 DEF Seen, Alike

\* A machine on which the program goes on looks like the one it was seen on.
LEMMA ResumeAlike ==
    ASSUME NEW s \in CpuType
    PROVE  /\ ~Resume(Seen(s)).is_halted
           /\ Alike(Hidden(s.sp), s, Resume(Seen(s)))
<1> DEFINE mem == [a \in Shown(s) |-> s.mem[a]]
           boot == Boot(s.cart)
           t == [boot EXCEPT !.reg = s.reg, !.f = s.f, !.sp = s.sp, !.pc = s.pc,
                             !.mem = mem, !.window = s.window, !.booting = s.booting]
<1>1. Resume(Seen(s)) = t
  BY DEF Resume, Seen
<1>2. mem \in Memory
  <2>1. Shown(s) \in SUBSET Word
    BY MemoryAt DEF Shown
  <2>2. mem \in [Shown(s) -> Byte]
    BY MemoryAt DEF Shown
  <2> QED BY <2>1, <2>2 DEF Memory
<1>3. boot \in CpuType /\ ~boot.is_halted /\ boot.cart = s.cart
  <2>1. s.cart \in DOMAIN Cartridges
    BY Fields
  <2>2. boot \in CpuType
    BY <2>1, BootType
  <2> QED BY <2>2 DEF Boot
<1>4. Agree(Hidden(s.sp), s.mem, mem)
  BY DEF Agree, Hidden, Shown, At
<1> HIDE DEF boot, mem
<1>5. /\ t \in CpuType /\ t.mem = mem /\ t.cart = s.cart /\ ~t.is_halted
      /\ t.reg = s.reg /\ t.f = s.f /\ t.sp = s.sp /\ t.pc = s.pc
      /\ t.window = s.window /\ t.booting = s.booting
  BY <1>2, <1>3 DEF CpuType, CpuFields
<1> HIDE DEF t
<1>6. Alike(Hidden(s.sp), s, t)
  BY <1>4, <1>5 DEF Alike
<1> QED BY <1>1, <1>5, <1>6

\* An instruction of a program that reads its own memory alone shows it what it
\* would see if it ran alone, whatever the machine has besides.
THEOREM InstructionsSeeTheirOwn ==
    ASSUME NEW s \in CpuType, ~s.is_halted, ReadsOwn(s), LowersByPushing(s)
    PROVE  Seen(Execute(s)) = Alone(Seen(s))
<1> DEFINE t == Resume(Seen(s))
           e == Execute(s)
           f == Execute(t)
<1>1. ~t.is_halted /\ Alike(Hidden(s.sp), s, t)
  BY ResumeAlike
<1> HIDE DEF t
<1>2. Alike(Hidden(e.sp), e, f)
  BY <1>1, AlikeExecute
<1> HIDE DEF e, f
<1>3. Seen(f) = Seen(e)
  BY <1>2, SeenAlike
<1> QED BY <1>3 DEF Alone, t, e, f

-----------------------------------------------------------------------------
(* What a step of exec_next shows.                                          *)

LEMMA TwinDiv ==
    ASSUME NEW s \in CpuType, NEW c \in Nat
    PROVE  Twin(s, CountDiv(s, c))
<1> DEFINE n == (s.div_counter + c) % 64
           d == IF n < s.div_counter THEN W8(s.div_reg + 1) ELSE s.div_reg
<1>1. CountDiv(s, c) = [s EXCEPT !.div_counter = n, !.div_reg = d]
  BY DEF CountDiv
<1> HIDE DEF n, d
<1> QED BY <1>1 DEF Twin, CpuType, CpuFields

LEMMA TwinTima ==
    ASSUME NEW s \in CpuType, NEW c \in Nat
    PROVE  Twin(s, CountTima(s, c))
<1> DEFINE n == s.tac_counter + c
           w == CountTima(s, c)
           i == IncTima(s)
           m == n % s.tac_divider
<1>0. n \in Int /\ s.tac_divider \in Int
  BY DEF CpuType, CpuFields, Dividers
<1>1. i \in CpuType /\ Twin(s, i)
  <2>1. i \in CpuType
    BY IncTimaType
  <2> DEFINE t == [s EXCEPT !.tima_reg = s.tma_reg]
             k == OfBits(Bits(t.if_reg) \cup {TIMER})
  <2>2. i = [s EXCEPT !.tima_reg = s.tima_reg + 1] \/ i = [t EXCEPT !.if_reg = k]
    BY DEF IncTima, cpu_request_intr
  <2> HIDE DEF k
  <2> QED BY <2>1, <2>2 DEF Twin, CpuType, CpuFields
<1>2. \/ w = s \/ w = [s EXCEPT !.tac_counter = n] \/ w = [i EXCEPT !.tac_counter = m]
  <2>1. \/ n < s.tac_divider /\ ~(n >= s.tac_divider)
        \/ n >= s.tac_divider /\ ~(n < s.tac_divider)
    BY <1>0
  <2>2. CASE ~s.tima_enabled
    BY <2>2, Zenon DEF CountTima
  <2>3. CASE s.tima_enabled /\ n < s.tac_divider /\ ~(n >= s.tac_divider)
    BY <2>3, Zenon DEF CountTima
  <2>4. CASE s.tima_enabled /\ n >= s.tac_divider /\ ~(n < s.tac_divider)
    BY <2>4, Zenon DEF CountTima
  <2> QED BY <2>1, <2>2, <2>3, <2>4
<1>3. Twin(s, s)
  BY DEF Twin
<1> HIDE DEF i, w, n, m
<1>4. Twin(s, [s EXCEPT !.tac_counter = n])
  BY DEF Twin, CpuType, CpuFields
<1>5. Twin(i, [i EXCEPT !.tac_counter = m])
  BY <1>1 DEF Twin, CpuType, CpuFields
<1>6. Twin(s, [i EXCEPT !.tac_counter = m])
  BY <1>1, <1>5 DEF Twin
<1> QED BY <1>2, <1>3, <1>4, <1>6 DEF w

\* The clocks show the program nothing, and neither does a halt.
LEMMA SeenClocked ==
    ASSUME NEW s \in CpuType
    PROVE  /\ Clocked(s) \in CpuType
           /\ Seen(Clocked(s)) = Seen(Execute(s)) /\ Clocked(s).sp = Execute(s).sp
           /\ s.is_halted => Seen(Execute(s)) = Seen(s)
<1> DEFINE t == Execute(s)
           c == t.cycles
           u == CountDiv(t, c)
           w == CountTima(u, c)
<1>1. t \in CpuType /\ c \in Nat
  BY ExecuteEnds DEF Lands
<1>2. ASSUME s.is_halted PROVE Seen(t) = Seen(s)
  <2>1. t = Took(s, 3)
    BY <1>2, Zenon DEF Execute
  <2>2. Twin(s, [s EXCEPT !.cycles = 3])
    BY DEF Twin, CpuType, CpuFields
  <2> QED BY <2>1, <2>2, SeenTwin DEF Took
<1> HIDE DEF t, c
<1>3. u \in CpuType /\ Twin(t, u)
  BY <1>1, CountDivType, TwinDiv
<1> HIDE DEF u
<1>4. w \in CpuType /\ Twin(u, w)
  BY <1>1, <1>3, CountTimaType, TwinTima
<1>5. Clocked(s) = w
  BY DEF Clocked, w, u, c, t
<1> HIDE DEF w
<1>6. Seen(w) = Seen(t) /\ w.sp = t.sp
  BY <1>3, <1>4, SeenTwin DEF Twin
<1> QED BY <1>2, <1>4, <1>5, <1>6 DEF t

\* An interrupt that is not taken shows nothing, and one that is taken moves SP.
LEMMA SeenInterrupt ==
    ASSUME NEW s \in CpuType
    PROVE  /\ ~Accepts(s) => Seen(handle_intrs(s)) = Seen(s) /\ handle_intrs(s).sp = s.sp
           /\ Accepts(s) => handle_intrs(s).sp # s.sp /\ handle_intrs(s).sp = W16(s.sp - 2)
<1>1. CASE ~Accepts(s)
  <2>1. handle_intrs(s) = Wake(s) \/ handle_intrs(s) = s
    BY <1>1, Zenon DEF handle_intrs
  <2>2. Twin(s, Wake(s)) /\ Twin(s, s)
    BY DEF Wake, Twin, CpuType, CpuFields
  <2>3. Twin(s, handle_intrs(s))
    BY <2>1, <2>2
  <2> QED BY <1>1, <2>3, SeenTwin DEF Twin
<1>2. CASE Accepts(s)
  <2>1. PICK c \in CpuType : /\ handle_intrs(s) = CallTo(c, Handler(Min(Pending(s))))
                             /\ Handler(Min(Pending(s))) \in Word
                             /\ c.sp = s.sp
    BY <1>2, Accepted
  <2>2. handle_intrs(s).sp = W16(s.sp - 2)
    BY <2>1, CallType
  <2>3. s.sp \in Int /\ 0 <= s.sp /\ s.sp < 65536
    BY Fields, Ranges
  <2>4. W16(s.sp - 2) # s.sp
    BY <2>3 DEF W16
  <2> QED BY <1>2, <2>2, <2>4
<1> QED BY <1>1, <1>2

\* The RETI of a handler that has restored what the program sees shows it that.
LEMMA SeenReturn ==
    ASSUME NEW s \in CpuType, ~s.is_halted, N8(s) = RETI,
           NEW seen, seen.sp \in Word, Restored(s, seen)
    PROVE  Seen(Execute(s)) = seen
<1> DEFINE t == Execute(s)
           r == [s EXCEPT !.sp = seen.sp, !.pc = seen.pc]
<1>1. /\ t.pc = Pushed(s) /\ t.sp = W16(s.sp + 2) /\ t.reg = s.reg /\ t.f = s.f
      /\ SameMemory(s, t)
  BY Returned
<1>2. t.pc = seen.pc
  BY <1>1 DEF Restored
<1>3. t.sp = seen.sp
  <2>1. seen.sp \in Int /\ 0 <= seen.sp /\ seen.sp < 65536
    BY Ranges
  <2>2. W16(W16(seen.sp - 2) + 2) = seen.sp
    BY <2>1 DEF W16
  <2> QED BY <1>1, <2>2 DEF Restored
<1>4. /\ r.sp = seen.sp /\ r.pc = seen.pc /\ r.reg = s.reg /\ r.f = s.f /\ r.mem = s.mem
      /\ r.cart = s.cart /\ r.window = s.window /\ r.booting = s.booting
  BY DEF CpuType, CpuFields
<1>5. Seen(r) = seen
  BY DEF Restored
<1> HIDE DEF t, r
<1>6. Twin(r, t)
  BY <1>1, <1>2, <1>3, <1>4 DEF Twin, SameMemory
<1> QED BY <1>5, <1>6, SeenTwin DEF t

-----------------------------------------------------------------------------
(* The interrupted code.                                                    *)

Sights == {Seen(x) : x \in CpuType}
SuspendedInv == cpu \in CpuType /\ suspended \in Seq(Sights)

LEMMA SightType ==
    ASSUME NEW seen \in Sights
    PROVE  seen.sp \in Word
<1>1. PICK x \in CpuType : seen = Seen(x)
  BY DEF Sights
<1> QED BY <1>1, Fields DEF Seen

\* The two outcomes of a step of the processor.
LEMMA StepSeen ==
    ASSUME SuspendedInv, cpu_exec_next
    PROVE  LET done == Clocked(cpu)
               outer == IF Returns(cpu) THEN Front(suspended) ELSE suspended
           IN  /\ done \in CpuType /\ outer \in Seq(Sights) /\ Seen(done) \in Sights
               /\ Seen(done) = Seen(Execute(cpu))
               /\ cpu.is_halted => Seen(done) = Seen(cpu)
               /\ cpu' = handle_intrs(done)
               /\ \/ /\ ~Accepts(done) /\ suspended' = outer
                     /\ Seen(cpu') = Seen(done)
                  \/ Accepts(done) /\ suspended' = Append(outer, Seen(done))
<1> DEFINE done == Clocked(cpu)
           next == handle_intrs(done)
           outer == IF Returns(cpu) THEN Front(suspended) ELSE suspended
<1>1. cpu \in CpuType /\ suspended \in Seq(Sights)
  BY DEF SuspendedInv
<1>2. /\ done \in CpuType /\ Seen(done) = Seen(Execute(cpu))
      /\ cpu.is_halted => Seen(done) = Seen(cpu)
  BY <1>1, SeenClocked
<1>3. outer \in Seq(Sights)
  <2>1. CASE Returns(cpu)
    <3>1. suspended # <<>>
      BY <2>1 DEF Returns
    <3>2. Front(suspended) \in Seq(Sights)
      BY <1>1, <3>1 DEF Front
    <3> QED BY <2>1, <3>2
  <2>2. CASE ~Returns(cpu)
    BY <1>1, <2>2
  <2> QED BY <2>1, <2>2
<1>4. /\ cpu' = next
      /\ suspended' = IF next.sp # done.sp THEN Append(outer, Seen(done)) ELSE outer
  BY DEF cpu_exec_next
<1> HIDE DEF done, outer
<1>5. /\ ~Accepts(done) => Seen(next) = Seen(done) /\ next.sp = done.sp
      /\ Accepts(done) => next.sp # done.sp
  BY <1>2, SeenInterrupt
<1>6. Seen(done) \in Sights
  BY <1>2 DEF Sights
<1> HIDE DEF next
<1>7. \/ ~Accepts(done) /\ suspended' = outer /\ Seen(cpu') = Seen(done)
      \/ Accepts(done) /\ suspended' = Append(outer, Seen(done))
  BY <1>4, <1>5
<1> QED BY <1>2, <1>3, <1>4, <1>6, <1>7 DEF done, outer, next

\* A request of the picture unit shows the program nothing.
LEMMA RequestsUnseen ==
    ASSUME CpuInv, ppu_refresh
    PROVE  Seen(cpu') = Seen(cpu) /\ UNCHANGED suspended
<1>1. ASSUME NEW S, cpu' = [cpu EXCEPT !.if_reg = OfBits(Bits(@) \cup S)]
      PROVE  Twin(cpu, cpu')
  <2> DEFINE n == OfBits(Bits(cpu.if_reg) \cup S)
  <2>1. cpu' = [cpu EXCEPT !.if_reg = n]
    BY <1>1
  <2> HIDE DEF n
  <2> QED BY <2>1 DEF Twin, CpuInv, CpuType, CpuFields
<1>2. Twin(cpu, cpu') \/ cpu' = cpu
  BY <1>1 DEF ppu_refresh
<1> QED BY <1>2, SeenTwin DEF ppu_refresh

LEMMA SuspendedTyped == Spec => []SuspendedInv
<1>1. Init => suspended \in Seq(Sights)
  BY DEF Init
<1>2. ASSUME CpuInv, suspended \in Seq(Sights), [Next]_vars
      PROVE  (suspended \in Seq(Sights))'
  <2>1. CASE cpu_exec_next
    <3> DEFINE outer == IF Returns(cpu) THEN Front(suspended) ELSE suspended
               seen == Seen(Clocked(cpu))
    <3>1. /\ outer \in Seq(Sights) /\ seen \in Sights
          /\ suspended' = outer \/ suspended' = Append(outer, seen)
      BY <1>2, <2>1, StepSeen DEF SuspendedInv, CpuInv
    <3> HIDE DEF outer, seen
    <3> QED BY <3>1
  <2>2. CASE ppu_refresh
    BY <1>2, <2>2 DEF ppu_refresh
  <2>3. CASE UNCHANGED vars
    BY <1>2, <2>3 DEF vars
  <2> QED BY <1>2, <2>1, <2>2, <2>3 DEF Next
<1>3. Spec => Init /\ [][Next]_vars
  BY PTL DEF Spec
<1>4. CpuInv /\ suspended \in Seq(Sights) <=> SuspendedInv
  BY DEF CpuInv, SuspendedInv
<1> QED BY <1>1, <1>2, <1>3, <1>4, CpuTyped, PTL

\* What the main code sees: what is suspended outermost, or what cpu shows.
Main == IF suspended = <<>> THEN Seen(cpu) ELSE suspended[1]

\* The end of a sequence does not touch its first element.
LEMMA FirstStays ==
    ASSUME NEW S, NEW q \in Seq(S), q # <<>>
    PROVE  /\ \A e \in S : Append(q, e) # <<>> /\ Append(q, e)[1] = q[1]
           /\ Len(q) # 1 => Front(q) # <<>> /\ Front(q)[1] = q[1]
           /\ Len(q) = 1 => Front(q) = <<>>
           /\ q[1] \in S
<1>1. Len(q) \in Nat /\ Len(q) >= 1
  OBVIOUS
<1>2. ASSUME NEW e \in S PROVE Append(q, e) # <<>> /\ Append(q, e)[1] = q[1]
  <2>1. Len(Append(q, e)) = Len(q) + 1 /\ Append(q, e)[1] = q[1]
    BY <1>1
  <2>2. Append(q, e) # <<>>
    BY <1>1, <2>1
  <2> QED BY <2>1, <2>2
<1> DEFINE f == SubSeq(q, 1, Len(q) - 1)
<1>3. ASSUME Len(q) # 1 PROVE f # <<>> /\ f[1] = q[1]
  <2>1. Len(f) = Len(q) - 1
    BY <1>1, <1>3
  <2>2. f[1] = q[1]
    BY <1>1, <1>3
  <2>3. Len(f) # 0
    BY <1>1, <1>3, <2>1
  <2>4. Len(<<>>) = 0
    OBVIOUS
  <2> HIDE DEF f
  <2> QED BY <2>2, <2>3, <2>4
<1>4. Len(q) = 1 => f = <<>>
  BY <1>1
<1>5. q[1] \in S
  BY <1>1
<1> HIDE DEF f
<1> QED BY <1>2, <1>3, <1>4, <1>5 DEF Front, f

LEMMA StepTransparent ==
    ASSUME SuspendedInv, ProgramContract, cpu_exec_next
    PROVE  Main' = Main \/ Main' = Alone(Main)
<1> DEFINE done == Clocked(cpu)
           outer == IF Returns(cpu) THEN Front(suspended) ELSE suspended
<1>1. /\ outer \in Seq(Sights) /\ Seen(done) \in Sights
      /\ Seen(done) = Seen(Execute(cpu))
      /\ cpu.is_halted => Seen(done) = Seen(cpu)
      /\ \/ suspended' = outer /\ Seen(cpu') = Seen(done)
         \/ suspended' = Append(outer, Seen(done))
  BY StepSeen
<1>2. cpu \in CpuType /\ suspended \in Seq(Sights) /\ turn = "cpu"
  BY DEF SuspendedInv, cpu_exec_next
<1> HIDE DEF done
<1>3. ASSUME outer = <<>> PROVE Main' = Seen(done)
  BY <1>1, <1>3 DEF Main
<1>4. CASE suspended = <<>>
  <2>1. outer = <<>> /\ Main = Seen(cpu)
    BY <1>4 DEF Returns, Main
  <2>2. Main' = Seen(done)
    BY <1>3, <2>1
  <2>3. CASE cpu.is_halted
    BY <1>1, <2>1, <2>2, <2>3
  <2>4. CASE ~cpu.is_halted
    <3>1. ReadsOwn(cpu) /\ LowersByPushing(cpu)
      BY <1>2, <1>4, <2>4 DEF ProgramContract, MainSeesItsOwn
    <3>2. Seen(Execute(cpu)) = Alone(Seen(cpu))
      BY <1>2, <2>4, <3>1, InstructionsSeeTheirOwn
    <3> QED BY <1>1, <2>1, <2>2, <3>2
  <2> QED BY <2>3, <2>4
<1>5. CASE suspended # <<>> /\ Len(suspended) = 1 /\ Returns(cpu)
  <2>1. outer = <<>> /\ suspended[1] \in Sights
    BY <1>2, <1>5, FirstStays
  <2>2. Restored(cpu, suspended[1])
    BY <1>2, <1>5 DEF ProgramContract, HandlersRestore
  <2>3. ~cpu.is_halted /\ N8(cpu) = RETI /\ suspended[1].sp \in Word
    BY <1>5, <2>1, SightType DEF Returns
  <2>4. Seen(Execute(cpu)) = suspended[1]
    BY <1>2, <2>2, <2>3, SeenReturn
  <2> QED BY <1>1, <1>3, <1>5, <2>1, <2>4 DEF Main
<1>6. CASE suspended # <<>> /\ ~(Len(suspended) = 1 /\ Returns(cpu))
  <2>1. outer # <<>> /\ outer[1] = suspended[1]
    BY <1>2, <1>6, FirstStays
  <2> HIDE DEF outer
  <2>2. suspended' # <<>> /\ suspended'[1] = outer[1]
    BY <1>1, <2>1, FirstStays
  <2> QED BY <1>6, <2>1, <2>2 DEF Main
<1> QED BY <1>4, <1>5, <1>6

\* Interrupts are invisible to the code they interrupt, for every program that
\* keeps the contract: however many requests come, nested or together, and at
\* whatever instruction, it sees what it would see if it ran alone.
THEOREM InterruptsInvisible == Spec /\ []ProgramContract => InterruptsTransparent
<1> DEFINE main == IF suspended = <<>> THEN Seen(cpu) ELSE suspended[1]
<1>1. Init => U!Init
  <2> SUFFICES ASSUME Init PROVE U!Init
    OBVIOUS
  <2>1. PICK cart \in DOMAIN Cartridges : cpu = Boot(cart)
    BY DEF Init
  <2>2. suspended = <<>>
    BY DEF Init
  <2>3. Seen(cpu) \in Starts
    BY <2>1 DEF Starts
  <2> QED BY <2>2, <2>3 DEF U!Init
<1>2. SuspendedInv /\ ProgramContract /\ [Next]_vars => [U!Next]_main
  <2> SUFFICES ASSUME SuspendedInv, ProgramContract, [Next]_vars
               PROVE  [U!Next]_main
    OBVIOUS
  <2>1. Main' = Main \/ Main' = Alone(Main)
    <3>1. CASE cpu_exec_next
      BY <3>1, StepTransparent
    <3>2. CASE ppu_refresh
      <4>1. CpuInv
        BY DEF CpuInv, SuspendedInv
      <4>2. Seen(cpu') = Seen(cpu) /\ UNCHANGED suspended
        BY <3>2, <4>1, RequestsUnseen
      <4> QED BY <4>2 DEF Main
    <3>3. CASE UNCHANGED vars
      BY <3>3 DEF vars, Main
    <3> QED BY <3>1, <3>2, <3>3 DEF Next
  <2>2. Main = main /\ Main' = main'
    BY DEF Main
  <2>3. main' = main \/ main' = Alone(main)
    BY <2>1, <2>2
  <2> QED BY <2>3 DEF U!Next
<1> QED BY <1>1, <1>2, SuspendedTyped, PTL DEF Spec, InterruptsTransparent, U!Spec

-----------------------------------------------------------------------------
(* What a handler starts with.                                              *)

LEMMA AlikeWritten ==
    ASSUME NEW s \in CpuType, NEW a \in Word, NEW v \in Int, CartridgeEnd <= a, a \notin Io
    PROVE  Alike({a}, s, monitor_wr_mem(s, a, v))
<1> DEFINE b == W8(v)
           x == monitor_wr_mem(s, a, v)
           m == Written(s.mem, a, b)
<1>1. a \in Int /\ W16(a) = a
  BY Words, Widths, Zenon
<1>2. x \in CpuType
  BY <1>1, WriteType
<1>3. x = [s EXCEPT !.mem = m]
  BY <1>1, WriteIs DEF WroteAt
<1>4. Agree({a}, s.mem, m)
  BY DEF Agree, Written, At
<1> HIDE DEF m, b, x
<1>5. /\ x.mem = m /\ x.reg = s.reg /\ x.f = s.f /\ x.sp = s.sp /\ x.pc = s.pc
      /\ x.cart = s.cart /\ x.window = s.window /\ x.booting = s.booting
  BY <1>3 DEF CpuType, CpuFields
<1> QED BY <1>2, <1>4, <1>5 DEF Alike, x

LEMMA AlikeTwice ==
    ASSUME NEW G, NEW H, NEW s, NEW t, NEW u, Alike(G, s, t), Alike(H, t, u)
    PROVE  Alike(G \cup H, s, u)
<1>1. Agree(G \cup H, s.mem, u.mem)
  BY DEF Alike, Agree
<1> QED BY <1>1 DEF Alike

\* A call shows the code it leaves nothing but PC and SP.
LEMMA CallUnseen ==
    ASSUME NEW s \in CpuType, HasRoom(s.sp), NEW a \in Word
    PROVE  LET t == CallTo(s, a)
           IN  /\ t.sp = W16(s.sp - 2) /\ Pushed(t) = s.pc
               /\ Seen([t EXCEPT !.sp = s.sp, !.pc = s.pc]) = Seen(s)
<1> DEFINE n == s.sp - 2
           lo == W8(s.pc)
           hi == s.pc \div 256
           p == [s EXCEPT !.sp = n]
           x == monitor_wr_mem(p, n, lo)
           y == monitor_wr_mem(x, n + 1, hi)
           t == CallTo(s, a)
<1>1. /\ s.sp \in Int /\ 0 <= s.sp /\ s.sp < 65536
      /\ StackBase \in Int /\ 0 <= StackBase /\ StackBase <= n
      /\ s.pc \in Word /\ KeepsWord(s.sp)
  BY Fields, Ranges, StackAssumption DEF HasRoom
<1>2. n \in Word /\ n + 1 \in Word /\ W16(s.sp - 2) = n /\ W16(s.sp - 1) = n + 1
  BY <1>1, Ranges DEF W16
<1>3. /\ CartridgeEnd <= n /\ n \notin Io /\ CartridgeEnd <= n + 1 /\ n + 1 \notin Io
  <2>1. Keeps(n) /\ Keeps(n + 1)
    BY <1>1, <1>2 DEF KeepsWord, BelowStack
  <2>2. n # 65535 /\ n + 1 # 65535
    BY <1>1
  <2> HIDE DEF n
  <2> QED BY <2>1, <2>2 DEF Keeps, Io
<1>4. lo \in Int /\ hi \in Int
  <2>0. s.pc \in Word
    BY <1>1
  <2>1. s.pc \in Int /\ hi \in Byte
    BY <2>0, Words, Zenon
  <2>2. lo \in Byte
    BY <2>1, Widths
  <2> HIDE DEF lo, hi
  <2> QED BY <2>1, <2>2, Words
<1>5. t = [y EXCEPT !.pc = a]
  <2> HIDE DEF n
  <2>1. Push(s, s.pc) = WR_WORD(p, p.sp, s.pc) /\ p.sp = n
    BY <1>2 DEF Push, CpuType, CpuFields
  <2>2. p.pc = s.pc
    BY DEF CpuType, CpuFields
  <2>3. Push(s, s.pc) = y
    BY <2>1 DEF WR_WORD
  <2> QED BY <2>3 DEF CallTo
<1> HIDE DEF n, lo, hi
<1>6. /\ p \in CpuType /\ p.reg = s.reg /\ p.f = s.f /\ p.sp = n /\ p.pc = s.pc /\ p.mem = s.mem
      /\ p.cart = s.cart /\ p.window = s.window /\ p.booting = s.booting
  BY <1>2 DEF CpuType, CpuFields
<1> HIDE DEF p
<1>7. Alike({n}, p, x)
  BY <1>2, <1>3, <1>4, <1>6, AlikeWritten
<1>8. x \in CpuType
  BY <1>7 DEF Alike
<1>9. Alike({n + 1}, x, y)
  BY <1>2, <1>3, <1>4, <1>8, AlikeWritten
<1> HIDE DEF x, y
<1>10. Alike({n, n + 1}, p, y)
  <2>1. Alike({n} \cup {n + 1}, p, y)
    BY <1>7, <1>9, AlikeTwice
  <2>2. {n} \cup {n + 1} = {n, n + 1}
    OBVIOUS
  <2> QED BY <2>1, <2>2
<1> DEFINE r == [t EXCEPT !.sp = s.sp, !.pc = s.pc]
<1>11. /\ r \in CpuType /\ r.reg = y.reg /\ r.f = y.f /\ r.sp = s.sp /\ r.pc = s.pc
       /\ r.mem = y.mem /\ r.cart = y.cart /\ r.window = y.window /\ r.booting = y.booting
  <2>1. y \in CpuType
    BY <1>10 DEF Alike
  <2> HIDE DEF t
  <2>2. /\ t \in CpuType /\ t.reg = y.reg /\ t.f = y.f /\ t.mem = y.mem
        /\ t.cart = y.cart /\ t.window = y.window /\ t.booting = y.booting
    BY <1>5, <2>1 DEF CpuType, CpuFields
  <2>3. s.sp \in Word /\ s.pc \in Word
    BY Fields
  <2> QED BY <2>2, <2>3 DEF CpuType, CpuFields
<1> HIDE DEF r
<1>12. Alike(Hidden(s.sp), s, r)
  <2>1. Agree({n, n + 1}, s.mem, r.mem)
    BY <1>6, <1>10, <1>11 DEF Alike
  <2>2. \A b \in Word : b \in {n, n + 1} => b \in Hidden(s.sp)
    BY <1>1 DEF Hidden, Hides, n
  <2>3. Agree(Hidden(s.sp), s.mem, r.mem)
    BY <2>1, <2>2, AgreeMore
  <2> QED BY <1>6, <1>10, <1>11, <2>3 DEF Alike
<1>13. Seen(r) = Seen(s)
  BY <1>12, SeenAlike
<1>14. t.sp = W16(s.sp - 2)
  BY CallType
<1>15. Pushed(t) = s.pc
  <2> DEFINE e == Push(s, s.pc)
  <2>1. e \in CpuType
    BY <1>1, PushType DEF Inside
  <2>2. t = [e EXCEPT !.pc = a]
    BY DEF CallTo
  <2> HIDE DEF e, t
  <2>3. t \in CpuType /\ SameMemory(e, t) /\ t.sp = e.sp
    BY <2>1, <2>2 DEF SameMemory, CpuType, CpuFields
  <2> QED BY <1>1, <2>3, OnStack DEF e
<1> QED BY <1>13, <1>14, <1>15 DEF r

\* The interrupt that a step accepts finds room on the stack.
LEMMA StepHasRoom ==
    ASSUME SuspendedInv, InterruptsHaveRoom', cpu_exec_next, Accepts(Clocked(cpu))
    PROVE  HasRoom(Clocked(cpu).sp)
<1> DEFINE done == Clocked(cpu)
           outer == IF Returns(cpu) THEN Front(suspended) ELSE suspended
<1>1. /\ outer \in Seq(Sights) /\ Seen(done) \in Sights
      /\ suspended' = Append(outer, Seen(done))
  BY StepSeen
<1> HIDE DEF done, outer
<1>2. suspended'[Len(suspended')] = Seen(done) /\ Len(suspended') \in DOMAIN suspended'
  BY <1>1
<1>3. Seen(done).sp = done.sp
  BY DEF Seen
<1>4. \A i \in DOMAIN suspended' : HasRoom(suspended'[i].sp)
  BY DEF InterruptsHaveRoom
<1> QED BY <1>2, <1>3, <1>4 DEF done

LEMMA RoomIsAway ==
    ASSUME NEW s \in CpuType, HasRoom(s.sp)
    PROVE  PushesAway(s)
<1>1. /\ s.sp \in Int /\ 0 <= s.sp /\ s.sp < 65536 /\ 0 <= s.sp - 2 /\ KeepsWord(s.sp)
  BY Fields, Ranges, StackAssumption DEF HasRoom
<1>2. Keeps(W16(s.sp - 1)) /\ Keeps(W16(s.sp - 2))
  BY <1>1 DEF KeepsWord, BelowStack
<1>3. W16(s.sp - 1) # 65535 /\ W16(s.sp - 2) # 65535
  BY <1>1 DEF W16
<1> QED BY <1>2, <1>3 DEF PushesAway, Keeps, Io

LEMMA StepEnters ==
    ASSUME SuspendedInv, ProgramContract', cpu_exec_next, Accepts(Clocked(cpu))
    PROVE  Restored(cpu', Last(suspended'))
<1> DEFINE done == Clocked(cpu)
           outer == IF Returns(cpu) THEN Front(suspended) ELSE suspended
           k == Handler(Min(Pending(done)))
<1>1. /\ done \in CpuType /\ outer \in Seq(Sights) /\ Seen(done) \in Sights
      /\ cpu' = handle_intrs(done) /\ suspended' = Append(outer, Seen(done))
  BY StepSeen
<1> HIDE DEF done, outer
<1>2. Last(suspended') = Seen(done)
  BY <1>1 DEF Last
<1>3. Seen(done).sp = done.sp /\ Seen(done).pc = done.pc
  BY DEF Seen
<1>4. HasRoom(done.sp)
  BY StepHasRoom DEF ProgramContract, done
<1>5. PICK c \in CpuType :
         /\ cpu' = CallTo(c, k) /\ k \in Word
         /\ c.reg = done.reg /\ c.f = done.f /\ c.sp = done.sp /\ c.pc = done.pc
         /\ c.mem = done.mem /\ c.cart = done.cart /\ c.window = done.window
         /\ c.booting = done.booting
  BY <1>1, Accepted DEF done
<1> HIDE DEF k
<1>6. Seen(c) = Seen(done)
  BY <1>5, SeenTwin DEF Twin
<1>7. /\ cpu'.sp = W16(c.sp - 2) /\ Pushed(cpu') = c.pc
      /\ Seen([cpu' EXCEPT !.sp = c.sp, !.pc = c.pc]) = Seen(c)
  BY <1>4, <1>5, CallUnseen
<1> QED BY <1>2, <1>3, <1>5, <1>6, <1>7 DEF Restored

\* A handler starts with what it has to leave: one that touches nothing keeps
\* its part of the contract.
HandlersFindWhatTheyLeave ==
    [][cpu_exec_next /\ Accepts(Clocked(cpu)) => Restored(cpu', Last(suspended'))]_vars

\* process_intr leaves below the stack the PC of the code it interrupts, and of
\* what that code sees changes PC and SP alone.
THEOREM HandlersStartRestored == Spec /\ []ProgramContract => HandlersFindWhatTheyLeave
<1> DEFINE A == cpu_exec_next /\ Accepts(Clocked(cpu)) => Restored(cpu', Last(suspended'))
<1>1. SuspendedInv /\ ProgramContract' => A
  BY StepEnters
<1>2. SuspendedInv /\ ProgramContract' => [A]_vars
  BY <1>1
<1> QED BY <1>2, SuspendedTyped, PTL DEF HandlersFindWhatTheyLeave

\* With room on the stack for every return address, no interrupt is in the way
\* of the clocks.
THEOREM ClocksTrueWithRoom == Spec /\ []InterruptsHaveRoom => ClocksCountCycles
<1> DEFINE A ==
      cpu_exec_next =>
          LET t == Execute(cpu)
          IN  /\ DivTime(cpu') = (DivTime(t) + cpu'.cycles) % 16384
              /\ t.tima_enabled /\ t.tac_divider > 4 /\ t.tac_counter < t.tac_divider
                    => TimaCounts(t, cpu')
<1>1. SuspendedInv /\ InterruptsHaveRoom' => A
  <2> SUFFICES ASSUME SuspendedInv, InterruptsHaveRoom', cpu_exec_next PROVE A
    OBVIOUS
  <2>1. CpuInv
    BY DEF SuspendedInv, CpuInv
  <2>2. Clocked(cpu) \in CpuType
    BY StepSeen
  <2>3. Accepts(Clocked(cpu)) => PushesAway(Clocked(cpu))
    BY <2>2, StepHasRoom, RoomIsAway
  <2> QED BY <2>1, <2>3, StepCounts
<1>2. SuspendedInv /\ InterruptsHaveRoom' => [A]_vars
  BY <1>1
<1> QED BY <1>2, SuspendedTyped, PTL DEF ClocksCountCycles

-----------------------------------------------------------------------------
(* Requests.                                                                *)

\* No request is lost between ppu_refresh, the clocks and handle_intrs, however
\* many come together, with room on the stack for every return address.
THEOREM RequestsKept == Spec /\ []InterruptsHaveRoom => RequestsWaitForHandlers
<1> DEFINE A == \A k \in Interrupts :
              k \in Bits(cpu.if_reg) /\ k \notin Bits(cpu'.if_reg)
                  => turn = "cpu" /\ (cpu'.pc = Handler(k) \/ k \notin Bits(Execute(cpu).if_reg))
<1>1. SuspendedInv /\ InterruptsHaveRoom' /\ [Next]_vars => [A]_vars
  <2> SUFFICES ASSUME SuspendedInv, InterruptsHaveRoom', [Next]_vars,
                      NEW k \in Interrupts, k \in Bits(cpu.if_reg), k \notin Bits(cpu'.if_reg)
               PROVE  \/ /\ turn = "cpu"
                         /\ cpu'.pc = Handler(k) \/ k \notin Bits(Execute(cpu).if_reg)
                      \/ UNCHANGED vars
    OBVIOUS
  <2>1. CASE cpu_exec_next
    <3>1. Clocked(cpu) \in CpuType /\ cpu' = handle_intrs(Clocked(cpu)) /\ cpu \in CpuType
      BY <2>1, StepSeen DEF SuspendedInv
    <3>2. Accepts(Clocked(cpu)) => PushesAway(Clocked(cpu))
      BY <2>1, <3>1, StepHasRoom, RoomIsAway
    <3>3. turn = "cpu"
      BY <2>1 DEF cpu_exec_next
    <3>4. CASE k \in Bits(Execute(cpu).if_reg)
      <4>1. k \in Bits(cpu'.if_reg) \/ cpu'.pc = Handler(k)
        BY <3>1, <3>2, <3>4, RequestsWait
      <4> QED BY <3>3, <4>1
    <3> QED BY <3>3, <3>4
  <2>2. CASE ppu_refresh
    <3>1. ASSUME NEW S, cpu' = [cpu EXCEPT !.if_reg = OfBits(Bits(@) \cup S)]
          PROVE  k \in Bits(cpu'.if_reg)
      <4> DEFINE T == Bits(cpu.if_reg) \cup S
                 n == OfBits(T)
      <4>1. k \in T
        OBVIOUS
      <4>2. k \in Bits(n)
        BY <4>1, KeptBits
      <4>3. cpu' = [cpu EXCEPT !.if_reg = n]
        BY <3>1
      <4> HIDE DEF n
      <4>4. cpu'.if_reg = n
        BY <4>3 DEF SuspendedInv, CpuType, CpuFields
      <4> QED BY <4>2, <4>4
    <3> QED BY <2>2, <3>1 DEF ppu_refresh
  <2>3. CASE UNCHANGED vars
    BY <2>3
  <2> QED BY <2>1, <2>2, <2>3 DEF Next
<1> QED BY <1>1, SuspendedTyped, PTL DEF Spec, RequestsWaitForHandlers
=============================================================================
