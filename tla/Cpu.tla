--------------------------------- MODULE Cpu --------------------------------
(***************************************************************************)
(* The processor (src/emu/cpu/cpu.c): an instruction, the two clocks that  *)
(* count its cycles, and the interrupt that may follow it.                 *)
(*                                                                         *)
(* exec_next of monitor.c alternates cpu_exec_next with ppu_refresh.  All  *)
(* that the picture unit does to the processor is to request interrupts,   *)
(* so here it requests any it can, in at most MaxRequests of its turns.    *)
(*                                                                         *)
(* A definition named <definition>_<slip> is not part of the model: it is  *)
(* the definition after a plausible slip in the code.                      *)
(***************************************************************************)
EXTENDS Software, SequencesExt

CONSTANT MaxRequests    \* bound on the turns the picture unit requests in

ASSUME RequestsAssumption == MaxRequests \in Nat

VARIABLES cpu,          \* the structure cpu
          turn,         \* whose turn it is in exec_next: "cpu" or "ppu"
          requests,     \* the turns the picture unit may still request in
          suspended     \* history: what the interrupted code saw, outermost first

vars == <<cpu, turn, requests, suspended>>

Init ==
    /\ \E cart \in DOMAIN Cartridges : cpu = Boot(cart)
    /\ turn = "cpu"
    /\ requests = MaxRequests
    /\ suspended = <<>>

-----------------------------------------------------------------------------
(* exec_next                                                                *)

Returns(s) == ~s.is_halted /\ N8(s) = RETI /\ suspended # <<>>

cpu_exec_next ==
    LET done == Clocked(cpu)
        next == handle_intrs(done)
        outer == IF Returns(cpu) THEN Front(suspended) ELSE suspended
    IN /\ turn = "cpu"
       /\ turn' = "ppu"
       /\ cpu' = next
       /\ suspended' = IF next.sp # done.sp THEN Append(outer, Seen(done)) ELSE outer
       /\ UNCHANGED requests

\* ppu_refresh may request nothing, either interrupt, or both.
ppu_refresh ==
    /\ turn = "ppu"
    /\ turn' = "cpu"
    /\ \/ UNCHANGED <<cpu, requests>>
       \/ /\ requests > 0
          /\ requests' = requests - 1
          /\ \E S \in (SUBSET {VBLANK, LCD}) \ {{}} :
                cpu' = [cpu EXCEPT !.if_reg = OfBits(Bits(@) \cup S)]
    /\ UNCHANGED suspended

Next == cpu_exec_next \/ ppu_refresh

\* monitor_run calls exec_next without end: the turn passes for ever, and only
\* a step of Next passes it.
TurnPasses == turn' \in {"cpu", "ppu"} \ {turn}
Spec == Init /\ [][Next]_vars /\ WF_turn(TurnPasses)

-----------------------------------------------------------------------------
(* Properties                                                               *)

\* Interrupts are invisible to the code they interrupt: what the program sees
\* is what it would see if it ran alone.  A handler that ends in RETI finds
\* PC and SP as process_intr left them, whatever ran meanwhile (nested
\* handlers, several requests at once, a request during RETI itself).
U == INSTANCE Uninterrupted
        WITH Starts <- Starts, After <- Alone,
             main <- IF suspended = <<>> THEN Seen(cpu) ELSE suspended[1]
InterruptsTransparent == U!Spec

\* What InterruptsTransparent asks of a program: its main code reads nothing
\* that interrupts change, whatever instruction it is at, and takes its stack
\* down by pushing alone, into memory.
Sees(s, a) == W16(a) \notin DOMAIN IoRegister /\ ~Hides(s.sp, W16(a))

ReadsHL(x, y, z) ==
    \/ x = 0 /\ z = 2 /\ y \in {5, 7}
    \/ x = 0 /\ z \in {4, 5} /\ y = 6
    \/ x = 1 /\ z = 6 /\ y # 6
    \/ x = 2 /\ z = 6
Pops(x, y, z) ==
    \/ x = 3 /\ z = 0 /\ y \in 0..3
    \/ x = 3 /\ z = 1 /\ y \notin {5, 7}
Pushes(x, y, z) ==
    \/ x = 3 /\ z = 4 /\ y \in 0..3
    \/ x = 3 /\ z = 5 /\ y \in {0, 1, 2, 4, 6}
    \/ x = 3 /\ z = 7

\* What an instruction reads besides its own bytes; t is the state after the
\* fetch of its opcode.
SeesData(t, x, y, z) ==
    /\ ReadsHL(x, y, z) => Sees(t, HL(t))
    /\ Pops(x, y, z) => Sees(t, t.sp) /\ Sees(t, t.sp + 1)
    /\ x = 0 /\ z = 2 /\ y = 1 => Sees(t, Get16(t, "BC"))
    /\ x = 0 /\ z = 2 /\ y = 3 => Sees(t, Get16(t, "DE"))
    /\ x = 3 /\ z = 0 /\ y = 6 => Sees(t, HighPage(N8(t)))
    /\ x = 3 /\ z = 2 /\ y = 6 => Sees(t, HighPage(t.reg["C"]))
    /\ x = 3 /\ z = 2 /\ y = 7 => Sees(t, N16(t))

ReadsOwn(s) ==
    LET op == N8(s)
        t == ADVANCE_PC(s, 1)
    IN  /\ Sees(s, s.pc) /\ Sees(s, s.pc + 1) /\ Sees(s, s.pc + 2)
        /\ IF op = OPCODE_PREFIX
             THEN N8(t) % 8 = 6 => Sees(s, HL(s))
             ELSE SeesData(t, op \div 64, (op \div 8) % 8, op % 8)
LowersByPushing(s) ==
    LET op == N8(s)
    IN Execute(s).sp < s.sp =>
          Pushes(op \div 64, (op \div 8) % 8, op % 8) /\ KeepsWord(s.sp)

\* And of its handlers: an interrupt comes where the stack has room for its
\* return address, and when the outermost handler is at its RETI, SP and the
\* word there, the registers, the flags and the memory that the main code sees
\* are as the handler found them.
HasRoom(sp) == KeepsWord(sp) /\ StackBase <= sp - 2
Restored(s, seen) ==
    /\ s.sp = W16(seen.sp - 2) /\ Pushed(s) = seen.pc
    /\ Seen([s EXCEPT !.sp = seen.sp, !.pc = seen.pc]) = seen

MainSeesItsOwn ==
    turn = "cpu" /\ suspended = <<>> /\ ~cpu.is_halted
        => ReadsOwn(cpu) /\ LowersByPushing(cpu)
HandlersRestore ==
    turn = "cpu" /\ Len(suspended) = 1 /\ Returns(cpu) => Restored(cpu, suspended[1])
InterruptsHaveRoom == \A i \in DOMAIN suspended : HasRoom(suspended[i].sp)

ProgramContract == MainSeesItsOwn /\ HandlersRestore /\ InterruptsHaveRoom

\* Both clocks count every cycle.  DIV and the counter behind it move forward
\* by the cycles of the step, the wrap of the six bit counter included, and a
\* program that writes DIV loses its upper part alone.  With a divider of 16 or
\* more, TIMA and its counter do so too, or TIMA starts again at TMA with its
\* interrupt requested or already taken.  (With a divider of 4 an instruction of
\* up to 6 cycles may be worth two ticks, and counts for one.)
DivTime(s) == 64 * s.div_reg + s.div_counter
TimaTime(s) == s.tac_divider * s.tima_reg + s.tac_counter

TimaCounts(t, s) ==
    LET passed == TimaTime(t) + s.cycles
        full == 256 * t.tac_divider
    IN  IF passed < full
          THEN TimaTime(s) = passed
          ELSE /\ TimaTime(s) = t.tac_divider * t.tma_reg + passed - full
               /\ TIMER \in Bits(s.if_reg) \/ s.pc = Handler(TIMER)

ClocksCountCycles ==
    [][cpu_exec_next =>
          LET t == Execute(cpu)
          IN  /\ DivTime(cpu') = (DivTime(t) + cpu'.cycles) % 16384
              /\ t.tima_enabled /\ t.tac_divider > 4 /\ t.tac_counter < t.tac_divider
                    => TimaCounts(t, cpu')]_vars

\* The timer goes on while the processor is halted, so a program that halts
\* with the timer's interrupt enabled goes on.
TimerEndsHalt ==
    cpu.is_halted /\ cpu.tima_enabled /\ TIMER \in Bits(cpu.ie_reg)
        ~> ~cpu.is_halted

\* No request is lost, however many come together: its bit leaves IF only when
\* its handler is entered, or when the instruction itself wrote IF.
RequestsWaitForHandlers ==
    [][\A k \in Interrupts :
          k \in Bits(cpu.if_reg) /\ k \notin Bits(cpu'.if_reg)
              => turn = "cpu" /\ (cpu'.pc = Handler(k) \/ k \notin Bits(Execute(cpu).if_reg))]_vars

\* And a request that IE enables does not wait for ever: in the end its handler is
\* entered, which others and the handler that runs when it comes only delay, or
\* the program is about to take it back by writing IF, as the one does that polls
\* with interrupts off.
WrittenOff(k) == turn = "cpu" /\ k \in Pending(cpu) /\ k \notin Bits(Execute(cpu).if_reg)
RequestsAreTaken ==
    /\ RequestsWaitForHandlers
    /\ \A k \in {VBLANK, LCD, TIMER} :
          k \in Pending(cpu) ~> cpu.pc = Handler(k) \/ WrittenOff(k)
=============================================================================
