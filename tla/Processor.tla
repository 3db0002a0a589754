------------------------------ MODULE Processor -----------------------------
(***************************************************************************)
(* What exec_next has the processor do after an instruction of             *)
(* Instructions: count its cycles in the two clocks, and take an           *)
(* interrupt (src/emu/cpu/cpu.c).                                          *)
(*                                                                         *)
(* A definition named <definition>_<slip> is not part of the model: it is  *)
(* the definition after a plausible slip in the code.                      *)
(***************************************************************************)
EXTENDS Instructions, FiniteSetsExt

\* The structure cpu as the process starts with it, all zero, and a cartridge
\* under the boot image.
Boot(cart) ==
    [reg |-> [r \in Registers |-> 0], f |-> {}, sp |-> 0, pc |-> 0,
     mem |-> <<>>, cart |-> cart, window |-> 1, booting |-> TRUE,
     ime_enabled |-> FALSE, is_halted |-> FALSE, cycles |-> 0,
     disable_bootrom |-> 0, ie_reg |-> 0, if_reg |-> 0, div_reg |-> 0, div_counter |-> 0,
     tima_enabled |-> FALSE, tima_reg |-> 0, tma_reg |-> 0, tac_reg |-> 0,
     tac_counter |-> 0, tac_divider |-> 0]

\* The bits of IF and IE, and those cpu_request_intr is called with.
Interrupts == 0..4
VBLANK == 0
LCD == 1
TIMER == 2

-----------------------------------------------------------------------------
(* The clocks                                                               *)

cpu_request_intr(s, k) == [s EXCEPT !.if_reg = OfBits(Bits(@) \cup {k})]

\* A counter of six bits: DIV advances when it wraps.
CountDiv(s, cycles) ==
    LET n == (s.div_counter + cycles) % 64
    IN [s EXCEPT !.div_counter = n,
                 !.div_reg = IF n < s.div_counter THEN W8(@ + 1) ELSE @]

IncTima(s) ==
    IF s.tima_reg < 255
      THEN [s EXCEPT !.tima_reg = @ + 1]
      ELSE cpu_request_intr([s EXCEPT !.tima_reg = s.tma_reg], TIMER)

\* TIMA advances by one when the counter reaches the divider, however far
\* past it the instruction went.
CountTima_Restarts(s, cycles) ==
    LET n == s.tac_counter + cycles
    IN CASE ~s.tima_enabled -> s
         [] s.tima_enabled /\ n < s.tac_divider -> [s EXCEPT !.tac_counter = n]
         [] s.tima_enabled /\ n >= s.tac_divider ->
               [IncTima(s) EXCEPT !.tac_counter = 0]
CountTima(s, cycles) ==
    LET n == s.tac_counter + cycles
    IN CASE ~s.tima_enabled -> s
         [] s.tima_enabled /\ n < s.tac_divider -> [s EXCEPT !.tac_counter = n]
         [] s.tima_enabled /\ n >= s.tac_divider ->
               [IncTima(s) EXCEPT !.tac_counter = n % s.tac_divider]

-----------------------------------------------------------------------------
(* Interrupts                                                               *)

Pending(s) == Bits(s.if_reg) \cap Bits(s.ie_reg)
Handler(k) == 64 + 8 * k

\* The first instruction of the handler comes next, and its RET resumes here.
process_intr_SkipsOne(s, k) == CallTo([s EXCEPT !.pc = W16(@ + 1)], Handler(k))
process_intr(s, k) == CallTo(s, Handler(k))

Accepts(s) == s.ime_enabled /\ Pending(s) # {}
Wake(s) == [s EXCEPT !.is_halted = FALSE]
Accept_KeepsRequest(s) ==
    LET k == Min(Pending(s))
    IN process_intr([Wake(s) EXCEPT !.ime_enabled = FALSE], k)
Accept_ClearsAll(s) ==
    LET k == Min(Pending(s))
    IN process_intr([Wake(s) EXCEPT !.ime_enabled = FALSE, !.if_reg = 0], k)
Accept(s) ==
    LET k == Min(Pending(s))
    IN process_intr([Wake(s) EXCEPT !.ime_enabled = FALSE,
                                    !.if_reg = OfBits(Bits(@) \ {k})], k)

handle_intrs_HaltedOnly(s) ==
    IF s.is_halted /\ Accepts(s) THEN Accept(s) ELSE s
\* A halted processor wakes for an interrupt it does not accept.
handle_intrs(s) ==
    CASE Accepts(s) -> Accept(s)
      [] ~s.ime_enabled /\ s.is_halted /\ Pending(s) # {} -> Wake(s)
      [] OTHER -> s

\* The state after the instruction and its clocks.
Clocked(s) ==
    LET t == Execute(s) IN CountTima(CountDiv(t, t.cycles), t.cycles)

-----------------------------------------------------------------------------
(* For the laws of Cpu and InstructionLaws                                  *)

RETI == 217

\* An address at which what is written can be read again: memory, and the last
\* byte of the address space (IE).
Keeps(a) == CartridgeEnd <= a /\ a \notin DOMAIN IoRegister \ {65535}
\* A stack pointer below which a word can be pushed.
BelowStack(sp) == {W16(sp - 1), W16(sp - 2)}
KeepsWord(sp) == sp \in Word /\ \A a \in BelowStack(sp) : Keeps(a)
=============================================================================
