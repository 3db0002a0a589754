------------------------------ MODULE Software ------------------------------
(***************************************************************************)
(* What a program sees of the machine it runs on: its registers, flags and *)
(* memory, and neither the registers of the machine nor the part of the    *)
(* stack below the stack pointer nor the memory its interrupt handlers     *)
(* keep for themselves.                                                    *)
(***************************************************************************)
EXTENDS Processor

CONSTANTS Private,      \* the addresses the handlers alone use
          StackBase     \* the stack lies between here and the top of memory

ASSUME StackAssumption == StackBase \in Word /\ Private \subseteq Word

\* An address hidden from a program whose stack pointer is sp.
Hides(sp, a) == a \in Private \/ (StackBase <= a /\ a < sp)
Shown(s) == {a \in DOMAIN s.mem : ~Hides(s.sp, a)}
Seen(s) ==
    [reg |-> s.reg, f |-> s.f, sp |-> s.sp, pc |-> s.pc,
     mem |-> [a \in Shown(s) |-> s.mem[a]],
     cart |-> s.cart, window |-> s.window, booting |-> s.booting]

\* A machine on which a program would go on from what it sees.
Resume(seen) ==
    [Boot(seen.cart) EXCEPT !.reg = seen.reg, !.f = seen.f, !.sp = seen.sp,
                            !.pc = seen.pc, !.mem = seen.mem,
                            !.window = seen.window, !.booting = seen.booting]

\* What it sees at first, and after an instruction that nothing interrupts.
Starts == {Seen(Boot(cart)) : cart \in DOMAIN Cartridges}
Alone(seen) == Seen(Execute(Resume(seen)))
=============================================================================
