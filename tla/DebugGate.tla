----------------------------- MODULE DebugGate -----------------------------
(***************************************************************************)
(* What run control promises a debugger: a machine that executes only      *)
(* while it is granted, and an inspector that looks at it only while it is *)
(* neither granted nor executing.                                          *)
(***************************************************************************)
VARIABLES
    granted,        \* the machine may start an instruction
    executing,      \* the machine is between instructions it started
    inspecting      \* the debugger reads registers and memory

vars == <<granted, executing, inspecting>>

Init == granted \in BOOLEAN /\ ~executing /\ ~inspecting

Start ==
    /\ granted /\ ~executing /\ ~inspecting
    /\ executing' = TRUE
    /\ UNCHANGED <<granted, inspecting>>

\* The machine comes to rest: told to, or at a breakpoint.
Finish ==
    /\ executing
    /\ executing' = FALSE
    /\ granted' = granted \/ granted' = FALSE
    /\ UNCHANGED inspecting

Grant ==
    /\ ~granted /\ ~executing /\ ~inspecting
    /\ granted' = TRUE
    /\ UNCHANGED <<executing, inspecting>>

\* The grant is taken back; the machine may still have to come to rest.
Revoke ==
    /\ granted
    /\ granted' = FALSE
    /\ UNCHANGED <<executing, inspecting>>

BeginInspect ==
    /\ ~granted /\ ~executing /\ ~inspecting
    /\ inspecting' = TRUE
    /\ UNCHANGED <<granted, executing>>

EndInspect ==
    /\ inspecting
    /\ inspecting' = FALSE
    /\ UNCHANGED <<granted, executing>>

Next == Start \/ Finish \/ Grant \/ Revoke \/ BeginInspect \/ EndInspect

Spec == Init /\ [][Next]_vars
=============================================================================
