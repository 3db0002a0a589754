---------------------------- MODULE Uninterrupted ---------------------------
(***************************************************************************)
(* A program that runs alone: instruction after instruction, no interrupt, *)
(* no clock, and a HALT that waits for nothing.                            *)
(***************************************************************************)
CONSTANTS Starts,       \* what programs may see first
          After(_)      \* what a program sees after its next instruction

VARIABLE main           \* what the program sees

Init == main \in Starts
Next == main' = After(main)
Spec == Init /\ [][Next]_main
=============================================================================
