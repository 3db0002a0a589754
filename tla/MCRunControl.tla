--------------------------- MODULE MCRunControl ---------------------------
(* Instances of RunControl for TLC. *)
EXTENDS RunControl

Addrs2 == 0..1
Addrs3 == 0..2
NoBound == -1

\* Every request but MONITOR_RESUME: it wakes nobody, so a client that resumes
\* with it may wait for ever.
Debugger == Kinds \ {"MONITOR_RESUME"}
=============================================================================
