------------------------- MODULE RunControlProofs -------------------------
(***************************************************************************)
(* Proofs about RunControl, for every set of addresses, every repertoire   *)
(* of the client and every bound.                                          *)
(***************************************************************************)
EXTENDS RunControl, SequenceTheorems, WellFoundedInduction, TLAPS

-----------------------------------------------------------------------------
(* The operations on the list yield lists of addresses.                     *)

\* list_for_each stops at a first match when there is a match.
LEMMA FirstMatchType ==
    ASSUME NEW list \in Lists, NEW a \in Addr, OnList(list, a)
    PROVE  FirstMatch(list, a) \in 1..Len(list) /\ list[FirstMatch(list, a)] =
            a
  <1> DEFINE Matches == {i \in 1..Len(list) : list[i] = a}
  <1>1. DOMAIN list = 1..Len(list) /\ Len(list) \in Nat
    BY LenProperties DEF Lists
  <1>2. Matches \subseteq Nat /\ Matches # {}
    BY <1>1 DEF OnList
  <1>3. PICK m \in Matches : \A k \in Matches : <<k, m>> \notin OpToRel(<,
          Nat)
    <2> HIDE DEF Matches
    <2> QED BY <1>2, WFMin, NatLessThanWellFounded
  <1>4. \A k \in DOMAIN list : k < m => list[k] # a
    BY <1>1, <1>2, <1>3 DEF OpToRel
  <1> QED BY <1>1, <1>4 DEF FirstMatch

\* list_add: appending keeps a list.
LEMMA AddType ==
    ASSUME NEW list \in Lists, NEW a \in Addr
    PROVE  list_add(list, a) \in Lists
  BY DEF Lists, list_add

\* list_del: closing the gap keeps a list.
LEMMA DelType ==
    ASSUME NEW list \in Lists, NEW i \in 1..Len(list)
    PROVE  list_del(list, i) \in Lists
  <1>1. SubSeq(list, 1, i - 1) \in Seq(Addr)
    BY SubSeqProperties DEF Lists
  <1>2. SubSeq(list, i + 1, Len(list)) \in Seq(Addr)
    BY SubSeqProperties DEF Lists
  <1> QED BY <1>1, <1>2, ConcatProperties DEF list_del, Lists

\* handle_control_flow_delete: where it does not fault, it leaves a list.
LEMMA DeletedType ==
    ASSUME breakpoint_list \in Lists, req.addr \in Addr, ~DeleteFaults
    PROVE  Deleted \in Lists
  <1> DEFINE list == breakpoint_list
             target == DeleteTarget(list, req.addr)
  <1>1. CASE ~DeleteFinds(list, req.addr)
    BY <1>1 DEF Deleted
  <1>2. CASE DeleteFinds(list, req.addr) /\ target = 0
    BY <1>2 DEF Deleted, list_remove
  <1>3. CASE DeleteFinds(list, req.addr) /\ target # 0
    <2>1. Len(list) \in Nat /\ DOMAIN list = 1..Len(list)
      BY LenProperties DEF Lists
    <2>2. target \in Addr /\ OnList(list, target)
      <3>1. CASE req.addr = 0
        <4>1. Len(list) >= 1
          BY <1>3, <3>1, <2>1, EmptySeq DEF DeleteFinds, Lists
        <4>2. list[1] \in Addr
          BY <4>1, <2>1, ElementOfSeq DEF Lists
        <4> QED BY <3>1, <4>1, <4>2, <2>1 DEF DeleteTarget, OnList
      <3>2. CASE req.addr # 0
        BY <3>2, <1>3 DEF DeleteTarget, DeleteFinds
      <3> QED BY <3>1, <3>2
    <2>3. FirstMatch(list, target) \in 1..Len(list)
      BY <2>2, FirstMatchType
    <2>4. RemovedPosition(list, target) \in 1..Len(list)
      BY <2>1, <2>3, <1>3 DEF DeleteFaults, list_remove_faults,
         RemovedPosition
    <2> QED BY <2>4, <1>3, DelType DEF Deleted, list_remove
  <1> QED BY <1>1, <1>2, <1>3

\* pthread_cond_signal wakes at most one sleeper, and one if there is one.
LEMMA SignalledProperties ==
    ASSUME NEW sleepers, NEW rest \in Signalled(sleepers)
    PROVE  /\ rest \subseteq sleepers
           /\ \A t \in sleepers : sleepers = {t} => rest = {}
  <1>1. CASE sleepers = {}
    BY <1>1 DEF Signalled
  <1>2. CASE sleepers # {}
    <2>1. PICK t \in sleepers : rest = sleepers \ {t}
      BY <1>2 DEF Signalled
    <2> QED BY <2>1
  <1> QED BY <1>1, <1>2

\* What the client sends is a request of a known kind with an address.
LEMMA RequestsType ==
    /\ Requests \subseteq [kind : Kinds, addr : Addr]
    /\ \A r \in Requests : r.kind \in Repertoire
    /\ "none" \notin Kinds
  BY RunControlAssumption, AddrAssumption
  DEF Requests, Kinds, ControlFlowKinds, ResumeKinds, MonitorKinds

-----------------------------------------------------------------------------
(* Type correctness                                                         *)

\* The variables keep the types of their declarations.
THEOREM TypeCorrect == Spec => []TypeOK
  <1>1. Init => TypeOK
    <2> SUFFICES ASSUME Init PROVE TypeOK
      OBVIOUS
    <2>1. server_running \in BOOLEAN
      BY DEF Init
    <2>2. breakpoint_list \in Lists
      BY EmptySeq DEF Init, Lists
    <2>3. /\ req \in [kind : Kinds \cup {"none"}, addr : Addr]
          /\ req.kind = "none"
      BY AddrAssumption DEF Init, NoRequest
    <2>4. /\ budget \in Int
          /\ steps \in 0..MaxSteps
          /\ notice \in Addr \cup {NoNotice}
          /\ until_addr \in Addr /\ reg_pc \in Addr
      BY RunControlAssumption, AddrAssumption DEF Init, NoNotice, MaxSteps
    <2>5. /\ pcE \in EmuPCs /\ pcS \in SrvPCs /\ pcS = "idle"
          /\ mtx_server \in {"free", "srv"} /\ quick_lock \in {"free", "srv"}
          /\ cnd_server_stop \subseteq {"emu", "srv"}
      BY DEF Init, EmuPCs, SrvPCs
    <2>6. /\ client_connected \in BOOLEAN /\ server_stop_request \in BOOLEAN
          /\ control_flow_continue \in BOOLEAN
          /\ control_flow_until \in BOOLEAN /\ control_flow_next \in BOOLEAN
      BY DEF Init
    <2> QED BY <2>1, <2>2, <2>3, <2>4, <2>5, <2>6 DEF TypeOK
  <1>2. TypeOK /\ [Next]_vars => TypeOK'
    <2> SUFFICES ASSUME TypeOK, [Next]_vars
                 PROVE  TypeOK'
      OBVIOUS
    <2> USE DEF TypeOK, EmuPCs, SrvPCs, NoNotice, MaxSteps, sharedVars,
            flagVars, clientVars, historyVars
    <2>1. CASE EmuFree
      BY <2>1 DEF EmuFree
    <2>2. CASE EmuExecFree
      BY <2>2 DEF EmuExecFree
    <2>3. CASE EmuEnter
      BY <2>3 DEF EmuEnter
    <2>4. CASE EmuSleep
      BY <2>4 DEF EmuSleep
    <2>5. CASE EmuAwake
      BY <2>5 DEF EmuAwake
    <2>6. CASE EmuExec
      BY <2>6 DEF EmuExec, Count, MaxSteps
    <2>7. CASE EmuPoll
      <3>1. server_stop_request' \in BOOLEAN
        BY <2>7, Zenon DEF EmuPoll
      <3> QED BY <2>7, <3>1 DEF EmuPoll
    <2>8. CASE hit_breakpoint
      <3>1. /\ control_flow_continue' \in BOOLEAN
            /\ control_flow_until' \in BOOLEAN
            /\ control_flow_next' \in BOOLEAN
        BY <2>8, Zenon DEF hit_breakpoint
      <3>2. until_addr' \in Addr
        BY <2>8, AddrAssumption DEF hit_breakpoint, ClearedUntil
      <3>3. notice' \in Addr \cup {NoNotice} /\ pcE' \in {"stop", "exec"}
        BY <2>8 DEF hit_breakpoint
      <3>4. /\ UNCHANGED <<pcS, mtx_server, cnd_server_stop, quick_lock, sharedVars>>
            /\ UNCHANGED <<breakpoint_list, reg_pc, clientVars, steps>>
        BY <2>8 DEF hit_breakpoint
      <3> QED BY <3>1, <3>2, <3>3, <3>4
    <2>9. CASE EmuStop
      <3>1. server_running' \in BOOLEAN /\ pcE' = "leave"
        BY <2>9, Zenon DEF EmuStop
      <3>2. /\ UNCHANGED <<pcS, mtx_server, cnd_server_stop, quick_lock>>
            /\ UNCHANGED <<server_stop_request, flagVars, breakpoint_list>>
            /\ UNCHANGED <<reg_pc, clientVars, historyVars>>
        BY <2>9 DEF EmuStop
      <3> QED BY <3>1, <3>2
    <2>10. CASE EmuLeave
      BY <2>10 DEF EmuLeave
    <2>11. CASE EmuSignal
      <3>1. cnd_server_stop' \subseteq {"emu", "srv"}
        BY <2>11, SignalledProperties DEF EmuSignal
      <3> QED BY <2>11, <3>1 DEF EmuSignal
    <2>12. CASE SrvReceive
      <3>1. req' \in [kind : Kinds, addr : Addr] /\ "none" \notin Kinds
        BY <2>12, RequestsType DEF SrvReceive
      <3>2. budget' \in Int
        BY <2>12 DEF SrvReceive
      <3> QED BY <2>12, <3>1, <3>2 DEF SrvReceive
    <2>13. CASE SrvCheck
      <3>1. CASE Accepted(req.kind)
        <4>1. Handler(req.kind) \in SrvPCs \ {"idle"}
          <5>1. req.kind \in Kinds
            BY <2>13 DEF SrvCheck
          <5> QED BY <5>1 DEF Handler, Kinds, MonitorKinds
        <4> QED BY <2>13, <3>1, <4>1 DEF SrvCheck
      <3>2. CASE ~Accepted(req.kind)
        BY <2>13, <3>2, AddrAssumption DEF SrvCheck, NoRequest
      <3> QED BY <3>1, <3>2
    <2>14. CASE SrvControlFlow
      <3>1. /\ control_flow_continue' \in BOOLEAN
            /\ control_flow_until' \in BOOLEAN
            /\ control_flow_next' \in BOOLEAN
        BY <2>14, Zenon DEF SrvControlFlow, dispatch_control_flow
      <3>2. until_addr' \in Addr
        BY <2>14 DEF SrvControlFlow, dispatch_control_flow
      <3>3. cnd_server_stop' \subseteq {"emu", "srv"}
        BY <2>14, SignalledProperties DEF SrvControlFlow, SignalSleeper
      <3> QED
        BY <2>14, <3>1, <3>2, <3>3, AddrAssumption
        DEF SrvControlFlow, EndRequest, NoRequest, resume_execution
    <2>15. CASE SrvBreak
      <3>1. cnd_server_stop' \subseteq {"emu", "srv"}
        BY <2>15, SignalledProperties DEF SrvBreak, SignalSleeper
      <3>2. breakpoint_list' \in Lists
        BY <2>15, AddType DEF SrvBreak
      <3> QED
        BY <2>15, <3>1, <3>2, AddrAssumption DEF SrvBreak, EndRequest,
           NoRequest
    <2>16. CASE SrvDelete
      <3>1. cnd_server_stop' \subseteq {"emu", "srv"}
        BY <2>16, SignalledProperties DEF SrvDelete, SignalSleeper
      <3>2. breakpoint_list' \in Lists
        BY <2>16, DeletedType DEF SrvDelete
      <3> QED
        BY <2>16, <3>1, <3>2, AddrAssumption DEF SrvDelete, EndRequest,
           NoRequest
    <2>17. CASE SrvDeleteCrash
      BY <2>17 DEF SrvDeleteCrash
    <2>18. CASE SrvInspect
      BY <2>18, AddrAssumption DEF SrvInspect, EndRequest, NoRequest
    <2>19. CASE SrvResume
      BY <2>19, AddrAssumption DEF SrvResume, EndRequest, NoRequest,
         resume_execution
    <2>20. CASE SrvStop
      <3>1. server_running' \in BOOLEAN /\ pcS' = "wrlock" /\ pcS = "stop"
        BY <2>20, Zenon DEF SrvStop
      <3>2. /\ UNCHANGED <<pcE, mtx_server, cnd_server_stop, quick_lock>>
            /\ UNCHANGED <<server_stop_request, flagVars, breakpoint_list>>
            /\ UNCHANGED <<reg_pc, clientVars, historyVars>>
        BY <2>20 DEF SrvStop
      <3> QED BY <3>1, <3>2
    <2>21. CASE SrvWrlock
      BY <2>21 DEF SrvWrlock
    <2>22. CASE SrvFlag
      BY <2>22 DEF SrvFlag
    <2>23. CASE SrvSleep
      BY <2>23 DEF SrvSleep
    <2>24. CASE SrvAwake
      BY <2>24, AddrAssumption DEF SrvAwake, NoRequest, Kinds,
         ControlFlowKinds, ResumeKinds, MonitorKinds
    <2>25. CASE SpuriousWakeup
      BY <2>25 DEF SpuriousWakeup
    <2>26. CASE UNCHANGED vars
      BY <2>26 DEF vars, sharedVars, flagVars, clientVars, historyVars
    <2> QED
      BY <2>1, <2>2, <2>3, <2>4, <2>5, <2>6, <2>7, <2>8, <2>9, <2>10, <2>11,
         <2>12, <2>13, <2>14, <2>15, <2>16, <2>17, <2>18, <2>19, <2>20, <2>21,
         <2>22, <2>23, <2>24, <2>25, <2>26 DEF Next, Emu, Srv
  <1> QED BY <1>1, <1>2, PTL DEF Spec

-----------------------------------------------------------------------------
(* The gate: with no spurious wakeup, srv inspects a machine at rest.       *)

\* The switch of server_recv_request_and_dispatch sends every kind of request
\* to its handler, and only MONITOR_STOP to the one that stops.
LEMMA HandlerProperties ==
    ASSUME NEW kind \in Kinds
    PROVE  /\ Handler(kind) \in {"control_flow", "inspect", "resume", "stop"}
           /\ Handler(kind) = "stop" <=> kind = "MONITOR_STOP"
           /\ Handler(kind) = "resume" <=> kind = "MONITOR_RESUME"
  <1> USE DEF Handler, ControlFlowKinds, ResumeKinds
  <1>1. CASE kind \in ControlFlowKinds
    BY <1>1
  <1>2. CASE kind = "INSPECT"
    BY <1>2
  <1>3. CASE kind = "MONITOR_RESUME"
    BY <1>3
  <1>4. CASE kind = "MONITOR_STOP"
    BY <1>4
  <1> QED BY <1>1, <1>2, <1>3, <1>4 DEF Kinds, MonitorKinds

\* Every step keeps the named parts of the gate's invariant.
THEOREM GateInvariant ==
    ASSUME ~SpuriousWakeups
    PROVE  Spec => []GateInv
  <1>1. Init => GateInv
    BY DEF Init, GateInv, MutexInv, ClientInv, SleepInv, StoppedInv, LoopInv
  <1>2. TypeOK /\ GateInv /\ [Next]_vars => GateInv'
    <2> SUFFICES ASSUME TypeOK, GateInv, [Next]_vars
                 PROVE  GateInv'
      OBVIOUS
    <2> USE DEF TypeOK, EmuPCs, SrvPCs, GateInv, MutexInv, ClientInv,
            SleepInv, StoppedInv, LoopInv, sharedVars, flagVars, clientVars,
            historyVars
    <2>1. CASE EmuFree
      BY <2>1 DEF EmuFree
    <2>2. CASE EmuExecFree
      BY <2>2 DEF EmuExecFree
    <2>3. CASE EmuEnter
      BY <2>3 DEF EmuEnter
    <2>4. CASE EmuSleep
      BY <2>4 DEF EmuSleep
    <2>5. CASE EmuAwake
      BY <2>5 DEF EmuAwake
    <2>6. CASE EmuExec
      BY <2>6 DEF EmuExec
    <2>7. CASE EmuPoll
      BY <2>7 DEF EmuPoll, got_stop_request
    <2>8. CASE hit_breakpoint
      BY <2>8 DEF hit_breakpoint
    <2>9. CASE EmuStop
      BY <2>9 DEF EmuStop
    <2>10. CASE EmuLeave
      BY <2>10 DEF EmuLeave
    <2>11. CASE EmuSignal
      BY <2>11, SignalledProperties DEF EmuSignal
    <2>12. CASE SrvReceive
      BY <2>12 DEF SrvReceive
    <2>13. CASE SrvCheck
      <3>1. CASE Accepted(req.kind)
        <4>1. req.kind \in Kinds
          BY <2>13 DEF SrvCheck
        <4> QED BY <2>13, <3>1, <4>1, HandlerProperties DEF SrvCheck, Accepted
      <3>2. CASE ~Accepted(req.kind)
        BY <2>13, <3>2 DEF SrvCheck
      <3> QED BY <3>1, <3>2
    <2>14. CASE SrvControlFlow
      BY <2>14, SignalledProperties DEF SrvControlFlow, EndRequest,
         resume_execution, SignalSleeper
    <2>15. CASE SrvBreak
      BY <2>15, SignalledProperties DEF SrvBreak, EndRequest, SignalSleeper
    <2>16. CASE SrvDelete
      BY <2>16, SignalledProperties DEF SrvDelete, EndRequest, SignalSleeper
    <2>17. CASE SrvDeleteCrash
      BY <2>17 DEF SrvDeleteCrash
    <2>18. CASE SrvInspect
      BY <2>18 DEF SrvInspect, EndRequest
    <2>19. CASE SrvResume
      BY <2>19 DEF SrvResume, EndRequest, resume_execution
    <2>20. CASE SrvStop
      BY <2>20 DEF SrvStop
    <2>21. CASE SrvWrlock
      BY <2>21 DEF SrvWrlock
    <2>22. CASE SrvFlag
      BY <2>22 DEF SrvFlag
    <2>23. CASE SrvSleep
      BY <2>23 DEF SrvSleep
    <2>24. CASE SrvAwake
      BY <2>24 DEF SrvAwake
    <2>25. CASE SpuriousWakeup
      BY <2>25 DEF SpuriousWakeup
    <2>26. CASE UNCHANGED vars
      BY <2>26 DEF vars, sharedVars, flagVars, clientVars, historyVars
    <2> QED
      BY <2>1, <2>2, <2>3, <2>4, <2>5, <2>6, <2>7, <2>8, <2>9, <2>10, <2>11,
         <2>12, <2>13, <2>14, <2>15, <2>16, <2>17, <2>18, <2>19, <2>20, <2>21,
         <2>22, <2>23, <2>24, <2>25, <2>26 DEF Next, Emu, Srv
  <1> QED BY <1>1, <1>2, TypeCorrect, PTL DEF Spec

\* An INSPECT request finds emu out of the loop.
THEOREM Quiescence ==
    ASSUME ~SpuriousWakeups
    PROVE  Spec => []InspectQuiescent
  <1>1. GateInv => InspectQuiescent
    BY DEF GateInv, ClientInv, StoppedInv, LoopInv, InspectQuiescent, InLoop
  <1> QED BY <1>1, GateInvariant, PTL

\* Run control implements the gate that DebugGate specifies.
THEOREM Refinement ==
    ASSUME ~SpuriousWakeups
    PROVE  Spec => GateSpec
  <1>1. Init => Gate!Init
    BY DEF Init, Gate!Init, InLoop
  <1>2. TypeOK /\ GateInv /\ [Next]_vars => [Gate!Next]_Gate!vars
    <2> SUFFICES ASSUME TypeOK, GateInv, [Next]_vars
                 PROVE  [Gate!Next]_Gate!vars
      OBVIOUS
    <2> USE DEF TypeOK, EmuPCs, SrvPCs, GateInv, MutexInv, ClientInv,
            SleepInv, StoppedInv, LoopInv, sharedVars, flagVars, clientVars,
            historyVars, InLoop, Gate!Next, Gate!vars, Gate!Start,
            Gate!Finish, Gate!Grant, Gate!Revoke, Gate!BeginInspect,
            Gate!EndInspect
    <2>1. CASE EmuFree
      BY <2>1 DEF EmuFree
    <2>2. CASE EmuExecFree
      BY <2>2 DEF EmuExecFree
    <2>3. CASE EmuEnter
      BY <2>3 DEF EmuEnter
    <2>4. CASE EmuSleep
      BY <2>4 DEF EmuSleep
    <2>5. CASE EmuAwake
      BY <2>5 DEF EmuAwake
    <2>6. CASE EmuExec
      BY <2>6 DEF EmuExec
    <2>7. CASE EmuPoll
      BY <2>7 DEF EmuPoll, got_stop_request
    <2>8. CASE hit_breakpoint
      BY <2>8 DEF hit_breakpoint
    <2>9. CASE EmuStop
      BY <2>9 DEF EmuStop
    <2>10. CASE EmuLeave
      BY <2>10 DEF EmuLeave
    <2>11. CASE EmuSignal
      BY <2>11, SignalledProperties DEF EmuSignal
    <2>12. CASE SrvReceive
      BY <2>12 DEF SrvReceive
    <2>13. CASE SrvCheck
      <3>1. CASE Accepted(req.kind)
        <4>1. req.kind \in Kinds
          BY <2>13 DEF SrvCheck
        <4> QED BY <2>13, <3>1, <4>1, HandlerProperties DEF SrvCheck, Accepted
      <3>2. CASE ~Accepted(req.kind)
        BY <2>13, <3>2 DEF SrvCheck
      <3> QED BY <3>1, <3>2
    <2>14. CASE SrvControlFlow
      BY <2>14, SignalledProperties DEF SrvControlFlow, EndRequest,
         resume_execution, SignalSleeper
    <2>15. CASE SrvBreak
      BY <2>15, SignalledProperties DEF SrvBreak, EndRequest, SignalSleeper
    <2>16. CASE SrvDelete
      BY <2>16, SignalledProperties DEF SrvDelete, EndRequest, SignalSleeper
    <2>17. CASE SrvDeleteCrash
      BY <2>17 DEF SrvDeleteCrash
    <2>18. CASE SrvInspect
      BY <2>18 DEF SrvInspect, EndRequest
    <2>19. CASE SrvResume
      BY <2>19 DEF SrvResume, EndRequest, resume_execution
    <2>20. CASE SrvStop
      BY <2>20 DEF SrvStop
    <2>21. CASE SrvWrlock
      BY <2>21 DEF SrvWrlock
    <2>22. CASE SrvFlag
      BY <2>22 DEF SrvFlag
    <2>23. CASE SrvSleep
      BY <2>23 DEF SrvSleep
    <2>24. CASE SrvAwake
      BY <2>24 DEF SrvAwake
    <2>25. CASE SpuriousWakeup
      BY <2>25 DEF SpuriousWakeup
    <2>26. CASE UNCHANGED vars
      BY <2>26 DEF vars, sharedVars, flagVars, clientVars, historyVars
    <2> QED
      BY <2>1, <2>2, <2>3, <2>4, <2>5, <2>6, <2>7, <2>8, <2>9, <2>10, <2>11,
         <2>12, <2>13, <2>14, <2>15, <2>16, <2>17, <2>18, <2>19, <2>20, <2>21,
         <2>22, <2>23, <2>24, <2>25, <2>26 DEF Next, Emu, Srv
  <1> QED
    BY <1>1, <1>2, TypeCorrect, GateInvariant, PTL DEF Spec, GateSpec,
       Gate!Spec

-----------------------------------------------------------------------------
(* Notices.                                                                 *)

\* What srv knows of the client and of server_running does not depend on the
\* absence of spurious wakeups.
LEMMA ServerInvariant == Spec => [](ClientInv /\ StoppedInv)
  <1>1. Init => ClientInv /\ StoppedInv
    BY DEF Init, ClientInv, StoppedInv
  <1>2. TypeOK /\ ClientInv /\ StoppedInv /\ [Next]_vars
        => ClientInv' /\ StoppedInv'
    <2> SUFFICES ASSUME TypeOK, ClientInv, StoppedInv, [Next]_vars
                 PROVE  ClientInv' /\ StoppedInv'
      OBVIOUS
    <2> USE DEF TypeOK, EmuPCs, SrvPCs, ClientInv, StoppedInv, sharedVars,
            flagVars, clientVars, historyVars
    <2>1. CASE EmuFree
      BY <2>1 DEF EmuFree
    <2>2. CASE EmuExecFree
      BY <2>2 DEF EmuExecFree
    <2>3. CASE EmuEnter
      BY <2>3 DEF EmuEnter
    <2>4. CASE EmuSleep
      BY <2>4 DEF EmuSleep
    <2>5. CASE EmuAwake
      BY <2>5 DEF EmuAwake
    <2>6. CASE EmuExec
      BY <2>6 DEF EmuExec
    <2>7. CASE EmuPoll
      BY <2>7 DEF EmuPoll, got_stop_request
    <2>8. CASE hit_breakpoint
      BY <2>8 DEF hit_breakpoint
    <2>9. CASE EmuStop
      BY <2>9 DEF EmuStop
    <2>10. CASE EmuLeave
      BY <2>10 DEF EmuLeave
    <2>11. CASE EmuSignal
      BY <2>11, SignalledProperties DEF EmuSignal
    <2>12. CASE SrvReceive
      BY <2>12 DEF SrvReceive
    <2>13. CASE SrvCheck
      <3>1. CASE Accepted(req.kind)
        <4>1. req.kind \in Kinds
          BY <2>13 DEF SrvCheck
        <4> QED BY <2>13, <3>1, <4>1, HandlerProperties DEF SrvCheck, Accepted
      <3>2. CASE ~Accepted(req.kind)
        BY <2>13, <3>2 DEF SrvCheck
      <3> QED BY <3>1, <3>2
    <2>14. CASE SrvControlFlow
      BY <2>14, SignalledProperties DEF SrvControlFlow, EndRequest,
         resume_execution, SignalSleeper
    <2>15. CASE SrvBreak
      BY <2>15, SignalledProperties DEF SrvBreak, EndRequest, SignalSleeper
    <2>16. CASE SrvDelete
      BY <2>16, SignalledProperties DEF SrvDelete, EndRequest, SignalSleeper
    <2>17. CASE SrvDeleteCrash
      BY <2>17 DEF SrvDeleteCrash
    <2>18. CASE SrvInspect
      BY <2>18 DEF SrvInspect, EndRequest
    <2>19. CASE SrvResume
      BY <2>19 DEF SrvResume, EndRequest, resume_execution
    <2>20. CASE SrvStop
      BY <2>20 DEF SrvStop
    <2>21. CASE SrvWrlock
      BY <2>21 DEF SrvWrlock
    <2>22. CASE SrvFlag
      BY <2>22 DEF SrvFlag
    <2>23. CASE SrvSleep
      BY <2>23 DEF SrvSleep
    <2>24. CASE SrvAwake
      BY <2>24 DEF SrvAwake
    <2>25. CASE SpuriousWakeup
      BY <2>25 DEF SpuriousWakeup
    <2>26. CASE UNCHANGED vars
      BY <2>26 DEF vars, sharedVars, flagVars, clientVars, historyVars
    <2> QED
      BY <2>1, <2>2, <2>3, <2>4, <2>5, <2>6, <2>7, <2>8, <2>9, <2>10, <2>11,
         <2>12, <2>13, <2>14, <2>15, <2>16, <2>17, <2>18, <2>19, <2>20, <2>21,
         <2>22, <2>23, <2>24, <2>25, <2>26 DEF Next, Emu, Srv
  <1> QED BY <1>1, <1>2, TypeCorrect, PTL DEF Spec

\* Every step keeps NoticeInv, spurious wakeups included.
THEOREM NoticeInvariant == Spec => []NoticeInv
  <1>1. Init => NoticeInv
    BY DEF Init, NoticeInv
  <1>2. TypeOK /\ ClientInv /\ StoppedInv /\ NoticeInv /\ [Next]_vars
        => NoticeInv'
    <2> SUFFICES ASSUME TypeOK, ClientInv, StoppedInv, NoticeInv, [Next]_vars
                 PROVE  NoticeInv'
      OBVIOUS
    <2> USE DEF TypeOK, EmuPCs, SrvPCs, NoticeInv, ClientInv, StoppedInv,
            NoNotice, sharedVars, flagVars, clientVars, historyVars
    <2>1. CASE EmuFree
      BY <2>1 DEF EmuFree
    <2>2. CASE EmuExecFree
      BY <2>2 DEF EmuExecFree
    <2>3. CASE EmuEnter
      BY <2>3 DEF EmuEnter
    <2>4. CASE EmuSleep
      BY <2>4 DEF EmuSleep
    <2>5. CASE EmuAwake
      BY <2>5 DEF EmuAwake
    <2>6. CASE EmuExec
      BY <2>6 DEF EmuExec
    <2>7. CASE EmuPoll
      BY <2>7 DEF EmuPoll, got_stop_request
    <2>8. CASE hit_breakpoint
      BY <2>8 DEF hit_breakpoint
    <2>9. CASE EmuStop
      BY <2>9 DEF EmuStop
    <2>10. CASE EmuLeave
      BY <2>10 DEF EmuLeave
    <2>11. CASE EmuSignal
      BY <2>11, SignalledProperties DEF EmuSignal
    <2>12. CASE SrvReceive
      BY <2>12 DEF SrvReceive
    <2>13. CASE SrvCheck
      BY <2>13 DEF SrvCheck, Accepted, Handler, NoRequest
    <2>14. CASE SrvControlFlow
      BY <2>14, SignalledProperties DEF SrvControlFlow, EndRequest,
         resume_execution, SignalSleeper
    <2>15. CASE SrvBreak
      BY <2>15, SignalledProperties DEF SrvBreak, EndRequest, SignalSleeper
    <2>16. CASE SrvDelete
      BY <2>16, SignalledProperties DEF SrvDelete, EndRequest, SignalSleeper
    <2>17. CASE SrvDeleteCrash
      BY <2>17 DEF SrvDeleteCrash
    <2>18. CASE SrvInspect
      BY <2>18 DEF SrvInspect, EndRequest
    <2>19. CASE SrvResume
      BY <2>19 DEF SrvResume, EndRequest, resume_execution
    <2>20. CASE SrvStop
      BY <2>20 DEF SrvStop
    <2>21. CASE SrvWrlock
      BY <2>21 DEF SrvWrlock
    <2>22. CASE SrvFlag
      BY <2>22 DEF SrvFlag
    <2>23. CASE SrvSleep
      BY <2>23 DEF SrvSleep
    <2>24. CASE SrvAwake
      BY <2>24 DEF SrvAwake
    <2>25. CASE SpuriousWakeup
      BY <2>25 DEF SpuriousWakeup
    <2>26. CASE UNCHANGED vars
      BY <2>26 DEF vars, sharedVars, flagVars, clientVars, historyVars
    <2> QED
      BY <2>1, <2>2, <2>3, <2>4, <2>5, <2>6, <2>7, <2>8, <2>9, <2>10, <2>11,
         <2>12, <2>13, <2>14, <2>15, <2>16, <2>17, <2>18, <2>19, <2>20, <2>21,
         <2>22, <2>23, <2>24, <2>25, <2>26 DEF Next, Emu, Srv
  <1> QED BY <1>1, <1>2, TypeCorrect, ServerInvariant, PTL DEF Spec

\* What the client was told of is still so.
THEOREM NoticesCurrent == Spec => []NoticeIsCurrent
  <1>1. NoticeInv => NoticeIsCurrent
    BY DEF NoticeInv, NoticeIsCurrent
  <1> QED BY <1>1, NoticeInvariant, PTL

-----------------------------------------------------------------------------
(* Sleep and overshoot.                                                     *)

\* What srv serves is what the client sends, and nobody is on the condition
\* variable elsewhere than in its wait: spurious wakeups change neither.
LEMMA AskedInvariant == Spec => [](AskedInv /\ SleepInv)
  <1>1. Init => AskedInv /\ SleepInv
    BY DEF Init, AskedInv, SleepInv
  <1>2. TypeOK /\ AskedInv /\ SleepInv /\ [Next]_vars => AskedInv' /\ SleepInv'
    <2> SUFFICES ASSUME TypeOK, AskedInv, SleepInv, [Next]_vars
                 PROVE  AskedInv' /\ SleepInv'
      OBVIOUS
    <2> USE DEF TypeOK, EmuPCs, SrvPCs, AskedInv, SleepInv, sharedVars,
            flagVars, clientVars, historyVars
    <2>1. CASE EmuFree
      BY <2>1 DEF EmuFree
    <2>2. CASE EmuExecFree
      BY <2>2 DEF EmuExecFree
    <2>3. CASE EmuEnter
      BY <2>3 DEF EmuEnter
    <2>4. CASE EmuSleep
      BY <2>4 DEF EmuSleep
    <2>5. CASE EmuAwake
      BY <2>5 DEF EmuAwake
    <2>6. CASE EmuExec
      BY <2>6 DEF EmuExec
    <2>7. CASE EmuPoll
      BY <2>7 DEF EmuPoll, got_stop_request
    <2>8. CASE hit_breakpoint
      BY <2>8 DEF hit_breakpoint
    <2>9. CASE EmuStop
      BY <2>9 DEF EmuStop
    <2>10. CASE EmuLeave
      BY <2>10 DEF EmuLeave
    <2>11. CASE EmuSignal
      BY <2>11, SignalledProperties DEF EmuSignal
    <2>12. CASE SrvReceive
      BY <2>12, RequestsType DEF SrvReceive
    <2>13. CASE SrvCheck
      <3>1. CASE Accepted(req.kind)
        <4>1. req.kind \in Kinds
          BY <2>13 DEF SrvCheck
        <4> QED BY <2>13, <3>1, <4>1, HandlerProperties DEF SrvCheck, Accepted
      <3>2. CASE ~Accepted(req.kind)
        BY <2>13, <3>2 DEF SrvCheck
      <3> QED BY <3>1, <3>2
    <2>14. CASE SrvControlFlow
      BY <2>14, SignalledProperties DEF SrvControlFlow, EndRequest,
         resume_execution, SignalSleeper
    <2>15. CASE SrvBreak
      BY <2>15, SignalledProperties DEF SrvBreak, EndRequest, SignalSleeper
    <2>16. CASE SrvDelete
      BY <2>16, SignalledProperties DEF SrvDelete, EndRequest, SignalSleeper
    <2>17. CASE SrvDeleteCrash
      BY <2>17 DEF SrvDeleteCrash
    <2>18. CASE SrvInspect
      BY <2>18 DEF SrvInspect, EndRequest
    <2>19. CASE SrvResume
      BY <2>19 DEF SrvResume, EndRequest, resume_execution
    <2>20. CASE SrvStop
      BY <2>20 DEF SrvStop
    <2>21. CASE SrvWrlock
      BY <2>21 DEF SrvWrlock
    <2>22. CASE SrvFlag
      BY <2>22 DEF SrvFlag
    <2>23. CASE SrvSleep
      BY <2>23 DEF SrvSleep
    <2>24. CASE SrvAwake
      BY <2>24 DEF SrvAwake
    <2>25. CASE SpuriousWakeup
      BY <2>25 DEF SpuriousWakeup
    <2>26. CASE UNCHANGED vars
      BY <2>26 DEF vars, sharedVars, flagVars, clientVars, historyVars
    <2> QED
      BY <2>1, <2>2, <2>3, <2>4, <2>5, <2>6, <2>7, <2>8, <2>9, <2>10, <2>11,
         <2>12, <2>13, <2>14, <2>15, <2>16, <2>17, <2>18, <2>19, <2>20, <2>21,
         <2>22, <2>23, <2>24, <2>25, <2>26 DEF Next, Emu, Srv
  <1> QED BY <1>1, <1>2, TypeCorrect, PTL DEF Spec

\* For a client that resumes with control flow requests, emu does not sleep
\* through a grant: srv does not sleep when it signals, so the signal is emu's.
THEOREM SleepersAreStopped ==
    ASSUME "MONITOR_RESUME" \notin Repertoire
    PROVE  Spec => []SleeperIsStopped
  <1>1. Init => SleeperIsStopped
    BY DEF Init, SleeperIsStopped
  <1>2. TypeOK /\ AskedInv /\ SleepInv /\ SleeperIsStopped /\ [Next]_vars
        => SleeperIsStopped'
    <2> SUFFICES ASSUME TypeOK, AskedInv, SleepInv, SleeperIsStopped, [Next]_vars
                 PROVE  SleeperIsStopped'
      OBVIOUS
    <2> USE DEF TypeOK, SleeperIsStopped, sharedVars,
            flagVars, clientVars, historyVars
    <2>1. CASE EmuFree
      BY <2>1 DEF EmuFree
    <2>2. CASE EmuExecFree
      BY <2>2 DEF EmuExecFree
    <2>3. CASE EmuEnter
      BY <2>3 DEF EmuEnter
    <2>4. CASE EmuSleep
      BY <2>4 DEF EmuSleep
    <2>5. CASE EmuAwake
      BY <2>5 DEF EmuAwake
    <2>6. CASE EmuExec
      BY <2>6 DEF EmuExec
    <2>7. CASE EmuPoll
      BY <2>7 DEF EmuPoll, got_stop_request
    <2>8. CASE hit_breakpoint
      BY <2>8 DEF hit_breakpoint
    <2>9. CASE EmuStop
      BY <2>9 DEF EmuStop
    <2>10. CASE EmuLeave
      BY <2>10 DEF EmuLeave
    <2>11. CASE EmuSignal
      BY <2>11, SignalledProperties DEF EmuSignal
    <2>12. CASE SrvReceive
      BY <2>12 DEF SrvReceive
    <2>13. CASE SrvCheck
      BY <2>13 DEF SrvCheck
    <2>14. CASE SrvControlFlow
      <3>1. "srv" \notin cnd_server_stop
        BY <2>14 DEF SrvControlFlow, SleepInv
      <3>2. "emu" \in cnd_server_stop => cnd_server_stop = {"emu"}
        BY <3>1
      <3>3. cnd_server_stop' \in Signalled(cnd_server_stop)
        BY <2>14 DEF SrvControlFlow, SignalSleeper
      <3> QED BY <3>2, <3>3, SignalledProperties
    <2>15. CASE SrvBreak
      BY <2>15, SignalledProperties DEF SrvBreak, EndRequest, SignalSleeper
    <2>16. CASE SrvDelete
      BY <2>16, SignalledProperties DEF SrvDelete, EndRequest, SignalSleeper
    <2>17. CASE SrvDeleteCrash
      BY <2>17 DEF SrvDeleteCrash
    <2>18. CASE SrvInspect
      BY <2>18 DEF SrvInspect, EndRequest
    <2>19. CASE SrvResume
      BY <2>19 DEF SrvResume, AskedInv
    <2>20. CASE SrvStop
      BY <2>20 DEF SrvStop
    <2>21. CASE SrvWrlock
      BY <2>21 DEF SrvWrlock
    <2>22. CASE SrvFlag
      BY <2>22 DEF SrvFlag
    <2>23. CASE SrvSleep
      BY <2>23 DEF SrvSleep
    <2>24. CASE SrvAwake
      BY <2>24 DEF SrvAwake
    <2>25. CASE SpuriousWakeup
      BY <2>25 DEF SpuriousWakeup
    <2>26. CASE UNCHANGED vars
      BY <2>26 DEF vars, sharedVars, flagVars, clientVars, historyVars
    <2> QED
      BY <2>1, <2>2, <2>3, <2>4, <2>5, <2>6, <2>7, <2>8, <2>9, <2>10, <2>11,
         <2>12, <2>13, <2>14, <2>15, <2>16, <2>17, <2>18, <2>19, <2>20, <2>21,
         <2>22, <2>23, <2>24, <2>25, <2>26 DEF Next, Emu, Srv
  <1> QED BY <1>1, <1>2, TypeCorrect, AskedInvariant, PTL DEF Spec

\* Every step keeps OvershootInv, given the gate.
THEOREM OvershootInvariant ==
    ASSUME ~SpuriousWakeups
    PROVE  Spec => []OvershootInv
  <1> USE DEF BreakpointOvershoot, NextOvershoot, MaxSteps
  <1>1. Init => OvershootInv
    BY DEF Init, OvershootInv
  <1>2. TypeOK /\ GateInv /\ OvershootInv /\ [Next]_vars => OvershootInv'
    <2> SUFFICES ASSUME TypeOK, GateInv, OvershootInv, [Next]_vars
                 PROVE  OvershootInv'
      OBVIOUS
    <2> USE DEF TypeOK, EmuPCs, SrvPCs, GateInv, MutexInv, ClientInv,
            SleepInv, StoppedInv, LoopInv, OvershootInv, AtBreakpoint, sharedVars,
            flagVars, clientVars, historyVars
    <2>1. CASE EmuFree
      BY <2>1 DEF EmuFree
    <2>2. CASE EmuExecFree
      BY <2>2 DEF EmuExecFree
    <2>3. CASE EmuEnter
      BY <2>3 DEF EmuEnter
    <2>4. CASE EmuSleep
      BY <2>4 DEF EmuSleep
    <2>5. CASE EmuAwake
      BY <2>5 DEF EmuAwake
    <2>6. CASE EmuExec
      <3>1. /\ pcE = "exec" /\ pcE' = "poll"
            /\ steps \in 0..3 /\ (steps = 0 => steps' = 1)
        BY <2>6 DEF EmuExec, Count
      <3>2. UNCHANGED <<quick_lock, pcS, server_running, server_stop_request>>
        BY <2>6 DEF EmuExec
      <3> QED BY <3>1, <3>2
    <2>7. CASE EmuPoll
      BY <2>7 DEF EmuPoll, got_stop_request
    <2>8. CASE hit_breakpoint
      BY <2>8 DEF hit_breakpoint, AtNext, AtUntil
    <2>9. CASE EmuStop
      BY <2>9 DEF EmuStop
    <2>10. CASE EmuLeave
      BY <2>10 DEF EmuLeave
    <2>11. CASE EmuSignal
      BY <2>11, SignalledProperties DEF EmuSignal
    <2>12. CASE SrvReceive
      BY <2>12 DEF SrvReceive
    <2>13. CASE SrvCheck
      <3>1. CASE Accepted(req.kind)
        <4>1. req.kind \in Kinds
          BY <2>13 DEF SrvCheck
        <4> QED BY <2>13, <3>1, <4>1, HandlerProperties DEF SrvCheck, Accepted
      <3>2. CASE ~Accepted(req.kind)
        BY <2>13, <3>2 DEF SrvCheck
      <3> QED BY <3>1, <3>2
    <2>14. CASE SrvControlFlow
      BY <2>14, SignalledProperties DEF SrvControlFlow, EndRequest,
         resume_execution, SignalSleeper
    <2>15. CASE SrvBreak
      <3>1. pcE # "exec" /\ ~server_running /\ pcS = "control_flow"
        BY <2>15 DEF SrvBreak
      <3>2. UNCHANGED <<pcE, quick_lock, server_running>>
        BY <2>15 DEF SrvBreak
      <3> QED BY <3>1, <3>2
    <2>16. CASE SrvDelete
      <3>1. pcE # "exec" /\ ~server_running /\ pcS = "control_flow"
        BY <2>16 DEF SrvDelete
      <3>2. UNCHANGED <<pcE, quick_lock, server_running>>
        BY <2>16 DEF SrvDelete
      <3> QED BY <3>1, <3>2
    <2>17. CASE SrvDeleteCrash
      BY <2>17 DEF SrvDeleteCrash
    <2>18. CASE SrvInspect
      BY <2>18 DEF SrvInspect, EndRequest
    <2>19. CASE SrvResume
      BY <2>19 DEF SrvResume, EndRequest, resume_execution
    <2>20. CASE SrvStop
      BY <2>20 DEF SrvStop
    <2>21. CASE SrvWrlock
      BY <2>21 DEF SrvWrlock
    <2>22. CASE SrvFlag
      BY <2>22 DEF SrvFlag
    <2>23. CASE SrvSleep
      BY <2>23 DEF SrvSleep
    <2>24. CASE SrvAwake
      BY <2>24 DEF SrvAwake
    <2>25. CASE SpuriousWakeup
      BY <2>25 DEF SpuriousWakeup
    <2>26. CASE UNCHANGED vars
      BY <2>26 DEF vars, sharedVars, flagVars, clientVars, historyVars
    <2> QED
      BY <2>1, <2>2, <2>3, <2>4, <2>5, <2>6, <2>7, <2>8, <2>9, <2>10, <2>11,
         <2>12, <2>13, <2>14, <2>15, <2>16, <2>17, <2>18, <2>19, <2>20, <2>21,
         <2>22, <2>23, <2>24, <2>25, <2>26 DEF Next, Emu, Srv
  <1> QED BY <1>1, <1>2, TypeCorrect, GateInvariant, PTL DEF Spec

\* A breakpoint is overrun by one instruction at most: hit_breakpoint looks at the
\* addresses before every instruction but the first one after a resume.
THEOREM OverrunsByOne ==
    ASSUME ~SpuriousWakeups
    PROVE  Spec => []BreakpointOvershoot
  <1>1. OvershootInv => BreakpointOvershoot
    BY DEF OvershootInv
  <1> QED BY <1>1, OvershootInvariant, PTL

\* A NEXT is overrun by one instruction at most, however late the stop request was
\* that it found left behind.
THEOREM NextOverruns ==
    ASSUME ~SpuriousWakeups
    PROVE  Spec => []NextOvershoot
  <1>1. OvershootInv => NextOvershoot
    BY DEF OvershootInv
  <1> QED BY <1>1, OvershootInvariant, PTL

=============================================================================
