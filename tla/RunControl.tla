---------------------------- MODULE RunControl ----------------------------
(***************************************************************************)
(* Run control: how the thread that emulates (monitor_run, "emu") and the  *)
(* thread that serves the debugger client (server_recv_request_and_        *)
(* dispatch, called from iopoll_thread, "srv") start and stop the emulated *)
(* machine between them.                                                   *)
(*                                                                         *)
(* They share mtx_server, the condition variable cnd_server_stop, the      *)
(* read-write lock quick_lock and the static variables of server.c.  emu   *)
(* executes, polls and reports breakpoints WITHOUT mtx_server; srv holds   *)
(* it for a whole request, except while it sleeps in MONITOR_STOP.         *)
(*                                                                         *)
(* A definition named <definition>_<slip> is not part of the model: it is  *)
(* the definition after a plausible slip in the code, and each property    *)
(* below fails for one of them.                                            *)
(***************************************************************************)
EXTENDS BreakpointList, FiniteSets

CONSTANTS
    Repertoire,         \* the kinds of request that the client sends
    SpuriousWakeups,    \* whether pthread_cond_wait may return by itself
    MaxBreaks,          \* bound on the length of breakpoint_list
    MaxRequests         \* bound on the requests of a client; < 0 is no bound

ResumeKinds == {"CONTINUE", "NEXT", "UNTIL"}
ControlFlowKinds == ResumeKinds \cup {"BREAK", "DELETE"}
MonitorKinds == {"MONITOR_RESUME", "MONITOR_STOP"}
Kinds == ControlFlowKinds \cup MonitorKinds \cup {"INSPECT"}
AddressedKinds == {"UNTIL", "BREAK", "DELETE"}

ASSUME RunControlAssumption ==
    /\ Repertoire \subseteq Kinds
    /\ SpuriousWakeups \in BOOLEAN
    /\ MaxBreaks \in Nat
    /\ MaxRequests \in Int

VARIABLES
    pcE,                    \* where emu is in monitor_run
    pcS,                    \* where srv is in server_recv_request_and_dispatch
                            \* (both "dead" once the process has crashed)
    mtx_server,             \* who holds the mutex: "free" or "srv" (emu's
                            \* critical sections are one step each)
    cnd_server_stop,        \* the threads that sleep on the condition variable
    quick_lock,             \* "free", or "srv" when write-locked
    client_connected,
    server_running,
    server_stop_request,
    control_flow_continue,
    control_flow_until,
    control_flow_next,
    until_addr,
    breakpoint_list,
    reg_pc,                 \* the program counter of the emulated cpu
    req,                    \* the request srv is serving
    budget,                 \* the requests the client may still send
    steps,                  \* history: instructions since the last accepted
                            \* resume, counted up to MaxSteps
    notice                  \* history: the pc that the last notice to the
                            \* client announced since that resume

sharedVars == <<server_running, server_stop_request>>
flagVars == <<control_flow_continue, control_flow_until, control_flow_next,
              until_addr>>
clientVars == <<client_connected, req, budget>>
historyVars == <<steps, notice>>
vars == <<pcE, pcS, mtx_server, cnd_server_stop, quick_lock, sharedVars,
          flagVars, breakpoint_list, reg_pc, clientVars, historyVars>>

MaxSteps == 3           \* bound of the history variable steps
NoNotice == -1

NoRequest == [kind |-> "none", addr |-> 0]
Requests ==
    {[kind |-> k, addr |-> a] : k \in Repertoire \cap AddressedKinds, a \in Addr}
    \cup {[kind |-> k, addr |-> 0] : k \in Repertoire \ AddressedKinds}

\* server_init(wait_for_client), create_list, and iopoll_init done; the static
\* variables of server.c start out zero.
Init ==
    /\ pcE = "top" /\ pcS = "idle"
    /\ mtx_server = "free" /\ cnd_server_stop = {} /\ quick_lock = "free"
    /\ client_connected \in BOOLEAN
    /\ server_running = IF client_connected THEN FALSE ELSE TRUE
    /\ server_stop_request = FALSE
    /\ control_flow_continue = FALSE /\ control_flow_until = FALSE
    /\ control_flow_next = FALSE /\ until_addr = 0
    /\ breakpoint_list = << >>
    /\ reg_pc = 0
    /\ req = NoRequest /\ budget = MaxRequests
    /\ steps = 0 /\ notice = NoNotice

-----------------------------------------------------------------------------
(* emu: monitor_run                                                         *)

Count(n) == IF n < MaxSteps THEN n + 1 ELSE n

\* Without a client emu only ever executes; nothing stops it.
EmuFree ==
    /\ pcE = "top" /\ ~client_connected
    /\ pcE' = "exec_free"
    /\ UNCHANGED <<pcS, mtx_server, cnd_server_stop, quick_lock, sharedVars,
                   flagVars, breakpoint_list, reg_pc, clientVars,
                   historyVars>>

EmuExecFree ==
    /\ pcE = "exec_free"
    /\ reg_pc' \in Addr
    /\ pcE' = "top"
    /\ UNCHANGED <<pcS, mtx_server, cnd_server_stop, quick_lock, sharedVars,
                   flagVars, breakpoint_list, clientVars, historyVars>>

\* lock; not stopped; unlock.
EmuEnter ==
    /\ pcE = "top" /\ client_connected
    /\ mtx_server = "free"
    /\ server_running
    /\ pcE' = "exec"
    /\ UNCHANGED <<pcS, mtx_server, cnd_server_stop, quick_lock, sharedVars,
                   flagVars, breakpoint_list, reg_pc, clientVars,
                   historyVars>>

\* lock; stopped; pthread_cond_wait lets go of the mutex.
EmuSleep ==
    /\ pcE = "top" /\ client_connected
    /\ mtx_server = "free"
    /\ ~server_running
    /\ pcE' = "asleep"
    /\ cnd_server_stop' = cnd_server_stop \cup {"emu"}
    /\ UNCHANGED <<pcS, mtx_server, quick_lock, sharedVars, flagVars,
                   breakpoint_list, reg_pc, clientVars, historyVars>>

\* pthread_cond_wait takes the mutex again and returns; unlock; continue.
EmuAwake ==
    /\ pcE = "asleep" /\ "emu" \notin cnd_server_stop
    /\ mtx_server = "free"
    /\ pcE' = "top"
    /\ UNCHANGED <<pcS, mtx_server, cnd_server_stop, quick_lock, sharedVars,
                   flagVars, breakpoint_list, reg_pc, clientVars,
                   historyVars>>

\* exec_next: one instruction of the emulated program takes the pc anywhere.
EmuExec ==
    /\ pcE = "exec"
    /\ reg_pc' \in Addr
    /\ steps' = Count(steps)
    /\ pcE' = "poll"
    /\ UNCHANGED <<pcS, mtx_server, cnd_server_stop, quick_lock, sharedVars,
                   flagVars, breakpoint_list, clientVars, notice>>

\* got_stop_request: tryrdlock fails while srv writes the flag.
got_stop_request == quick_lock = "free" /\ server_stop_request

EmuPoll_KeepsFlag ==
    /\ pcE = "poll"
    /\ pcE' = IF got_stop_request THEN "leave" ELSE "hit"
    /\ UNCHANGED <<pcS, mtx_server, cnd_server_stop, quick_lock, sharedVars,
                   flagVars, breakpoint_list, reg_pc, clientVars,
                   historyVars>>

\* The first half of server_should_stop_execution: a stop request is used up.
EmuPoll ==
    /\ pcE = "poll"
    /\ IF got_stop_request
         THEN pcE' = "leave" /\ server_stop_request' = FALSE
         ELSE pcE' = "hit" /\ UNCHANGED server_stop_request
    /\ UNCHANGED <<pcS, mtx_server, cnd_server_stop, quick_lock,
                   server_running, flagVars, breakpoint_list, reg_pc,
                   clientVars, historyVars>>

\* Breakpoints and the until address count only while "continue" or "until"
\* is in force.
AtBreakpoint ==
    /\ control_flow_continue \/ control_flow_until
    /\ OnList(breakpoint_list, reg_pc)
AtUntil == control_flow_until /\ until_addr = reg_pc

ClearedUntil == IF AtUntil THEN 0 ELSE until_addr

\* "next" ends after any instruction, breakpoint or not.
AtNext_UnlessContinue == control_flow_next /\ ~control_flow_continue
AtNext == control_flow_next

\* hit_breakpoint up to its last notice: it clears what it reports, and only
\* then, in a later step, stops the execution.
hit_breakpoint ==
    /\ pcE = "hit"
    /\ control_flow_continue' =
         (control_flow_continue /\ ~AtBreakpoint /\ ~AtUntil)
    /\ control_flow_until' = (control_flow_until /\ ~AtUntil)
    /\ until_addr' = ClearedUntil
    /\ control_flow_next' = (control_flow_next /\ ~AtNext)
    /\ IF AtBreakpoint \/ AtUntil \/ AtNext
         THEN pcE' = "stop" /\ notice' = reg_pc
         ELSE pcE' = "exec" /\ UNCHANGED notice
    /\ UNCHANGED <<pcS, mtx_server, cnd_server_stop, quick_lock, sharedVars,
                   breakpoint_list, reg_pc, clientVars, steps>>

EmuStop_StaysRunning ==
    /\ pcE = "stop"
    /\ pcE' = "leave"
    /\ UNCHANGED <<pcS, mtx_server, cnd_server_stop, quick_lock, sharedVars,
                   flagVars, breakpoint_list, reg_pc, clientVars,
                   historyVars>>

\* stop_execution, called without the mutex.
EmuStop ==
    /\ pcE = "stop"
    /\ server_running' = FALSE
    /\ pcE' = "leave"
    /\ UNCHANGED <<pcS, mtx_server, cnd_server_stop, quick_lock,
                   server_stop_request, flagVars, breakpoint_list, reg_pc,
                   clientVars, historyVars>>

\* lock and unlock: emu waits until srv sleeps or has finished its request.
EmuLeave ==
    /\ pcE = "leave"
    /\ mtx_server = "free"
    /\ pcE' = "signal"
    /\ UNCHANGED <<pcS, mtx_server, cnd_server_stop, quick_lock, sharedVars,
                   flagVars, breakpoint_list, reg_pc, clientVars,
                   historyVars>>

\* pthread_cond_signal wakes one sleeper, if there is one.
Signalled(sleepers) ==
    IF sleepers = {} THEN {{}} ELSE {sleepers \ {t} : t \in sleepers}

EmuSignal_Forgotten ==
    /\ pcE = "signal"
    /\ pcE' = "top"
    /\ UNCHANGED <<pcS, mtx_server, cnd_server_stop, quick_lock, sharedVars,
                   flagVars, breakpoint_list, reg_pc, clientVars,
                   historyVars>>

\* Out of the loop, emu wakes the srv that waits for it.
EmuSignal ==
    /\ pcE = "signal"
    /\ cnd_server_stop' \in Signalled(cnd_server_stop)
    /\ pcE' = "top"
    /\ UNCHANGED <<pcS, mtx_server, quick_lock, sharedVars, flagVars,
                   breakpoint_list, reg_pc, clientVars, historyVars>>

Emu == \/ EmuFree \/ EmuExecFree \/ EmuEnter \/ EmuSleep \/ EmuAwake \/ EmuExec
       \/ EmuPoll \/ hit_breakpoint \/ EmuStop \/ EmuLeave \/ EmuSignal

-----------------------------------------------------------------------------
(* srv: server_recv_request_and_dispatch                                    *)

\* Only a client that server_init waited for sends requests.  (A receive that
\* fails takes the mutex and gives it back with nothing done: a stutter.)
SrvReceive ==
    /\ pcS = "idle" /\ client_connected
    /\ mtx_server = "free"
    /\ budget # 0
    /\ budget' = IF budget > 0 THEN budget - 1 ELSE budget
    /\ req' \in Requests
    /\ req'.kind = "BREAK" => Len(breakpoint_list) < MaxBreaks
    /\ mtx_server' = "srv"
    /\ pcS' = "check"
    /\ UNCHANGED <<pcE, cnd_server_stop, quick_lock, sharedVars, flagVars,
                   breakpoint_list, reg_pc, client_connected,
                   historyVars>>

Accepted_AnyInspect(kind) ==
    \/ kind = "INSPECT"
    \/ IF kind = "MONITOR_STOP" THEN server_running ELSE ~server_running

\* Whether a request is served in the state that server_running tells.
Accepted(kind) ==
    IF kind = "MONITOR_STOP" THEN server_running ELSE ~server_running

Handler(kind) ==
    CASE kind \in ControlFlowKinds -> "control_flow"
      [] kind = "INSPECT"          -> "inspect"
      [] kind = "MONITOR_RESUME"   -> "resume"
      [] kind = "MONITOR_STOP"     -> "stop"

SrvCheck ==
    /\ pcS = "check"
    /\ IF Accepted(req.kind)
         THEN /\ pcS' = Handler(req.kind)
              /\ UNCHANGED <<mtx_server, req>>
         ELSE /\ pcS' = "idle"
              /\ mtx_server' = "free"
              /\ req' = NoRequest
    /\ UNCHANGED <<pcE, cnd_server_stop, quick_lock, sharedVars, flagVars,
                   breakpoint_list, reg_pc, client_connected, budget,
                   historyVars>>

\* What each kind of request does to the flags; the until address is set with
\* its flag.
dispatch_control_flow ==
    /\ control_flow_continue' = (control_flow_continue \/ req.kind = "CONTINUE")
    /\ control_flow_next' = (control_flow_next \/ req.kind = "NEXT")
    /\ control_flow_until' = (control_flow_until \/ req.kind = "UNTIL")
    /\ until_addr' = IF req.kind = "UNTIL" THEN req.addr ELSE until_addr

\* pthread_cond_signal after every control flow request
SignalSleeper_Forgotten == UNCHANGED cnd_server_stop
SignalSleeper == cnd_server_stop' \in Signalled(cnd_server_stop)

resume_execution ==
    /\ server_running' = TRUE
    /\ steps' = 0 /\ notice' = NoNotice

\* The request is over: free the payload, unlock.
EndRequest ==
    /\ pcS' = "idle"
    /\ mtx_server' = "free"
    /\ req' = NoRequest

SrvControlFlow ==
    /\ pcS = "control_flow" /\ req.kind \in ResumeKinds
    /\ dispatch_control_flow
    /\ resume_execution
    /\ SignalSleeper
    /\ EndRequest
    /\ UNCHANGED <<pcE, quick_lock, server_stop_request, breakpoint_list,
                   reg_pc, client_connected, budget>>

SrvBreak ==
    /\ pcS = "control_flow" /\ req.kind = "BREAK"
    /\ breakpoint_list' = list_add(breakpoint_list, req.addr)
    /\ SignalSleeper
    /\ EndRequest
    /\ UNCHANGED <<pcE, quick_lock, sharedVars, flagVars, reg_pc,
                   client_connected, budget, historyVars>>

\* handle_control_flow_delete on a list that holds the element...
DeleteFaults ==
    /\ DeleteFinds(breakpoint_list, req.addr)
    /\ list_remove_faults(breakpoint_list, DeleteTarget(breakpoint_list, req.addr))

Deleted ==
    IF DeleteFinds(breakpoint_list, req.addr)
      THEN list_remove(breakpoint_list, DeleteTarget(breakpoint_list, req.addr))
      ELSE breakpoint_list

SrvDelete ==
    /\ pcS = "control_flow" /\ req.kind = "DELETE"
    /\ ~DeleteFaults
    /\ breakpoint_list' = Deleted
    /\ SignalSleeper
    /\ EndRequest
    /\ UNCHANGED <<pcE, quick_lock, sharedVars, flagVars, reg_pc,
                   client_connected, budget, historyVars>>

\* ... and where its removal takes the process down.
SrvDeleteCrash ==
    /\ pcS = "control_flow" /\ req.kind = "DELETE"
    /\ DeleteFaults
    /\ pcE' = "dead" /\ pcS' = "dead"
    /\ cnd_server_stop' = {}
    /\ UNCHANGED <<mtx_server, quick_lock, sharedVars, flagVars,
                   breakpoint_list, reg_pc, clientVars, historyVars>>

\* dispatch_inspect peeks at the cpu or the ppu and the answer is sent.
SrvInspect ==
    /\ pcS = "inspect"
    /\ EndRequest
    /\ UNCHANGED <<pcE, cnd_server_stop, quick_lock, sharedVars, flagVars,
                   breakpoint_list, reg_pc, client_connected, budget,
                   historyVars>>

\* MONITOR_RESUME wakes nobody.
SrvResume ==
    /\ pcS = "resume"
    /\ resume_execution
    /\ EndRequest
    /\ UNCHANGED <<pcE, cnd_server_stop, quick_lock, server_stop_request,
                   flagVars, breakpoint_list, reg_pc, client_connected,
                   budget>>

\* handle_monitor_stop
SrvStop ==
    /\ pcS = "stop"
    /\ server_running' = FALSE
    /\ pcS' = "wrlock"
    /\ UNCHANGED <<pcE, mtx_server, cnd_server_stop, quick_lock,
                   server_stop_request, flagVars, breakpoint_list, reg_pc,
                   clientVars, historyVars>>

\* set_stop_request, first half: take quick_lock for writing.
SrvWrlock ==
    /\ pcS = "wrlock"
    /\ quick_lock' = "srv"
    /\ pcS' = "flag"
    /\ UNCHANGED <<pcE, mtx_server, cnd_server_stop, sharedVars, flagVars,
                   breakpoint_list, reg_pc, clientVars, historyVars>>

\* ... second half: set the flag and unlock.  (The lock of the first half fails
\* only for a thread that holds it already, which srv never does.)
SrvFlag ==
    /\ pcS = "flag"
    /\ server_stop_request' = TRUE
    /\ quick_lock' = "free"
    /\ pcS' = "cond_wait"
    /\ UNCHANGED <<pcE, mtx_server, cnd_server_stop, server_running, flagVars,
                   breakpoint_list, reg_pc, clientVars, historyVars>>

SrvSleep_DoesNotWait ==
    /\ pcS = "cond_wait"
    /\ EndRequest
    /\ UNCHANGED <<pcE, cnd_server_stop, quick_lock, sharedVars, flagVars,
                   breakpoint_list, reg_pc, client_connected, budget,
                   historyVars>>

\* pthread_cond_wait lets go of the mutex, whatever emu does meanwhile.
SrvSleep ==
    /\ pcS = "cond_wait"
    /\ cnd_server_stop' = cnd_server_stop \cup {"srv"}
    /\ mtx_server' = "free"
    /\ pcS' = "asleep"
    /\ UNCHANGED <<pcE, quick_lock, sharedVars, flagVars, breakpoint_list,
                   reg_pc, clientVars, historyVars>>

\* pthread_cond_wait returns; no predicate is tested; unlock.
SrvAwake ==
    /\ pcS = "asleep" /\ "srv" \notin cnd_server_stop
    /\ mtx_server = "free"
    /\ pcS' = "idle"
    /\ req' = NoRequest
    /\ UNCHANGED <<pcE, mtx_server, cnd_server_stop, quick_lock, sharedVars,
                   flagVars, breakpoint_list, reg_pc, client_connected,
                   budget, historyVars>>

Srv == \/ SrvReceive \/ SrvCheck \/ SrvControlFlow \/ SrvBreak \/ SrvDelete
       \/ SrvDeleteCrash \/ SrvInspect \/ SrvResume \/ SrvStop \/ SrvWrlock
       \/ SrvFlag \/ SrvSleep \/ SrvAwake

-----------------------------------------------------------------------------

\* POSIX lets pthread_cond_wait return without a signal.
SpuriousWakeup ==
    /\ SpuriousWakeups
    /\ \E t \in cnd_server_stop : cnd_server_stop' = cnd_server_stop \ {t}
    /\ UNCHANGED <<pcE, pcS, mtx_server, quick_lock, sharedVars, flagVars,
                   breakpoint_list, reg_pc, clientVars, historyVars>>

Next == Emu \/ Srv \/ SpuriousWakeup

Spec == Init /\ [][Next]_vars

\* Each thread that can take a step takes one eventually.
FairSpec == Spec /\ WF_vars(Emu) /\ WF_vars(Srv)
-----------------------------------------------------------------------------
(* What run control promises                                                *)

EmuPCs == {"top", "exec_free", "asleep", "exec", "poll", "hit", "stop",
           "leave", "signal", "dead"}
SrvPCs == {"idle", "check", "control_flow", "inspect", "resume", "stop",
           "wrlock", "flag", "cond_wait", "asleep", "dead"}

\* The types of the variables: what the declarations of server.c and the two
\* threads' control points allow.
TypeOK ==
    /\ pcE \in EmuPCs /\ pcS \in SrvPCs
    /\ mtx_server \in {"free", "srv"} /\ quick_lock \in {"free", "srv"}
    /\ cnd_server_stop \subseteq {"emu", "srv"}
    /\ client_connected \in BOOLEAN /\ server_running \in BOOLEAN
    /\ server_stop_request \in BOOLEAN
    /\ control_flow_continue \in BOOLEAN /\ control_flow_until \in BOOLEAN
    /\ control_flow_next \in BOOLEAN
    /\ until_addr \in Addr /\ reg_pc \in Addr
    /\ breakpoint_list \in Lists
    /\ req \in [kind : Kinds \cup {"none"}, addr : Addr]
    /\ req.kind = "none" <=> pcS = "idle"
    /\ budget \in Int
    /\ steps \in 0..MaxSteps
    /\ notice \in Addr \cup {NoNotice}

\* emu is inside the do-while of monitor_run, between the start of an
\* instruction and the decision to leave the loop.
InLoop == pcE \in {"exec_free", "exec", "poll", "hit", "stop"}

\* While srv answers an INSPECT request, emu executes nothing: the registers
\* and the memory that dispatch_inspect peeks at do not change under it.
InspectQuiescent == pcS = "inspect" => ~InLoop

\* A breakpoint is overrun by one instruction at most: emu starts the
\* instruction at a breakpoint only as the first one after a resume (which is
\* how one leaves a breakpoint) ...
BreakpointOvershoot ==
    pcE = "exec" /\ AtBreakpoint => steps <= 1

\* ... and a NEXT executes two instructions at most, the second one only when a
\* stop request that came too late was left behind in server_stop_request.
NextOvershoot ==
    pcE = "exec" /\ control_flow_next => steps <= 1

\* The machine is still where the last notice said it was, until the client
\* resumes it: what the client inspects belongs to the stop it was told of.
NoticeIsCurrent == notice # NoNotice => reg_pc = notice

\* emu does not sleep through a grant: once asleep and unsignalled, it is
\* stopped (for a client that resumes with control flow requests).
SleeperIsStopped == "emu" \in cnd_server_stop => ~server_running

\* Run control is a debugger's gate.
Gate == INSTANCE DebugGate WITH
    granted <- server_running,
    executing <- InLoop,
    inspecting <- pcS = "inspect"
GateSpec == Gate!Spec

\* MONITOR_STOP is answered: srv does not sleep on while emu is in the loop.
StopAcknowledged ==
    pcS = "asleep" /\ InLoop ~> pcS # "asleep"

\* A resume is carried out: emu enters the loop, unless it is stopped first.
ResumeExecutes ==
    client_connected /\ server_running
        ~> InLoop \/ ~server_running \/ pcE = "dead"

-----------------------------------------------------------------------------
(* What the code says of itself and does not keep                           *)

\* server.c:236 turns away a MONITOR_STOP "while not running", so that srv only
\* ever waits for an emu that runs; yet both threads can end up asleep.
NeverBothAsleep == cnd_server_stop # {"emu", "srv"}

\* server.c:213 turns away control flow requests "while running"; but a client
\* that was told of a breakpoint or of the end of a step has its next request
\* turned away when it is faster than stop_execution.
NoticeMeansStopped == notice # NoNotice => ~server_running

\* list.c:60 has "element not found" as the only case in which list_remove
\* leaves the list alone; a DELETE of a breakpoint that is set (once) leaves
\* it set, or kills the process.
DeleteForgets ==
    [][/\ pcS = "control_flow" /\ req.kind = "DELETE" /\ req.addr # 0
       /\ pcS' # pcS
       /\ Cardinality({i \in DOMAIN breakpoint_list :
                          breakpoint_list[i] = req.addr}) = 1
       => pcS' # "dead" /\ ~OnList(breakpoint_list', req.addr)]_vars
-----------------------------------------------------------------------------
(* Why it holds: the inductive invariant, in named parts.                   *)

\* srv holds the mutex in every step of a request but its sleep.
MutexInv == mtx_server = "srv" <=> pcS \notin {"idle", "asleep"}

\* Requests come from the client that emu polls for; without one nothing ever
\* takes the grant back.
ClientInv ==
    /\ ~client_connected => server_running
    /\ pcS # "idle" => client_connected
    /\ pcE = "exec_free" => ~client_connected
    /\ pcE \notin {"top", "exec_free"} => client_connected

\* Who sleeps, sleeps where the code waits.
SleepInv ==
    /\ "srv" \in cnd_server_stop => pcS = "asleep"
    /\ "emu" \in cnd_server_stop => pcE = "asleep"

\* What SrvCheck found stays true until the request is done, and a MONITOR_STOP
\* keeps the grant back for as long as srv waits.
StoppedInv ==
    pcS \in {"control_flow", "inspect", "resume", "wrlock", "flag",
             "cond_wait", "asleep"} => ~server_running

\* emu is in the loop only under a grant, or while srv waits for it to leave.
LoopInv ==
    pcE \in {"exec", "poll", "hit", "stop"} =>
        \/ server_running
        \/ pcS \in {"wrlock", "flag", "cond_wait"}
        \/ pcS = "asleep" /\ "srv" \in cnd_server_stop

GateInv == MutexInv /\ ClientInv /\ SleepInv /\ StoppedInv /\ LoopInv

\* What srv serves is what the client may send, MONITOR_RESUME in its handler.
AskedInv ==
    /\ pcS \notin {"idle", "dead"} => req.kind \in Repertoire
    /\ pcS = "resume" => req.kind = "MONITOR_RESUME"

\* A stop request that outlives the stop it was made for is used up by the
\* first poll after the next resume, so emu leaves its loop under a grant after
\* the first instruction only.
OvershootInv ==
    /\ quick_lock = "srv" => pcS = "flag"
    /\ server_running /\ server_stop_request =>
          \/ steps = 0 /\ pcE \notin {"poll", "hit", "stop"}
          \/ steps = 1 /\ pcE = "poll"
    /\ server_running /\ pcE \in {"top", "exec_free", "asleep", "leave", "signal"}
          => steps <= 1
    /\ BreakpointOvershoot
    /\ NextOvershoot

\* After a notice emu neither executes nor is granted to, once out of the loop.
NoticeInv ==
    notice # NoNotice =>
        /\ client_connected
        /\ reg_pc = notice
        /\ pcE \notin {"exec_free", "exec", "poll", "hit"}
        /\ pcE = "stop" \/ ~server_running
=============================================================================
