------------------------------ MODULE Process ------------------------------
(***************************************************************************)
(* The process from main to its end: the parts that main starts one after  *)
(* the other and ends in the reverse order, the polling thread with the    *)
(* handshake that tells main whether it could set itself up, the keys it   *)
(* dispatches, and the interrupt (SIGINT) by which the user ends all this. *)
(*                                                                         *)
(* main runs alone until it creates the polling thread; from then on the   *)
(* two interleave, a step being what one of them does between two points   *)
(* where the other can notice.  What they do for a debugger client is the  *)
(* subject of RunControl.                                                  *)
(*                                                                         *)
(* An interrupt is taken by main unless main blocks it; main does so from  *)
(* the first one on, because longjmp leaves the signal mask of the handler *)
(* in place.  The polling thread then takes the next and jumps into the    *)
(* frame of main: undefined, here either a crash or the polling thread     *)
(* running the end of main as well.                                        *)
(*                                                                         *)
(* A definition named <definition>_<slip> is not part of the model: it is  *)
(* the definition after a plausible slip in the code.                      *)
(***************************************************************************)
EXTENDS Keys

CONSTANT SpuriousWakeups    \* whether pthread_cond_wait may return by itself

Threads == {"main", "io"}

\* What is started and ended: the file of the cartridge, the picture, the
\* connection to wayland, the epoll of evdev with the devices in it.
Parts == {"rom", "render", "display", "evdevs"}

\* The descriptors the polling thread waits for, the backends' in the order of
\* their table: that of pipewire, which is none yet, is the standard input.
BackendFds == <<"wayland", "stdin", "evdev">>
Fds == {"wayland", "stdin", "evdev", "server"}

\* The end of main, the labels before err_server having nothing to do.
Labels == {"err_server", "evdev_fini", "err_backends"}
Ended == {"exited", "killed", "crashed"}

MainPlaces ==
    {"open", "render_init", "backends_init", "server_init", "monitor_init",
     "iopoll_init", "cond_wait", "waiting", "woken", "init_success", "sigaction",
     "setjmp", "monitor_run"} \cup Labels \cup Ended
IoPlaces ==
    {"none", "created", "setup", "cond_signal", "init_success", "epoll_wait",
     "evdev_dispatch", "wl_display_dispatch", "done"} \cup Labels

ASSUME ProcessAssumption == SpuriousWakeups \in BOOLEAN

VARIABLES
    at,                 \* where each thread is
    part,               \* for each part: "off", "on", "ended", or "again" when
                        \* it was ended without being on
    mtx_init,           \* who holds it: "free", "main" or "io"
    init_success,
    watched,            \* the descriptors in epoll_fd
    ret,                \* what main will return
    blocked,            \* the threads that block the interrupt
    early               \* history: pthread_cond_wait returned by itself

processVars == <<at, part, mtx_init, init_success, watched, ret, blocked, early>>
vars == <<keysVars, processVars>>

TypeOK ==
    /\ KeysTypeOK
    /\ DOMAIN at = Threads /\ at["main"] \in MainPlaces /\ at["io"] \in IoPlaces
    /\ part \in [Parts -> {"off", "on", "ended", "again"}]
    /\ mtx_init \in {"free", "main", "io"}
    /\ init_success \in BOOLEAN
    /\ watched \subseteq Fds
    /\ ret \in {-1, 0, 1}
    /\ blocked \subseteq Threads
    /\ early \in BOOLEAN

Init ==
    /\ KeysInit
    /\ at = [main |-> "open", io |-> "none"]
    /\ part = [p \in Parts |-> "off"]
    /\ mtx_init = "free"
    /\ init_success = FALSE
    /\ watched = {}
    /\ ret = 0
    /\ blocked = {}
    /\ early = FALSE

Alive == at["main"] \notin Ended
Go(t, from, to) == Alive /\ at[t] = from /\ at' = [at EXCEPT ![t] = to]

\* A step of the start of main: on to the next, with what it has made of the
\* parts, or to the label for its failure.
Start(from, to, parts) ==
    /\ Go("main", from, to)
    /\ part' = parts
    /\ UNCHANGED <<keysVars, mtx_init, init_success, watched, ret, blocked, early>>
Fail(from, label, parts) ==
    /\ Go("main", from, label)
    /\ ret' = -1
    /\ part' = parts
    /\ UNCHANGED <<keysVars, mtx_init, init_success, watched, blocked, early>>

On(p, was) == [was EXCEPT ![p] = "on"]
Finish(p, was) == [was EXCEPT ![p] = IF @ = "on" THEN "ended" ELSE "again"]

-----------------------------------------------------------------------------
(* The start, up to the polling thread.                                    *)

OpenRom ==
    \/ Start("open", "render_init", On("rom", part))
    \/ Fail("open", "exited", part)

\* It fails with its descriptor, before there is anything to end, or with the last
\* of its two pictures, and ends what there is itself; then main has only to close
\* the file.  Where it fails in between, render_fini crashes for want of the first.
render_init ==
    \/ Start("render_init", "backends_init", On("render", part))
    \/ Fail("render_init", "exited", Finish("rom", part))
    \/ Fail("render_init", "exited", Finish("rom", Finish("render", On("render", part))))
    \/ Start("render_init", "crashed", part)

\* evdev_init fails for want of /dev/input, with its epoll open, or because of
\* a device, after it has closed and freed everything.  The other backends
\* never fail; without a display the first use of it crashes.
backends_fini(was) == Finish("evdevs", Finish("display", was))
\* After a backend that fails main jumps to the label one too early.
backends_init_label ==
    LET opened == On("evdevs", On("display", part))
    IN  \/ Start("backends_init", "server_init", opened)
        \/ Fail("backends_init", "err_server", backends_fini(opened))
        \/ Fail("backends_init", "err_server", backends_fini(Finish("evdevs", opened)))
        \/ Start("backends_init", "crashed", part)

backends_init ==
    LET opened == On("evdevs", On("display", part))
    IN  \/ Start("backends_init", "server_init", opened)
        \/ Fail("backends_init", "err_backends", backends_fini(opened))
        \/ Fail("backends_init", "err_backends", backends_fini(Finish("evdevs", opened)))
        \/ Start("backends_init", "crashed", part)

server_init ==
    \/ Start("server_init", "monitor_init", part)
    \/ Fail("server_init", "err_server", part)

\* There is no test of the boot image, without which it crashes.
monitor_init ==
    \/ Start("monitor_init", "iopoll_init", part)
    \/ Start("monitor_init", "crashed", part)

-----------------------------------------------------------------------------
(* iopoll_init and the set-up of the polling thread.                       *)

\* iopoll_init takes the mutex only after it has created the thread.
iopoll_init_late ==
    /\ \/ /\ at["main"] = "iopoll_init" /\ at["io"] = "none"
          /\ at' = [main |-> "cond_wait", io |-> "created"]
          /\ UNCHANGED <<ret, mtx_init>>
       \/ /\ Go("main", "iopoll_init", "err_server")
          /\ ret' = -1
          /\ UNCHANGED mtx_init
    /\ UNCHANGED <<keysVars, part, init_success, watched, blocked, early>>

\* main holds the mutex from before it creates the thread until it waits.
iopoll_init ==
    /\ \/ /\ at["main"] = "iopoll_init" /\ at["io"] = "none"
          /\ at' = [main |-> "cond_wait", io |-> "created"]
          /\ mtx_init' = "main"
          /\ UNCHANGED ret
       \/ /\ Go("main", "iopoll_init", "err_server")
          /\ ret' = -1
          /\ UNCHANGED mtx_init
    /\ UNCHANGED <<keysVars, part, init_success, watched, blocked, early>>

CondWait ==
    /\ Go("main", "cond_wait", "waiting")
    /\ mtx_init' = "free"
    /\ UNCHANGED <<keysVars, part, init_success, watched, ret, blocked, early>>

WakeEarly ==
    /\ SpuriousWakeups
    /\ Go("main", "waiting", "woken")
    /\ early' = TRUE
    /\ UNCHANGED <<keysVars, part, mtx_init, init_success, watched, ret, blocked>>

\* The wait ends by taking the mutex, which main gives back at once.
TakeMutex ==
    /\ mtx_init = "free"
    /\ Go("main", "woken", "init_success")
    /\ UNCHANGED <<keysVars, part, mtx_init, init_success, watched, ret, blocked, early>>

TestInitSuccess ==
    \/ init_success /\ Start("init_success", "sigaction", part)
    \/ ~init_success /\ Fail("init_success", "err_server", part)

\* The first lines of iopoll_thread.
IoLock ==
    /\ mtx_init = "free" /\ mtx_init' = "io"
    /\ Go("io", "created", "setup")
    /\ init_success' = TRUE
    /\ UNCHANGED <<keysVars, part, watched, ret, blocked, early>>

\* The result for the server replaces that for the backends.
IoSetup_last ==
    /\ Go("io", "setup", "cond_signal")
    /\ \E n \in 0..Len(BackendFds), server \in {{}, {"server"}} :
        /\ watched' = {BackendFds[i] : i \in 1..n} \cup server
        /\ init_success' = (server # {})
    /\ mtx_init' = "free"
    /\ UNCHANGED <<keysVars, part, ret, blocked, early>>

\* The loop over the backends stops at the first descriptor that cannot be
\* waited for; that of the server is tried in any case.
IoSetup ==
    /\ Go("io", "setup", "cond_signal")
    /\ \E n \in 0..Len(BackendFds), server \in {{}, {"server"}} :
        /\ watched' = {BackendFds[i] : i \in 1..n} \cup server
        /\ init_success' = (n = Len(BackendFds) /\ server # {})
    /\ mtx_init' = "free"
    /\ UNCHANGED <<keysVars, part, ret, blocked, early>>

IoSignal ==
    /\ Alive /\ at["io"] = "cond_signal"
    /\ at' = [main |-> IF at["main"] = "waiting" THEN "woken" ELSE at["main"],
              io |-> "init_success"]
    /\ UNCHANGED <<keysVars, part, mtx_init, init_success, watched, ret, blocked, early>>

\* The thread polls whether it could set itself up or not.
IoTestInitSuccess_ignored ==
    /\ Go("io", "init_success", "epoll_wait")
    /\ UNCHANGED <<keysVars, part, mtx_init, init_success, watched, ret, blocked, early>>

IoTestInitSuccess ==
    /\ Go("io", "init_success", IF init_success THEN "epoll_wait" ELSE "done")
    /\ UNCHANGED <<keysVars, part, mtx_init, init_success, watched, ret, blocked, early>>

-----------------------------------------------------------------------------
(* The polling thread at work.  What is ready on the standard input goes   *)
(* to backends that ignore it, and a batch of epoll_wait is dispatched one *)
(* by one, so nothing is lost by waiting for each.                         *)

\* The descriptor of a part that is ended has left epoll_fd.
EpollWait(fd, place, p, ready) ==
    /\ Go("io", "epoll_wait", place)
    /\ fd \in watched /\ part[p] = "on" /\ ready
    /\ UNCHANGED <<keysVars, part, mtx_init, init_success, watched, ret, blocked, early>>

EvdevReady == EpollWait("evdev", "evdev_dispatch", "evdevs", Ready # {})
WaylandReady ==
    EpollWait("wayland", "wl_display_dispatch", "display", focus_news # <<>>)

\* What it dispatches may have been ended since: a crash.
Dispatch(place, p, dispatch) ==
    /\ \/ part[p] = "on" /\ Go("io", place, "epoll_wait") /\ dispatch
       \/ /\ part[p] # "on" /\ Alive /\ at["io"] = place
          /\ at' = [at EXCEPT !["main"] = "crashed"]
          /\ UNCHANGED keysVars
    /\ UNCHANGED <<part, mtx_init, init_success, watched, ret, blocked, early>>

DispatchKeys == Dispatch("evdev_dispatch", "evdevs", evdev_dispatch)
DispatchDisplay == Dispatch("wl_display_dispatch", "display", WaylandDispatch)

\* The user is at the keyboards and the windows.  (What comes before the thread
\* polls waits in the devices as if it came then; what comes while the process
\* ends is left out.)
Polling == at["io"] \in {"epoll_wait", "evdev_dispatch", "wl_display_dispatch"}
UseKeys ==
    /\ at["main"] \notin Labels \cup Ended /\ Polling
    /\ \/ part["evdevs"] = "on" /\ \E d \in Devices :
            TypeOther(d) \/ \E k \in Typed, value \in 0..2 : Type(d, k, value)
       \/ part["display"] = "on" /\ \E focused \in BOOLEAN : SendFocus(focused)
    /\ UNCHANGED processVars

-----------------------------------------------------------------------------
(* The interrupt and the end.                                              *)

Sigaction == Start("sigaction", "setjmp", part)
Setjmp == Start("setjmp", "monitor_run", part)

\* Before sigaction the interrupt kills the process; before setjmp there is
\* nowhere to jump to.
Interrupt ==
    /\ Alive
    /\ \/ /\ "main" \notin blocked
          /\ \/ /\ at["main"] = "monitor_run"
                /\ at' = [at EXCEPT !["main"] = "err_server"]
                /\ ret' = 1 /\ blocked' = blocked \cup {"main"}
             \/ /\ at["main"] # "monitor_run"
                /\ at' = [at EXCEPT !["main"] = IF @ = "setjmp" THEN "crashed" ELSE "killed"]
                /\ UNCHANGED <<ret, blocked>>
       \/ /\ "main" \in blocked /\ "io" \notin blocked /\ at["io"] # "done"
          /\ at' \in {[at EXCEPT !["main"] = "crashed"], [at EXCEPT !["io"] = "err_server"]}
          /\ ret' = 1 /\ blocked' = Threads
    /\ UNCHANGED <<keysVars, part, mtx_init, init_success, watched, early>>

\* The end of main, whichever thread runs it; whoever returns ends them all.
EndOf(t) ==
    /\ \/ Go(t, "err_server", "evdev_fini") /\ part' = Finish("display", part)
       \/ Go(t, "evdev_fini", "err_backends") /\ part' = Finish("evdevs", part)
       \/ /\ Alive /\ at[t] = "err_backends"
          /\ at' = [at EXCEPT !["main"] = "exited"]
          /\ part' = Finish("rom", Finish("render", part))
    /\ UNCHANGED <<keysVars, mtx_init, init_success, watched, ret, blocked, early>>

MainStep ==
    \/ OpenRom \/ render_init \/ backends_init \/ server_init \/ monitor_init
    \/ iopoll_init \/ CondWait \/ TakeMutex \/ TestInitSuccess
    \/ Sigaction \/ Setjmp \/ EndOf("main")
IoStep ==
    \/ IoLock \/ IoSetup \/ IoSignal \/ IoTestInitSuccess
    \/ EvdevReady \/ WaylandReady \/ DispatchKeys \/ DispatchDisplay
    \/ EndOf("io")
Next == MainStep \/ IoStep \/ WakeEarly \/ Interrupt \/ UseKeys

Spec == Init /\ [][Next]_vars

\* Neither thread is held up for ever where it can go on.  A batch of epoll_wait
\* holds whatever is ready and all of it is dispatched, so evdev is not passed
\* over for ever in favour of the display.  Nothing of the kind is assumed of one
\* device against another.
FairSpec ==
    /\ Spec
    /\ WF_vars(MainStep) /\ WF_vars(IoStep)
    /\ SF_vars(EvdevReady)

-----------------------------------------------------------------------------
(* Correctness.                                                            *)

Running == at["main"] \in {"sigaction", "setjmp", "monitor_run"}

\* main emulates only with a polling thread that has set itself up and waits for
\* every descriptor, as iopoll_init is there to make sure: unless a spurious
\* wakeup made it read init_success while the thread was still at it.
StartMeansPolling ==
    Running /\ ~early =>
        /\ at["io"] \notin {"none", "created", "setup", "done"}
        /\ watched = Fds

\* Whatever fails, whatever is interrupted, main ends each part it has started
\* before it returns, and none that is not on.  The exceptions: evdev_init ends
\* the devices when one of them fails, and backends_init does again; a second
\* interrupt sends the polling thread through the end of main as well.
EachEndedOnce ==
    /\ at["main"] = "exited" => \A p \in Parts : part[p] # "on"
    /\ \A p \in Parts : part[p] = "again" =>
        \/ blocked = Threads
        \/ p = "evdevs" /\ at["io"] = "none" /\ ret = -1

\* The polling thread dispatches to a backend that is on, as long as the user
\* has not interrupted main and no spurious wakeup has made it give up.
UsedWhileOn ==
    (ret # 1 /\ ~early) =>
        /\ at["io"] = "evdev_dispatch" => part["evdevs"] = "on"
        /\ at["io"] = "wl_display_dispatch" => part["display"] = "on"

\* The start comes to an end, and so does a process that is interrupted: main
\* is not held up for ever anywhere, and least of all in pthread_cond_wait.
MainMovesOn == <>[](at["main"] \in {"monitor_run"} \cup Ended)

\* An event that is on its way from a device is handled in the end, with two
\* exceptions.  The device has to go on having something new: what libevdev has
\* read ahead is only seen then.  And the polling thread must not be kept busy for
\* ever with the keys of another: evdev_dispatch returns after one of them, and
\* nothing in it sees to it that every device has its turn.  (Stated for the keys
\* of a device that are let go for good.)
OnItsWay(d, k) == \E n \in DOMAIN Waiting(d) : Waiting(d)[n].key = k
TakesKeyOf(e) ==
    AcceptedAt(Waiting(e)) # {} /\ Len(Waiting(e)') < Len(Waiting(e))
KeysAreHandled ==
    <>[](Alive /\ Polling) =>
        \A d \in Devices, k \in Typed :
            []<>(device[d] # <<>>) /\ <>[](<<d, k>> \notin held) =>
                \/ <>[]~OnItsWay(d, k)
                \/ \E e \in Devices \ {d} : []<><<TakesKeyOf(e)>>_vars

=============================================================================
