---------------------------- MODULE ProcessProofs ---------------------------
(***************************************************************************)
(* Proofs about Process and its Keys, for any keyboards and keys, any      *)
(* number of events that wait, with or without spurious wakeups: the       *)
(* handshake of iopoll_init, that each part is ended once and used only    *)
(* while it is on, and that no button sticks.                              *)
(***************************************************************************)
EXTENDS Process, SequenceTheorems, TLAPS

\* Where main is before it creates the polling thread, and after.
Before ==
    {"open", "render_init", "backends_init", "server_init", "monitor_init",
     "iopoll_init"}
After ==
    {"cond_wait", "waiting", "woken", "init_success", "sigaction", "setjmp",
     "monitor_run"}
AllOn == \A p \in Parts : part[p] = "on"

PlacesInv ==
    /\ at \in [Threads -> MainPlaces \cup IoPlaces]
    /\ at["main"] \in MainPlaces /\ at["io"] \in IoPlaces
    /\ part \in [Parts -> {"off", "on", "ended", "again"}]
    /\ init_success \in BOOLEAN /\ early \in BOOLEAN
    /\ ret \in {-1, 0, 1}

\* main is in the wait, or has been told, while the thread goes through its
\* set-up: what it then reads in init_success is the thread's final word.
HandshakeInv ==
    /\ at["main"] \in Before => at["io"] = "none"
    /\ at["main"] \in After => at["io"] # "none"
    /\ at["main"] = "cond_wait" => mtx_init = "main" /\ at["io"] = "created"
    /\ at["main"] \in {"woken", "init_success", "sigaction", "setjmp", "monitor_run"}
         /\ ~early => at["io"] \notin {"none", "created", "setup", "cond_signal"}
    /\ at["io"] \in {"cond_signal", "init_success", "done"} \/ Polling
         => (init_success => watched = Fds)
    /\ at["io"] = "done" => ~init_success
    /\ Polling => init_success
    /\ Running /\ ~early => init_success

\* Who blocks the interrupt: nobody, main from the first one on, or both.
BlockedInv ==
    /\ blocked \in {{}, {"main"}, Threads}
    /\ blocked # {} => at["main"] \in Labels \cup Ended /\ ret = 1
    /\ at["io"] \in Labels => blocked = Threads

\* What is on at each place of main, as long as it ends the parts alone.
StartedInv ==
    blocked # Threads =>
        /\ at["main"] = "open" => \A p \in Parts : part[p] = "off"
        /\ at["main"] = "render_init" =>
              part["rom"] = "on" /\ \A p \in Parts \ {"rom"} : part[p] = "off"
        /\ at["main"] = "backends_init" =>
              /\ part["rom"] = "on" /\ part["render"] = "on"
              /\ part["display"] = "off" /\ part["evdevs"] = "off"
        /\ at["main"] \in {"server_init", "monitor_init", "iopoll_init"} \cup After
              \cup {"err_server"} => AllOn
        /\ at["main"] = "evdev_fini" =>
              part["rom"] = "on" /\ part["render"] = "on" /\ part["evdevs"] = "on"
        /\ at["main"] = "err_backends" => part["rom"] = "on" /\ part["render"] = "on"

\* What the end of main has ended, in whichever thread, and how often.
EndedInv ==
    /\ \A t \in Threads :
          /\ at[t] \in {"evdev_fini", "err_backends"} => part["display"] # "on"
          /\ at[t] = "err_backends" => part["evdevs"] # "on"
    /\ EachEndedOnce

\* A start that main gives up leaves a thread that does not poll; all parts are
\* on for one that may.
PollingInv ==
    ret # 1 /\ ~early /\ at["io"] # "none" =>
        /\ at["main"] \in Labels =>
              ~init_success /\ at["io"] \in {"init_success", "done"}
        /\ init_success => AllOn

ProcessInv ==
    /\ PlacesInv /\ HandshakeInv /\ BlockedInv /\ StartedInv /\ EndedInv /\ PollingInv

\* The set-up that succeeds has all the descriptors.
LEMMA AllFds == {BackendFds[i] : i \in 1..Len(BackendFds)} \cup {"server"} = Fds
  <1>1. Len(BackendFds) = 3
    BY DEF BackendFds
  <1>2. BackendFds[1] = "wayland" /\ BackendFds[2] = "stdin" /\ BackendFds[3] = "evdev"
    BY DEF BackendFds
  <1>3. 1..3 = {1, 2, 3}
    OBVIOUS
  <1>4. {BackendFds[i] : i \in {1, 2, 3}} = {"wayland", "stdin", "evdev"}
    BY <1>2, Zenon
  <1>5. {BackendFds[i] : i \in 1..Len(BackendFds)} = {"wayland", "stdin", "evdev"}
    BY <1>1, <1>3, <1>4, Zenon
  <1> QED BY <1>5, Zenon DEF Fds

\* The process starts in the invariant.
LEMMA ProcessInit == Init => ProcessInv
  <1> USE DEF Before, After, AllOn, Running, Polling, Threads, Parts, Labels, Ended,
             MainPlaces, IoPlaces
  <1> SUFFICES ASSUME Init PROVE ProcessInv
    OBVIOUS
  <1>1. at = [main |-> "open", io |-> "none"]
    BY DEF Init
  <1>2. at["main"] = "open" /\ at["io"] = "none"
    BY <1>1
  <1>3. at \in [Threads -> MainPlaces \cup IoPlaces]
    BY <1>1
  <1>4. part \in [Parts -> {"off", "on", "ended", "again"}]
    BY DEF Init
  <1>5. \A p \in Parts : part[p] = "off"
    BY DEF Init
  <1>6. init_success = FALSE /\ early = FALSE /\ ret = 0 /\ blocked = {}
    BY DEF Init
  <1>7. PlacesInv
    BY <1>2, <1>3, <1>4, <1>6 DEF PlacesInv
  <1>8. HandshakeInv
    BY <1>2, <1>6 DEF HandshakeInv
  <1>9. BlockedInv
    BY <1>2, <1>6 DEF BlockedInv
  <1>10. StartedInv
    BY <1>2, <1>5 DEF StartedInv
  <1>11. EndedInv
    BY <1>2, <1>5 DEF EndedInv, EachEndedOnce
  <1>12. PollingInv
    BY <1>2 DEF PollingInv
  <1> QED BY <1>7, <1>8, <1>9, <1>10, <1>11, <1>12 DEF ProcessInv

\* And it stays in it, whatever main, the polling thread, the user or a spurious
\* wakeup does.
LEMMA ProcessStep == ProcessInv /\ [Next]_vars => ProcessInv'
  <1> USE DEF ProcessInv, PlacesInv, HandshakeInv, BlockedInv, StartedInv, EndedInv,
             PollingInv, EachEndedOnce, Before, After, AllOn, Running, Polling,
             Threads, Parts, Labels, Ended, MainPlaces, IoPlaces
  <1> SUFFICES ASSUME ProcessInv, [Next]_vars PROVE ProcessInv'
    OBVIOUS
  <1>1. CASE OpenRom
    BY <1>1 DEF OpenRom, Start, Fail, Go, Alive, On, Finish
  <1>2. CASE render_init
    BY <1>2 DEF render_init, Start, Fail, Go, Alive, On, Finish
  <1>3. CASE backends_init
    BY <1>3 DEF backends_init, backends_fini, Start, Fail, Go, Alive, On, Finish
  <1>4. CASE server_init
    BY <1>4 DEF server_init, Start, Fail, Go, Alive
  <1>5. CASE monitor_init
    BY <1>5 DEF monitor_init, Start, Go, Alive
  <1>6. CASE iopoll_init
    BY <1>6 DEF iopoll_init, Go, Alive
  <1>7. CASE CondWait
    BY <1>7 DEF CondWait, Go, Alive
  <1>8. CASE TakeMutex
    BY <1>8 DEF TakeMutex, Go, Alive
  <1>9. CASE TestInitSuccess
    BY <1>9 DEF TestInitSuccess, Start, Fail, Go, Alive
  <1>10. CASE Sigaction
    BY <1>10 DEF Sigaction, Start, Go, Alive
  <1>11. CASE Setjmp
    BY <1>11 DEF Setjmp, Start, Go, Alive
  <1>12. CASE IoLock
    BY <1>12 DEF IoLock, Go, Alive
  <1>13. CASE IoSetup
    <2>1. PICK n \in 0..Len(BackendFds), server \in {{}, {"server"}} :
             /\ watched' = {BackendFds[i] : i \in 1..n} \cup server
             /\ init_success' = (n = Len(BackendFds) /\ server # {})
      BY <1>13 DEF IoSetup
    <2>2. init_success' \in BOOLEAN
      BY <2>1
    <2>3. ASSUME init_success' PROVE watched' = Fds
      <3>1. n = Len(BackendFds) /\ server = {"server"}
        BY <2>1, <2>3
      <3> QED BY <2>1, <3>1, AllFds, Zenon
    <2>4. /\ at["io"] = "setup" /\ Alive
          /\ at' = [at EXCEPT !["io"] = "cond_signal"]
          /\ UNCHANGED <<part, ret, blocked, early>>
          /\ mtx_init' = "free"
      BY <1>13 DEF IoSetup, Go
    <2>5. at'["io"] = "cond_signal" /\ at'["main"] = at["main"]
      BY <2>4
    <2>6. PlacesInv'
      BY <2>2, <2>4, <2>5
    <2>7. HandshakeInv'
      BY <2>3, <2>4, <2>5
    <2>8. BlockedInv' /\ StartedInv' /\ EndedInv'
      BY <2>4, <2>5
    <2>9. PollingInv'
      \* While the thread sets itself up, main has not given up the start.
      <3>1. ret # 1 /\ ~early => at["main"] \notin Labels
        BY <2>4
      <3>2. ret # 1 /\ ~early => AllOn'
        BY <2>4, <3>1 DEF Alive
      <3> QED BY <2>4, <2>5, <3>1, <3>2
    <2> QED BY <2>6, <2>7, <2>8, <2>9 DEF ProcessInv
  <1>14. CASE IoSignal
    BY <1>14 DEF IoSignal, Alive
  <1>15. CASE IoTestInitSuccess
    BY <1>15 DEF IoTestInitSuccess, Go, Alive
  <1>16. CASE EvdevReady
    BY <1>16 DEF EvdevReady, EpollWait, Go, Alive
  <1>17. CASE WaylandReady
    BY <1>17 DEF WaylandReady, EpollWait, Go, Alive
  <1>18. CASE DispatchKeys
    BY <1>18 DEF DispatchKeys, Dispatch, Go, Alive
  <1>19. CASE DispatchDisplay
    BY <1>19 DEF DispatchDisplay, Dispatch, Go, Alive
  <1>20. CASE WakeEarly
    BY <1>20 DEF WakeEarly, Go, Alive
  <1>21. CASE Interrupt
    BY <1>21 DEF Interrupt, Alive
  <1>22. CASE UseKeys
    BY <1>22 DEF UseKeys, processVars
  <1>23. CASE EndOf("main")
    BY <1>23 DEF EndOf, Go, Alive, Finish
  <1>24. CASE EndOf("io")
    BY <1>24 DEF EndOf, Go, Alive, Finish
  <1>25. CASE UNCHANGED vars
    BY <1>25 DEF vars, processVars
  <1> QED
    BY <1>1, <1>2, <1>3, <1>4, <1>5, <1>6, <1>7, <1>8, <1>9, <1>10,
       <1>11, <1>12, <1>13, <1>14, <1>15, <1>16, <1>17, <1>18, <1>19,
       <1>20, <1>21, <1>22, <1>23, <1>24, <1>25 DEF Next, MainStep,
       IoStep

\* The invariant of the process.
THEOREM ProcessInvariant == Spec => []ProcessInv
  BY ProcessInit, ProcessStep, PTL DEF Spec

\* A start that succeeds has a polling thread that waits for every descriptor.
THEOREM StartedPolling == Spec => []StartMeansPolling
  <1>1. ProcessInv => StartMeansPolling
    BY DEF ProcessInv, PlacesInv, HandshakeInv, BlockedInv, StartMeansPolling, Running,
           Polling, Labels, Ended, Threads, IoPlaces, MainPlaces
  <1> QED BY <1>1, ProcessInvariant, PTL

\* What is started is ended, and once.
THEOREM EndedOnce == Spec => []EachEndedOnce
  <1>1. ProcessInv => EachEndedOnce
    BY DEF ProcessInv, EndedInv
  <1> QED BY <1>1, ProcessInvariant, PTL

\* The polling thread dispatches to what is on.
THEOREM DispatchedWhileOn == Spec => []UsedWhileOn
  <1>1. ProcessInv => UsedWhileOn
    BY DEF ProcessInv, HandshakeInv, PollingInv, UsedWhileOn, AllOn, Polling, Parts
  <1> QED BY <1>1, ProcessInvariant, PTL

-----------------------------------------------------------------------------
(* No button sticks.                                                        *)

\* v is w without its first n events.
Behind(v, w, n) ==
    /\ Len(v) = Len(w) - n
    /\ \A i \in 1..Len(v) : v[i] = w[i + n]

\* v is w with one event more.
Grown(v, w, ev) ==
    /\ Len(v) = Len(w) + 1
    /\ \A i \in 1..Len(w) : v[i] = w[i]
    /\ v[Len(w) + 1] = ev

-----------------------------------------------------------------------------
(* Events in a queue.                                                       *)

LEMMA EventKeys ==
    ASSUME NEW ev \in Events, ev.key \in Accepted
    PROVE  ev.key \in Typed /\ ev.value \in 0..2 /\ ButtonOf[ev.key] \in Buttons
  <1>1. "other" \notin Accepted
    BY DEF Accepted, ButtonOf
  <1>2. ev # Other
    BY <1>1 DEF Other
  <1>3. ButtonOf[ev.key] \in Buttons
    BY DEF Accepted, ButtonOf, Buttons
  <1> QED BY <1>2, <1>3 DEF Events

LEMMA BehindLetGo ==
    ASSUME NEW v \in Seq(Events), NEW w \in Seq(Events), NEW n \in 0..Len(w),
           NEW k, Behind(v, w, n), LetGo(w, k)
    PROVE  LetGo(v, k)
  <1> SUFFICES ASSUME NEW i \in DOMAIN v, v[i].key = k, v[i].value # 0
               PROVE  \E m \in DOMAIN v : m > i /\ v[m].key = k /\ v[m].value = 0
    BY DEF LetGo
  <1>1. i + n \in DOMAIN w /\ w[i + n] = v[i]
    BY DEF Behind
  <1>2. PICK m \in DOMAIN w : m > i + n /\ w[m].key = k /\ w[m].value = 0
    BY <1>1 DEF LetGo
  <1>3. m - n \in 1..Len(v) /\ m - n > i
    BY <1>2 DEF Behind
  <1>4. v[m - n] = w[(m - n) + n]
    BY <1>3 DEF Behind
  <1>5. (m - n) + n = m
    OBVIOUS
  <1> QED BY <1>2, <1>3, <1>4, <1>5

\* What there is stays where it is.
LEMMA GrownKeeps ==
    ASSUME NEW v \in Seq(Events), NEW w \in Seq(Events), NEW ev, Grown(v, w, ev)
    PROVE  /\ \A n \in DOMAIN w : n \in DOMAIN v /\ v[n] = w[n]
           /\ Len(w) + 1 \in DOMAIN v /\ v[Len(w) + 1] = ev
  BY DEF Grown

\* A key's release, or an event of another key, comes behind what there is.
LEMMA GrownLetGo ==
    ASSUME NEW v \in Seq(Events), NEW w \in Seq(Events), NEW ev \in Events,
           NEW k, Grown(v, w, ev), LetGo(w, k) \/ ev.key = k,
           ev.key = k => ev.value = 0
    PROVE  LetGo(v, k)
  <1> SUFFICES ASSUME NEW i \in DOMAIN v, v[i].key = k, v[i].value # 0
               PROVE  \E m \in DOMAIN v : m > i /\ v[m].key = k /\ v[m].value = 0
    BY DEF LetGo
  <1>1. i \in DOMAIN w /\ w[i] = v[i]
    BY DEF Grown
  <1>2. CASE ev.key = k
    BY <1>1, <1>2 DEF Grown
  <1>3. CASE LetGo(w, k)
    <2>1. PICK m \in DOMAIN w : m > i /\ w[m].key = k /\ w[m].value = 0
      BY <1>1, <1>3 DEF LetGo
    <2> QED BY <2>1 DEF Grown
  <1> QED BY <1>2, <1>3

-----------------------------------------------------------------------------
(* What the steps do to what waits.                                         *)

LEMMA WaitingType ==
    ASSUME KeysTypeOK
    PROVE  \A d \in Devices : Waiting(d) \in Seq(Events)
  BY DEF KeysTypeOK, Waiting

LEMMA PutGrows ==
    ASSUME KeysTypeOK, NEW d \in Devices, NEW ev \in Events, Put(d, ev)
    PROVE  /\ device' \in [Devices -> Seq(Events)]
           /\ Grown(Waiting(d)', Waiting(d), ev)
           /\ \A e \in Devices \ {d} : Waiting(e)' = Waiting(e)
  <1> DEFINE a == ahead[d]
             s == device[d]
  <1>1. a \in Seq(Events) /\ s \in Seq(Events)
    BY DEF KeysTypeOK
  <1>2. /\ device' = [device EXCEPT ![d] = Append(@, ev)]
        /\ ahead' = ahead
    BY DEF Put
  <1>3. device'[d] = Append(s, ev) /\ \A e \in Devices \ {d} : device'[e] = device[e]
    BY <1>2 DEF KeysTypeOK
  <1>4. Grown(a \o Append(s, ev), a \o s, ev)
    <2> HIDE DEF a, s
    <2>1. a \o Append(s, ev) = Append(a \o s, ev)
      BY <1>1
    <2>2. Grown(Append(a \o s, ev), a \o s, ev)
      BY <1>1, ConcatProperties, AppendProperties DEF Grown
    <2> QED BY <2>1, <2>2
  <1>5. device' \in [Devices -> Seq(Events)]
    BY <1>1, <1>2 DEF KeysTypeOK
  <1> QED BY <1>2, <1>3, <1>4, <1>5 DEF Waiting

LEMMA TakeLeaves ==
    ASSUME KeysTypeOK, NEW d \in Ready, NEW n \in DOMAIN Waiting(d),
           NEW passed \in SUBSET (Ready \ {d}), Take(d, n, passed)
    PROVE  /\ device' \in [Devices -> Seq(Events)]
           /\ ahead' \in [Devices -> Seq(Events)]
           /\ Behind(Waiting(d)', Waiting(d), n)
           /\ \A e \in passed : Waiting(e)' = <<>>
           /\ \A e \in Devices \ (passed \cup {d}) : Waiting(e)' = Waiting(e)
  <1> USE DEF KeysTypeOK, Ready
  <1>1. PICK read \in {<<>>, device[d]} :
        /\ n <= Len(ahead[d] \o read)
        /\ device' = [e \in Devices |->
             IF e \in passed \/ (e = d /\ read # <<>>) THEN <<>> ELSE device[e]]
        /\ ahead' = [e \in Devices |->
             IF e = d THEN SubSeq(ahead[d] \o read, n + 1, Len(ahead[d] \o read))
             ELSE IF e \in passed THEN <<>> ELSE ahead[e]]
    BY DEF Take
  <1> DEFINE a == ahead[d]
             s == device[d]
             q == a \o read
             rest == SubSeq(q, n + 1, Len(q))
  <1>2. /\ a \in Seq(Events) /\ s \in Seq(Events) /\ read \in Seq(Events)
        /\ n \in Nat \ {0} /\ d \in Devices
    <2>1. a \in Seq(Events) /\ s \in Seq(Events) /\ d \in Devices
      OBVIOUS
    <2>2. read \in Seq(Events)
      BY <2>1, EmptySeq
    <2>3. Waiting(d) \in Seq(Events)
      BY <2>1, ConcatProperties DEF Waiting
    <2>4. n \in 1..Len(Waiting(d))
      BY <2>3, LenProperties
    <2> QED BY <2>1, <2>2, <2>3, <2>4, LenProperties
  <1>3. q \in Seq(Events) /\ n <= Len(q)
    BY <1>1, <1>2
  <1>4. /\ rest \in Seq(Events)
        /\ Len(rest) = Len(q) - n
        /\ \A i \in 1..Len(rest) : rest[i] = q[i + n]
    <2> HIDE DEF q
    <2>1. Len(q) \in Nat /\ \A i \in (n + 1)..Len(q) : q[i] \in Events
      BY <1>2, <1>3, LenProperties, ElementOfSeq
    <2>2. /\ rest \in Seq(Events)
          /\ Len(rest) = IF n + 1 <= Len(q) THEN Len(q) - (n + 1) + 1 ELSE 0
          /\ \A i \in 1..(Len(q) - (n + 1) + 1) : rest[i] = q[(n + 1) + i - 1]
      BY <1>2, <2>1, SubSeqProperties
    <2>3. \A i \in Nat : (n + 1) + i - 1 = i + n
      BY <1>2
    <2> HIDE DEF rest
    <2>4. Len(rest) = Len(q) - n
      BY <1>2, <1>3, <2>1, <2>2
    <2>5. \A i \in 1..Len(rest) : rest[i] = q[i + n]
      <3> TAKE i \in 1..Len(rest)
      <3>1. i \in 1..(Len(q) - (n + 1) + 1) /\ i \in Nat
        BY <1>2, <2>1, <2>4
      <3>2. rest[i] = q[(n + 1) + i - 1]
        BY <2>2, <3>1
      <3> QED BY <2>3, <3>1, <3>2
    <2> QED BY <2>2, <2>4, <2>5
  <1>5. device' \in [Devices -> Seq(Events)] /\ ahead' \in [Devices -> Seq(Events)]
    <2>1. <<>> \in Seq(Events)
      OBVIOUS
    <2> HIDE DEF rest
    <2> QED BY <1>1, <1>4, <2>1 DEF rest
  <1>6. Behind(Waiting(d)', Waiting(d), n)
    <2>1. CASE read = <<>>
      <3>1. Waiting(d)' = rest \o s
        BY <1>1, <1>2, <2>1 DEF Waiting
      <3>2. q = a
        BY <1>2, <2>1
      <3>3. Behind(rest \o s, a \o s, n)
        <4> HIDE DEF rest, q, a, s
        <4>1. /\ Len(rest) = Len(a) - n /\ rest \in Seq(Events)
              /\ \A i \in 1..Len(rest) : rest[i] = a[i + n]
          BY <1>4, <3>2
        <4>2. /\ Len(rest \o s) = Len(rest) + Len(s)
              /\ Len(a \o s) = Len(a) + Len(s)
              /\ Len(a) \in Nat /\ Len(s) \in Nat /\ Len(rest) \in Nat
          <5>1. rest \in Seq(Events) /\ a \in Seq(Events) /\ s \in Seq(Events)
            BY <1>2, <4>1
          <5>2. Len(rest \o s) = Len(rest) + Len(s)
            BY <5>1, ConcatProperties
          <5>3. Len(a \o s) = Len(a) + Len(s)
            BY <5>1, ConcatProperties
          <5>4. Len(a) \in Nat /\ Len(s) \in Nat /\ Len(rest) \in Nat
            BY <5>1, LenProperties
          <5> QED BY <5>2, <5>3, <5>4
        <4>3. ASSUME NEW i \in 1..Len(rest \o s)
              PROVE  (rest \o s)[i] = (a \o s)[i + n]
          <5>1. /\ i \in 1..(Len(rest) + Len(s))
                /\ i + n \in 1..(Len(a) + Len(s))
            BY <1>2, <4>1, <4>2
          <5>2. /\ (rest \o s)[i] = IF i <= Len(rest) THEN rest[i] ELSE s[i - Len(rest)]
                /\ (a \o s)[i + n] =
                     IF i + n <= Len(a) THEN a[i + n] ELSE s[(i + n) - Len(a)]
            <6>1. rest \in Seq(Events) /\ s \in Seq(Events)
              BY <1>2, <4>1
            <6>2. (rest \o s)[i] = IF i <= Len(rest) THEN rest[i] ELSE s[i - Len(rest)]
              BY <5>1, <6>1, ConcatProperties
            <6>3. (a \o s)[i + n] =
                    IF i + n <= Len(a) THEN a[i + n] ELSE s[(i + n) - Len(a)]
              BY <1>2, <5>1, ConcatProperties
            <6> QED BY <6>2, <6>3
          <5>3. (i + n) - Len(a) = i - Len(rest) /\ (i + n <= Len(a) <=> i <= Len(rest))
            BY <1>2, <4>1, <4>2
          <5> QED BY <4>1, <4>2, <5>2, <5>3
        <4>4. Len(rest \o s) = Len(a \o s) - n
          BY <1>2, <4>1, <4>2
        <4> QED BY <4>3, <4>4 DEF Behind
      <3> QED BY <3>1, <3>3 DEF Waiting
    <2>2. CASE read = s
      <3>1. Waiting(d)' = rest \o <<>>
        BY <1>1, <1>2, <2>2 DEF Waiting
      <3>2. Behind(rest \o <<>>, q, n)
        <4> HIDE DEF rest, q
        <4> QED BY <1>3, <1>4 DEF Behind
      <3> QED BY <2>2, <3>1, <3>2 DEF Waiting
    <2> QED BY <2>1, <2>2
  <1>7. \A e \in passed : Waiting(e)' = <<>>
    BY <1>1 DEF Waiting
  <1>8. \A e \in Devices \ (passed \cup {d}) : Waiting(e)' = Waiting(e)
    BY <1>1 DEF Waiting
  <1> QED BY <1>5, <1>6, <1>7, <1>8

-----------------------------------------------------------------------------
(* The invariant, one step at a time.                                       *)

\* What stays busy: while no key is let go without an event of it behind, and no
\* accepted event leaves.
LEMMA StaysBusy ==
    ASSUME NEW b \in Buttons, Busy(b),
           \A d \in Devices, k \in Accepted :
               ButtonOf[k] = b /\ <<d, k>> \in held =>
                   \/ <<d, k>> \in held'
                   \/ \E n \in DOMAIN Waiting(d)' : Waiting(d)'[n].key = k,
           \A d \in Devices : \A n \in DOMAIN Waiting(d) :
               Waiting(d)[n].key \in Accepted /\ ButtonOf[Waiting(d)[n].key] = b =>
                   \E m \in DOMAIN Waiting(d)' : Waiting(d)'[m] = Waiting(d)[n]
    PROVE  Busy(b)'
  BY DEF Busy

LEMMA TypeStep ==
    ASSUME KeysInv, NEW d \in Devices, NEW k \in Typed, NEW value \in 0..2,
           Type(d, k, value)
    PROVE  KeysInv'
  <1> DEFINE ev == [key |-> k, value |-> value]
  <1>1. ev \in Events
    BY DEF Events
  <1>2. /\ device' \in [Devices -> Seq(Events)]
        /\ Grown(Waiting(d)', Waiting(d), ev)
        /\ \A e \in Devices \ {d} : Waiting(e)' = Waiting(e)
    <2> HIDE DEF ev
    <2> QED BY <1>1, PutGrows DEF KeysInv, Type, ev
  <1>3. /\ UNCHANGED <<ahead, focus_news, is_surface_focused, released, missed>>
        /\ held' = IF value = 0 THEN held \ {<<d, k>>} ELSE held \cup {<<d, k>>}
    BY DEF Type, Put
  <1>4. KeysTypeOK'
    BY <1>2, <1>3 DEF KeysInv, KeysTypeOK
  <1>5. \A e \in Devices : Waiting(e) \in Seq(Events) /\ Waiting(e)' \in Seq(Events)
    <2>1. \A e \in Devices : Waiting(e) \in Seq(Events)
      BY WaitingType DEF KeysInv
    <2>2. \A e \in Devices : Waiting(e)' \in Seq(Events)
      BY <1>4 DEF KeysTypeOK, Waiting
    <2> QED BY <2>1, <2>2
  <1>6. ReleaseFollows'
    <2> SUFFICES ASSUME NEW e \in Devices, NEW j \in Typed, <<e, j>> \notin held'
                 PROVE  LetGo(Waiting(e)', j)
      BY DEF ReleaseFollows
    <2>1. CASE e # d
      BY <1>2, <1>3, <2>1 DEF KeysInv, ReleaseFollows
    <2>2. CASE e = d /\ j = k
      <3>1. value = 0
        BY <1>3, <2>2
      <3> QED BY <1>1, <1>2, <1>5, <2>2, <3>1, GrownLetGo
    <2>3. CASE e = d /\ j # k
      <3>1. LetGo(Waiting(e), j)
        BY <1>3, <2>3 DEF KeysInv, ReleaseFollows
      <3> QED BY <1>1, <1>2, <1>5, <2>3, <3>1, GrownLetGo
    <2> QED BY <2>1, <2>2, <2>3
  <1>7. PressedIsBusy'
    <2> SUFFICES ASSUME NEW b \in Buttons, ~released[b], b \notin missed
                 PROVE  Busy(b)'
      BY <1>3 DEF PressedIsBusy
    <2>1. Busy(b)
      BY DEF KeysInv, PressedIsBusy
    <2>2. \A e \in Devices : \A n \in DOMAIN Waiting(e) :
            \E m \in DOMAIN Waiting(e)' : Waiting(e)'[m] = Waiting(e)[n]
      <3> TAKE e \in Devices
      <3>1. CASE e = d
        BY <1>2, <1>5, <3>1, GrownKeeps
      <3>2. CASE e # d
        BY <1>2, <3>2
      <3> QED BY <3>1, <3>2
    <2>3. \E m \in DOMAIN Waiting(d)' : Waiting(d)'[m].key = k
      BY <1>2, <1>5, GrownKeeps
    <2>4. \A e \in Devices, j \in Accepted :
            <<e, j>> \in held => <<e, j>> \in held' \/ (e = d /\ j = k)
      BY <1>3
    <2> HIDE DEF ev
    <2> QED BY <2>1, <2>2, <2>3, <2>4, StaysBusy
  <1> QED BY <1>4, <1>6, <1>7 DEF KeysInv

LEMMA OtherStep ==
    ASSUME KeysInv, NEW d \in Devices, TypeOther(d)
    PROVE  KeysInv'
  <1>1. Other \in Events /\ \A k \in Accepted : Other.key # k
    BY DEF Events, Other, Accepted, ButtonOf
  <1>2. /\ device' \in [Devices -> Seq(Events)]
        /\ Grown(Waiting(d)', Waiting(d), Other)
        /\ \A e \in Devices \ {d} : Waiting(e)' = Waiting(e)
    BY <1>1, PutGrows DEF KeysInv, TypeOther
  <1>3. UNCHANGED <<held, ahead, focus_news, is_surface_focused, released, missed>>
    BY DEF TypeOther, Put
  <1>4. KeysTypeOK'
    BY <1>2, <1>3 DEF KeysInv, KeysTypeOK
  <1>5. \A e \in Devices : Waiting(e) \in Seq(Events) /\ Waiting(e)' \in Seq(Events)
    <2>1. \A e \in Devices : Waiting(e) \in Seq(Events)
      BY WaitingType DEF KeysInv
    <2>2. \A e \in Devices : Waiting(e)' \in Seq(Events)
      BY <1>4 DEF KeysTypeOK, Waiting
    <2> QED BY <2>1, <2>2
  <1>6. ReleaseFollows'
    <2> SUFFICES ASSUME NEW e \in Devices, NEW j \in Typed, <<e, j>> \notin held
                 PROVE  LetGo(Waiting(e)', j)
      BY <1>3 DEF ReleaseFollows
    <2>1. LetGo(Waiting(e), j) /\ j \in Accepted
      BY KeysAssumption DEF KeysInv, ReleaseFollows
    <2>2. CASE e # d
      BY <1>2, <2>1, <2>2
    <2>3. CASE e = d
      BY <1>1, <1>2, <1>5, <2>1, <2>3, GrownLetGo
    <2> QED BY <2>2, <2>3
  <1>7. PressedIsBusy'
    <2> SUFFICES ASSUME NEW b \in Buttons, ~released[b], b \notin missed
                 PROVE  Busy(b)'
      BY <1>3 DEF PressedIsBusy
    <2>1. Busy(b)
      BY DEF KeysInv, PressedIsBusy
    <2>2. \A e \in Devices : \A n \in DOMAIN Waiting(e) :
            \E m \in DOMAIN Waiting(e)' : Waiting(e)'[m] = Waiting(e)[n]
      <3> TAKE e \in Devices
      <3>1. CASE e = d
        BY <1>2, <1>5, <3>1, GrownKeeps
      <3>2. CASE e # d
        BY <1>2, <3>2
      <3> QED BY <3>1, <3>2
    <2> QED BY <1>3, <2>1, <2>2, StaysBusy
  <1> QED BY <1>4, <1>6, <1>7 DEF KeysInv

LEMMA SameEvents ==
    ASSUME KeysInv, UNCHANGED <<held, device, ahead, released, missed>>
    PROVE  ReleaseFollows' /\ PressedIsBusy'
  <1>1. \A d : Waiting(d)' = Waiting(d)
    BY DEF Waiting
  <1>2. ReleaseFollows'
    BY <1>1 DEF KeysInv, ReleaseFollows
  <1>3. \A b : Busy(b)' <=> Busy(b)
    BY <1>1 DEF Busy
  <1>4. PressedIsBusy'
    BY <1>3 DEF KeysInv, PressedIsBusy
  <1> QED BY <1>2, <1>4

\* The focus does not touch what waits.
LEMMA FocusStep ==
    ASSUME KeysInv, WaylandDispatch \/ \E focused \in BOOLEAN : SendFocus(focused)
    PROVE  KeysInv'
  <1>1. UNCHANGED <<held, device, ahead, released, missed>>
    BY DEF WaylandDispatch, SendFocus
  <1>2. focus_news' \in Seq(BOOLEAN) /\ is_surface_focused' \in BOOLEAN
    <2>1. CASE WaylandDispatch
      BY <2>1 DEF WaylandDispatch, KeysInv, KeysTypeOK
    <2>2. CASE \E focused \in BOOLEAN : SendFocus(focused)
      BY <2>2 DEF SendFocus, KeysInv, KeysTypeOK
    <2> QED BY <2>1, <2>2
  <1>3. KeysTypeOK'
    BY <1>1, <1>2 DEF KeysInv, KeysTypeOK
  <1> QED BY <1>1, <1>3, SameEvents DEF KeysInv

\* What is read without an accepted event in it is of no key.
LEMMA PassOverStep ==
    ASSUME KeysInv, PassOverAll, UNCHANGED <<held, focus_news, is_surface_focused>>
    PROVE  KeysInv'
  <1>1. UNCHANGED <<held, focus_news, is_surface_focused, released, missed>>
    BY DEF PassOverAll
  <1>2. \A d \in Devices : Waiting(d) \in Seq(Events)
    BY WaitingType DEF KeysInv
  <1>3. KeysTypeOK'
    BY <1>1 DEF PassOverAll, KeysInv, KeysTypeOK
  <1>4. \A d \in Devices :
          \/ Waiting(d)' = Waiting(d)
          \/ Waiting(d)' = <<>> /\ AcceptedAt(Waiting(d)) = {}
    <2> SUFFICES ASSUME NEW d \in Devices
                 PROVE  \/ Waiting(d)' = Waiting(d)
                        \/ Waiting(d)' = <<>> /\ AcceptedAt(Waiting(d)) = {}
      OBVIOUS
    <2>1. CASE d \in Ready
      <3>1. Waiting(d)' = <<>> \o <<>> /\ AcceptedAt(Waiting(d)) = {}
        BY <2>1 DEF PassOverAll, Waiting
      <3> QED BY <3>1
    <2>2. CASE d \notin Ready
      BY <2>2 DEF PassOverAll, Waiting, Ready
    <2> QED BY <2>1, <2>2
  <1>5. ReleaseFollows'
    BY <1>1, <1>4 DEF KeysInv, ReleaseFollows, LetGo
  <1>6. PressedIsBusy'
    <2> SUFFICES ASSUME NEW b \in Buttons, ~released[b], b \notin missed
                 PROVE  Busy(b)'
      BY <1>1 DEF PressedIsBusy
    <2>1. Busy(b)
      BY DEF KeysInv, PressedIsBusy
    <2>2. \A d \in Devices : \A n \in DOMAIN Waiting(d) :
            Waiting(d)[n].key \in Accepted =>
              \E m \in DOMAIN Waiting(d)' : Waiting(d)'[m] = Waiting(d)[n]
      BY <1>4 DEF AcceptedAt
    <2> QED BY <1>1, <2>1, <2>2, StaysBusy
  <1> QED BY <1>3, <1>5, <1>6 DEF KeysInv

\* The event that the dispatch returns with leaves, and with it only events of no
\* key; the flag of its button follows it.
LEMMA TakeStep ==
    ASSUME KeysInv, NEW d \in Ready, TakeFirst(d),
           UNCHANGED <<held, focus_news, is_surface_focused>>
    PROVE  KeysInv'
  <1>1. PICK n \in AcceptedAt(Waiting(d)), passed \in SUBSET (Ready \ {d}) :
          /\ \A m \in AcceptedAt(Waiting(d)) : n <= m
          /\ \A e \in passed : AcceptedAt(Waiting(e)) = {}
          /\ Take(d, n, passed)
          /\ monitor_set_key(Waiting(d)[n])
    BY DEF TakeFirst
  <1> DEFINE ev == Waiting(d)[n]
             b0 == ButtonOf[ev.key]
  <1>2. \A e \in Devices : Waiting(e) \in Seq(Events)
    BY WaitingType DEF KeysInv
  <1>3. d \in Devices /\ n \in DOMAIN Waiting(d) /\ ev.key \in Accepted
    BY DEF AcceptedAt, Ready
  <1>4. ev \in Events
    BY <1>2, <1>3
  <1>5. ev.key \in Typed /\ ev.value \in 0..2 /\ b0 \in Buttons
    <2> HIDE DEF ev
    <2> QED BY <1>3, <1>4, EventKeys
  <1>6. /\ device' \in [Devices -> Seq(Events)]
        /\ ahead' \in [Devices -> Seq(Events)]
        /\ Behind(Waiting(d)', Waiting(d), n)
        /\ \A e \in passed : Waiting(e)' = <<>>
        /\ \A e \in Devices \ (passed \cup {d}) : Waiting(e)' = Waiting(e)
    BY <1>1, <1>3, TakeLeaves DEF KeysInv
  <1>7. /\ released' \in [Buttons -> BOOLEAN]
        /\ missed' \subseteq Buttons
        /\ \A b \in Buttons \ {b0} :
              released'[b] = released[b] /\ (b \in missed' <=> b \in missed)
        /\ \/ released'[b0] = (ev.value = 0)
           \/ b0 \in missed'
    <2>1. CASE is_surface_focused
      BY <1>1, <1>5, <2>1 DEF monitor_set_key, KeysInv, KeysTypeOK
    <2>2. CASE ~is_surface_focused
      BY <1>1, <1>5, <2>2 DEF monitor_set_key, KeysInv, KeysTypeOK
    <2> QED BY <2>1, <2>2
  <1>8. KeysTypeOK'
    BY <1>6, <1>7 DEF KeysInv, KeysTypeOK
  <1>9. \A e \in Devices : Waiting(e)' \in Seq(Events)
    BY <1>6 DEF Waiting
  \* An accepted event stays but for the one that is taken.
  <1>10. \A e \in Devices : \A i \in DOMAIN Waiting(e) :
           Waiting(e)[i].key \in Accepted /\ ~(e = d /\ i <= n) =>
             \E m \in DOMAIN Waiting(e)' : Waiting(e)'[m] = Waiting(e)[i]
    <2> SUFFICES ASSUME NEW e \in Devices, NEW i \in DOMAIN Waiting(e),
                        Waiting(e)[i].key \in Accepted, ~(e = d /\ i <= n)
                 PROVE  \E m \in DOMAIN Waiting(e)' : Waiting(e)'[m] = Waiting(e)[i]
      OBVIOUS
    <2>1. i \in AcceptedAt(Waiting(e))
      BY DEF AcceptedAt
    <2>2. CASE e = d
      <3>1. i - n \in DOMAIN Waiting(d)' /\ Waiting(d)'[i - n] = Waiting(d)[i]
        BY <1>2, <1>3, <1>6, <1>9, <2>2 DEF Behind
      <3> QED BY <2>2, <3>1
    <2>3. CASE e # d
      BY <1>1, <1>6, <2>1, <2>3
    <2> QED BY <2>2, <2>3
  <1>11. ReleaseFollows'
    <2> SUFFICES ASSUME NEW e \in Devices, NEW j \in Typed, <<e, j>> \notin held
                 PROVE  LetGo(Waiting(e)', j)
      BY DEF ReleaseFollows
    <2>1. LetGo(Waiting(e), j)
      BY DEF KeysInv, ReleaseFollows
    <2>2. CASE e = d
      <3>1. n \in 0..Len(Waiting(d))
        BY <1>2, <1>3
      <3> QED BY <1>2, <1>3, <1>6, <1>9, <2>1, <2>2, <3>1, BehindLetGo
    <2>3. CASE e \in passed
      BY <1>6, <2>3 DEF LetGo
    <2>4. CASE e \notin passed /\ e # d
      BY <1>6, <2>1, <2>4
    <2> QED BY <2>2, <2>3, <2>4
  <1>12. PressedIsBusy'
    <2> SUFFICES ASSUME NEW b \in Buttons, ~released'[b], b \notin missed'
                 PROVE  Busy(b)'
      BY DEF PressedIsBusy
    <2>1. CASE b # b0
      <3>1. Busy(b)
        BY <1>7, <2>1 DEF KeysInv, PressedIsBusy
      <3>2. \A i \in DOMAIN Waiting(d) :
              Waiting(d)[i].key \in Accepted /\ ButtonOf[Waiting(d)[i].key] = b => i > n
        BY <1>1, <1>2, <1>3, <2>1 DEF AcceptedAt
      <3>3. \A e \in Devices : \A i \in DOMAIN Waiting(e) :
              Waiting(e)[i].key \in Accepted /\ ButtonOf[Waiting(e)[i].key] = b =>
                \E m \in DOMAIN Waiting(e)' : Waiting(e)'[m] = Waiting(e)[i]
        BY <1>2, <1>3, <1>10, <3>2
      <3> QED BY <3>1, <3>3, StaysBusy
    <2>2. CASE b = b0
      <3>1. ev.value # 0
        BY <1>7, <2>2
      <3>2. CASE <<d, ev.key>> \in held
        BY <1>3, <2>2, <3>2 DEF Busy
      <3>3. CASE <<d, ev.key>> \notin held
        <4>1. LetGo(Waiting(d), ev.key)
          BY <1>3, <1>5, <3>3 DEF KeysInv, ReleaseFollows
        <4>2. PICK m \in DOMAIN Waiting(d) : m > n /\ Waiting(d)[m].key = ev.key
          BY <1>3, <3>1, <4>1 DEF LetGo
        <4>3. PICK i \in DOMAIN Waiting(d)' : Waiting(d)'[i].key = ev.key
          BY <1>2, <1>3, <1>10, <4>2
        <4> QED BY <1>3, <2>2, <4>3 DEF Busy
      <3> QED BY <3>2, <3>3
    <2> QED BY <2>1, <2>2
  <1> QED BY <1>8, <1>11, <1>12 DEF KeysInv

-----------------------------------------------------------------------------
(* The theorems.                                                            *)

\* In the steps of the process keys are only touched by the user, the
\* compositor and the two dispatches.
LEMMA KeysSteps ==
    ASSUME Next
    PROVE  \/ UNCHANGED keysVars
           \/ \E d \in Devices : TypeOther(d)
           \/ \E d \in Devices, k \in Typed, value \in 0..2 : Type(d, k, value)
           \/ \E focused \in BOOLEAN : SendFocus(focused)
           \/ WaylandDispatch
           \/ evdev_dispatch
  <1>1. CASE MainStep
    BY <1>1 DEF MainStep, OpenRom, render_init, backends_init, server_init,
        monitor_init, iopoll_init, CondWait, TakeMutex, TestInitSuccess, Sigaction,
        Setjmp, EndOf, Start, Fail
  <1>2. CASE IoStep
    BY <1>2 DEF IoStep, IoLock, IoSetup, IoSignal, IoTestInitSuccess, EvdevReady,
        WaylandReady, EpollWait, DispatchKeys, DispatchDisplay, Dispatch, EndOf
  <1>3. CASE WakeEarly \/ Interrupt \/ UseKeys
    BY <1>3 DEF WakeEarly, Interrupt, UseKeys
  <1> QED BY <1>1, <1>2, <1>3 DEF Next

\* Behind every press that is on its way from a key that is up comes its release,
\* and a button that the flags of monitor.c have as pressed is pressed by a key
\* that is down or has an event on its way, whatever is read ahead and whenever
\* evdev_dispatch returns.
THEOREM KeysInvariant == Spec => []KeysInv
  <1>1. Init => KeysInv
    <2> SUFFICES ASSUME Init PROVE KeysInv
      OBVIOUS
    <2> USE DEF Init, KeysInit
    <2>1. KeysTypeOK
      <3>1. held \subseteq Devices \X Typed
        OBVIOUS
      <3>2. device \in [Devices -> Seq(Events)] /\ ahead \in [Devices -> Seq(Events)]
        OBVIOUS
      <3>3. focus_news \in Seq(BOOLEAN)
        OBVIOUS
      <3>4. released \in [Buttons -> BOOLEAN]
        BY Zenon
      <3> QED BY <3>1, <3>2, <3>3, <3>4 DEF KeysTypeOK
    <2>2. \A d \in Devices : Waiting(d) = <<>>
      BY DEF Waiting
    <2>3. ReleaseFollows
      BY <2>2 DEF ReleaseFollows, LetGo
    <2>4. PressedIsBusy
      BY DEF PressedIsBusy
    <2> QED BY <2>1, <2>3, <2>4 DEF KeysInv
  <1>2. KeysInv /\ [Next]_vars => KeysInv'
    <2> SUFFICES ASSUME KeysInv, [Next]_vars PROVE KeysInv'
      OBVIOUS
    <2>1. CASE UNCHANGED keysVars
      <3>1. KeysTypeOK'
        BY <2>1 DEF keysVars, KeysInv, KeysTypeOK
      <3> QED BY <2>1, <3>1, SameEvents DEF keysVars, KeysInv
    <2>2. CASE \E d \in Devices : TypeOther(d)
      BY <2>2, OtherStep
    <2>3. CASE \E d \in Devices, k \in Typed, value \in 0..2 : Type(d, k, value)
      BY <2>3, TypeStep
    <2>4. CASE WaylandDispatch \/ \E focused \in BOOLEAN : SendFocus(focused)
      BY <2>4, FocusStep
    <2>5. CASE evdev_dispatch
      BY <2>5, PassOverStep, TakeStep DEF evdev_dispatch
    <2>6. CASE UNCHANGED vars
      BY <2>1, <2>6 DEF vars
    <2> QED BY <2>1, <2>2, <2>3, <2>4, <2>5, <2>6, KeysSteps
  <1> QED BY <1>1, <1>2, PTL DEF Spec

LEMMA BitsOfSum ==
    \A c \in {0, 16, 32}, x0 \in {0, 1}, x1 \in {0, 2}, x2 \in {0, 4}, x3 \in {0, 8} :
        /\ ((c + x0 + x1 + x2 + x3) \div 1) % 2 = 0 => x0 = 0
        /\ ((c + x0 + x1 + x2 + x3) \div 2) % 2 = 0 => x1 = 0
        /\ ((c + x0 + x1 + x2 + x3) \div 4) % 2 = 0 => x2 = 0
        /\ ((c + x0 + x1 + x2 + x3) \div 8) % 2 = 0 => x3 = 0
  OBVIOUS

\* A bit that the program reads as 0 in a column is that of a button whose flag
\* says pressed.
LEMMA SeenMeansFlag ==
    ASSUME released \in [Buttons -> BOOLEAN], NEW b \in Buttons, SeenPressed(b)
    PROVE  ~released[b]
  <1>1. PICK column \in Columns \ {48}, n \in 0..3 :
          /\ Column(column)[n + 1] = b
          /\ (rd_joypad(column) \div Weight[n + 1]) % 2 = 0
    BY DEF SeenPressed
  <1>2. \A i \in 0..3 : Column(column)[i + 1] \in Buttons
    BY DEF Column, Buttons
  <1> DEFINE bit(i) == IF released[Column(column)[i + 1]] THEN Weight[i + 1] ELSE 0
  <1>3. rd_joypad(column) = column + bit(0) + bit(1) + bit(2) + bit(3)
    BY <1>1 DEF rd_joypad
  <1>4. /\ bit(0) \in {0, 1} /\ bit(1) \in {0, 2} /\ bit(2) \in {0, 4} /\ bit(3) \in {0, 8}
        /\ column \in {0, 16, 32}
    BY DEF Weight, Columns
  <1>5. /\ bit(0) = 1 <=> released[Column(column)[1]]
        /\ bit(1) = 2 <=> released[Column(column)[2]]
        /\ bit(2) = 4 <=> released[Column(column)[3]]
        /\ bit(3) = 8 <=> released[Column(column)[4]]
    BY DEF Weight
  <1>6. /\ (rd_joypad(column) \div 1) % 2 = 0 => ~released[Column(column)[1]]
        /\ (rd_joypad(column) \div 2) % 2 = 0 => ~released[Column(column)[2]]
        /\ (rd_joypad(column) \div 4) % 2 = 0 => ~released[Column(column)[3]]
        /\ (rd_joypad(column) \div 8) % 2 = 0 => ~released[Column(column)[4]]
    <2> HIDE DEF bit
    <2>1. PICK x0 \in {0, 1}, x1 \in {0, 2}, x2 \in {0, 4}, x3 \in {0, 8} :
            x0 = bit(0) /\ x1 = bit(1) /\ x2 = bit(2) /\ x3 = bit(3)
      BY <1>4, Zenon
    <2>2. rd_joypad(column) = column + x0 + x1 + x2 + x3
      BY <1>3, <2>1, Zenon
    <2>3. /\ ((column + x0 + x1 + x2 + x3) \div 1) % 2 = 0 => x0 = 0
          /\ ((column + x0 + x1 + x2 + x3) \div 2) % 2 = 0 => x1 = 0
          /\ ((column + x0 + x1 + x2 + x3) \div 4) % 2 = 0 => x2 = 0
          /\ ((column + x0 + x1 + x2 + x3) \div 8) % 2 = 0 => x3 = 0
      BY <1>4, BitsOfSum
    <2>4. /\ x0 = 0 => ~released[Column(column)[1]]
          /\ x1 = 0 => ~released[Column(column)[2]]
          /\ x2 = 0 => ~released[Column(column)[3]]
          /\ x3 = 0 => ~released[Column(column)[4]]
      BY <1>5, <2>1
    <2> QED BY <2>2, <2>3, <2>4
  <1>7. /\ n = 0 => Weight[n + 1] = 1 /\ Column(column)[1] = b
        /\ n = 1 => Weight[n + 1] = 2 /\ Column(column)[2] = b
        /\ n = 2 => Weight[n + 1] = 4 /\ Column(column)[3] = b
        /\ n = 3 => Weight[n + 1] = 8 /\ Column(column)[4] = b
    BY <1>1 DEF Weight
  <1>8. n = 0 \/ n = 1 \/ n = 2 \/ n = 3
    OBVIOUS
  <1> QED BY <1>1, <1>6, <1>7, <1>8

\* No button is seen pressed with no key down and no event on its way, unless
\* its latest event was dropped for want of focus.
THEOREM NoButtonSticks == Spec => []StuckOnlyByFocus
  <1>1. KeysInv => StuckOnlyByFocus
    BY SeenMeansFlag
    DEF KeysInv, KeysTypeOK, PressedIsBusy, StuckOnlyByFocus
  <1> QED BY <1>1, KeysInvariant, PTL
=============================================================================
