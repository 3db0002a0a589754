-------------------------------- MODULE Keys --------------------------------
(***************************************************************************)
(* The path of a key: keyboards put events into their devices; libevdev    *)
(* reads them ahead into a queue of its own; the polling thread handles    *)
(* one accepted event each time the devices are reported ready             *)
(* (evdev_dispatch), and drops it unless wayland has told it that the      *)
(* window has the focus (monitor_set_key); the emulated program reads the  *)
(* flags of the buttons through the joypad register.                       *)
(*                                                                         *)
(* External, modelled from its use: what a keyboard and the compositor     *)
(* produce, and libevdev_next_event, which moves what the device holds,    *)
(* or part of it, into its queue before it takes the first event of it.    *)
(* Left out: a device whose buffer overflows (SYN_DROPPED).                *)
(*                                                                         *)
(* A definition named <definition>_<slip> is not part of the model: it is  *)
(* the definition after a plausible slip in the code.                      *)
(***************************************************************************)
EXTENDS Integers, Sequences, FiniteSets, SequencesExt

CONSTANTS Devices,      \* the devices in evdevs
          Typed,        \* the keys that are typed, accepted all of them
          MaxWaiting,   \* bound on the events that wait to be handled
          MaxFocus      \* bound on the changes of focus not yet dispatched

Buttons == {"start", "select", "a", "b", "up", "down", "left", "right"}

\* The accepted keys and what they press: two keys for each direction.
ButtonOf ==
    [ENTER |-> "start", SPACE |-> "select", D |-> "a", S |-> "b",
     UP |-> "up", K |-> "up", DOWN |-> "down", J |-> "down",
     LEFT |-> "left", H |-> "left", RIGHT |-> "right", L |-> "right"]
Accepted == DOMAIN ButtonOf

ASSUME KeysAssumption ==
    Typed \subseteq Accepted /\ MaxWaiting \in Nat /\ MaxFocus \in Nat

VARIABLES
    held,               \* the keys that are down, <<device, key>>
    device,             \* for each device, the events that it holds
    ahead,              \* for each device, the events libevdev has read ahead
    focus_news,         \* the changes of focus sent by the compositor
    is_surface_focused,
    released,           \* for each button, its flag in monitor.c
    missed              \* history: the buttons whose latest event was dropped

keysVars ==
    <<held, device, ahead, focus_news, is_surface_focused, released, missed>>

\* Key events, where a value of 2 repeats a key that stays down, and the rest:
\* other keys, and the marks that a device puts behind its reports.
Other == [key |-> "other", value |-> 0]
Events == [key : Typed, value : 0..2] \cup {Other}

KeysTypeOK ==
    /\ held \subseteq Devices \X Typed
    /\ device \in [Devices -> Seq(Events)]
    /\ ahead \in [Devices -> Seq(Events)]
    /\ focus_news \in Seq(BOOLEAN)
    /\ is_surface_focused \in BOOLEAN
    /\ released \in [Buttons -> BOOLEAN]
    /\ missed \subseteq Buttons

\* The events of a device on their way, in the order in which they came.
Waiting(d) == ahead[d] \o device[d]

\* A key may be down already when the devices are opened.
KeysInit ==
    /\ held \in {{}} \cup {{slot} : slot \in Devices \X Typed}
    /\ device = [d \in Devices |-> <<>>]
    /\ ahead = [d \in Devices |-> <<>>]
    /\ focus_news = <<>>
    /\ is_surface_focused = FALSE
    /\ released = [b \in Buttons |-> TRUE]
    /\ missed = {}

-----------------------------------------------------------------------------
(* The user, the keyboards and the compositor.                             *)

HasRoom ==
    FoldFunctionOnSet(+, 0, [e \in Devices |-> Len(Waiting(e))], Devices) < MaxWaiting

Put(d, ev) ==
    /\ HasRoom
    /\ device' = [device EXCEPT ![d] = Append(@, ev)]
    /\ UNCHANGED <<ahead, focus_news, is_surface_focused, released, missed>>

Type(d, k, value) ==
    /\ (value = 1) <=> (<<d, k>> \notin held)
    /\ held' = IF value = 0 THEN held \ {<<d, k>>} ELSE held \cup {<<d, k>>}
    /\ Put(d, [key |-> k, value |-> value])

TypeOther(d) == UNCHANGED held /\ Put(d, Other)

\* The compositor sends each change of focus, a surface starting without it.
SendFocus(focused) ==
    /\ Len(focus_news) < MaxFocus
    /\ focused # Last(<<is_surface_focused>> \o focus_news)
    /\ focus_news' = Append(focus_news, focused)
    /\ UNCHANGED <<held, device, ahead, is_surface_focused, released, missed>>

-----------------------------------------------------------------------------
(* What the polling thread does with what is ready.                        *)

\* wl_display_dispatch: handle_keyboard_enter and handle_keyboard_leave, each
\* in its turn.
WaylandDispatch ==
    /\ focus_news # <<>>
    /\ is_surface_focused' = focus_news[Len(focus_news)]
    /\ focus_news' = <<>>
    /\ UNCHANGED <<held, device, ahead, released, missed>>

monitor_set_key(ev) ==
    LET b == ButtonOf[ev.key]
    IN  IF is_surface_focused
          THEN /\ released' = [released EXCEPT ![b] = (ev.value = 0)]
               /\ missed' = missed \ {b}
          ELSE /\ missed' = missed \cup {b}
               /\ UNCHANGED released

Ready == {d \in Devices : device[d] # <<>>}
AcceptedAt(s) == {n \in DOMAIN s : s[n].key \in Accepted}

\* Every ready device is read to its end: none had an accepted event.
PassOverAll ==
    /\ Ready # {}
    /\ \A d \in Ready : AcceptedAt(Waiting(d)) = {}
    /\ device' = [d \in Devices |-> <<>>]
    /\ ahead' = [d \in Devices |-> IF d \in Ready THEN <<>> ELSE ahead[d]]
    /\ UNCHANGED <<released, missed>>

\* The dispatch drops what libevdev has read behind the event it returns with.
Take_forgets(d, n, passed) ==
    /\ n <= Len(Waiting(d))
    /\ device' = [e \in Devices |-> IF e = d \/ e \in passed THEN <<>> ELSE device[e]]
    /\ ahead' = [e \in Devices |-> IF e = d \/ e \in passed THEN <<>> ELSE ahead[e]]

\* libevdev_next_event gives out the first n events of device d, the last of
\* which the dispatch returns with.  It reads what the device holds when its
\* own queue is empty, and may do so sooner.
Take(d, n, passed) ==
    \E read \in {<<>>, device[d]} :
        LET queue == ahead[d] \o read
        IN  /\ n <= Len(queue)
            /\ device' = [e \in Devices |->
                 IF e \in passed \/ (e = d /\ read # <<>>) THEN <<>> ELSE device[e]]
            /\ ahead' = [e \in Devices |->
                 IF e = d THEN SubSeq(queue, n + 1, Len(queue))
                 ELSE IF e \in passed THEN <<>> ELSE ahead[e]]

\* The devices that epoll_wait lists before d have no accepted event; it
\* returns with the first of d, and leaves what is behind it, and the devices
\* listed after d, as they are.
TakeFirst(d) ==
    LET at == AcceptedAt(Waiting(d))
    IN  \E n \in at, passed \in SUBSET (Ready \ {d}) :
            /\ \A m \in at : n <= m
            /\ \A e \in passed : AcceptedAt(Waiting(e)) = {}
            /\ Take(d, n, passed)
            /\ monitor_set_key(Waiting(d)[n])

\* The dispatch returns after the first device, whether that had an accepted
\* event or not.
evdev_dispatch_first ==
    /\ LET d == CHOOSE e \in Ready : TRUE
       IN  /\ Ready # {}
           /\ \/ TakeFirst(d)
              \/ /\ AcceptedAt(Waiting(d)) = {}
                 /\ device' = [device EXCEPT ![d] = <<>>]
                 /\ ahead' = [ahead EXCEPT ![d] = <<>>]
                 /\ UNCHANGED <<released, missed>>
    /\ UNCHANGED <<held, focus_news, is_surface_focused>>

evdev_dispatch ==
    /\ \/ PassOverAll
       \/ \E d \in Ready : TakeFirst(d)
    /\ UNCHANGED <<held, focus_news, is_surface_focused>>

-----------------------------------------------------------------------------
(* What the program reads in FF00 after it has written to it: the bits of  *)
(* the column it has selected, 1 for a button that is released.            *)

Columns == {0, 16, 32, 48}              \* value & 0x30

\* The buttons of a column, from bit 0 on.
Column(column) ==
    IF column = 16 THEN <<"a", "b", "select", "start">>
                   ELSE <<"right", "left", "up", "down">>
Weight == <<1, 2, 4, 8>>
rd_joypad(column) ==
    LET bit(n) == IF released[Column(column)[n + 1]] THEN Weight[n + 1] ELSE 0
    IN  IF column = 48 THEN 63 ELSE column + bit(0) + bit(1) + bit(2) + bit(3)

-----------------------------------------------------------------------------
(* Correctness.                                                            *)

\* A button that some key presses, or may turn out to: the key is down, or an
\* event of it is on its way.
Busy(b) ==
    \E d \in Devices, k \in {k \in Accepted : ButtonOf[k] = b} :
        \/ <<d, k>> \in held
        \/ \E n \in DOMAIN Waiting(d) : Waiting(d)[n].key = k

\* The program finds the button pressed in a column that has it.
SeenPressed(b) ==
    \E column \in Columns \ {48}, n \in 0..3 :
        /\ Column(column)[n + 1] = b
        /\ (rd_joypad(column) \div Weight[n + 1]) % 2 = 0

\* A button with no key down and no event on its way is not seen pressed by the
\* program, unless its latest event was dropped for want of focus (the key was
\* let go in another window).  It fails when an event is lost, handled twice or
\* out of order on the way: evdev_dispatch returns in the midst of what it has
\* read.
StuckOnlyByFocus ==
    \A b \in Buttons : ~Busy(b) /\ b \notin missed => ~SeenPressed(b)

-----------------------------------------------------------------------------
(* Why: the inductive invariant, in named parts.                           *)

\* Behind every press or repetition of k among the events w comes its release.
LetGo(w, k) ==
    \A n \in DOMAIN w : w[n].key = k /\ w[n].value # 0 =>
        \E m \in DOMAIN w : m > n /\ w[m].key = k /\ w[m].value = 0

\* So it is for the keys that are up.
ReleaseFollows ==
    \A d \in Devices, k \in Typed : <<d, k>> \notin held => LetGo(Waiting(d), k)

\* A button whose flag says pressed is so, or its release is on its way.
PressedIsBusy == \A b \in Buttons : ~released[b] /\ b \notin missed => Busy(b)

KeysInv == KeysTypeOK /\ ReleaseFollows /\ PressedIsBusy

=============================================================================
