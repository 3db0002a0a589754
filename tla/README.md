# A verification project for RealBoy

RealBoy is a Game Boy emulator in C. One thread emulates the machine (`monitor_run`), a
second one (`iopoll_thread`) polls the display connection, the input devices and the socket
of a debugger client. This directory holds TLA+ modules that model its core, the TLC
configurations that check them on small instances, and proofs checked by TLAPS.

Paths below are relative to the repository (`src/server.c`, `include/cpu.h`); `PROJECT.json`
maps every definition of the modules to the lines it stands for.

How to run: `tlc -config RunControl.cfg MCRunControl.tla` (each run's module and
configuration are in the table of section 4), `tlapm RunControlProofs.tla`.

## 1. Inventory

### Components, their state and their operations

| component | where | state | operations |
|---|---|---|---|
| run control | `src/server.c`, `src/monitor.c:217` | `mtx_server`, `cnd_server_stop`, `quick_lock`, `server_running`, `server_stop_request`, the `control_flow_*` flags, `until_addr` | `monitor_run`'s loop, `server_recv_request_and_dispatch`, `server_should_stop_execution` |
| breakpoint list | `src/list.c` | an array with length and capacity | `list_add`, `list_del`, `list_remove` |
| processor | `src/emu/cpu/cpu.c`, `cpu.h` | registers, IE, IF, IME, halted, DIV and TIMA with their counters | `cpu_exec_next`, `cpu_request_intr`, `handle_intrs`, `cpu_wr`, `cpu_peek` |
| instruction set | `src/emu/cpu/cpu_ops.c` | none of its own | 512 handlers in two tables, `op_len` |
| picture unit | `src/emu/ppu.c` | mode, `dots_remaining`, `vblank_dots`, the registers FF40-FF4B, VRAM, OAM, `oam_hash` | `ppu_refresh`, `wr_reg`, `ppu_wr`, `ppu_rd`, `oam_rehash`, `ppu_render_line` |
| memory map | `src/monitor.c:82` | `tmp_ioregs` | `monitor_rd_mem`, `monitor_wr_mem` |
| bank controller | `src/emu/mem/mbc1.c` | the mapped image, the cartridge RAM | `mbc1_rd_mem`, `mbc1_wr_mem`, `mbc1_init` |
| keys and joypad | `src/backends/evdev/`, `src/monitor.c:178` | eight `*_released` flags, the devices' queues | `evdev_dispatch`, `monitor_set_key` |
| polling thread | `src/iopoll.c` | `init_success` | `iopoll_init`, `iopoll_thread` |
| process | `src/main.c` | the jump buffer, the image file | start in seven steps with their undoing, SIGINT |
| backends | `src/backends/` | table of backends, their descriptors | init, fini, get_fd, dispatch |
| rendering | `src/render.c` | the picture (pixman) | `render_draw_pixel`, `render_draw_framebuffer` |
| throttle | `src/monitor.c:53` | sleep factor, frame count | `monitor_throttle_fps` |
| debugger messages | libemu, not in the repository | | `emu_recv_msg`, `emu_send_msg` |

### How they interact

- `monitor_run` calls `exec_next`: `cpu_exec_next` (which reads and writes memory through
  `monitor_rd_mem`/`monitor_wr_mem`, and with it every register of the machine), then
  `ppu_refresh` with the cycles the instruction took. The picture unit answers by
  `cpu_request_intr`, and draws through `render_draw_pixel`.
- `iopoll_thread` calls `server_recv_request_and_dispatch` and the backends' `dispatch`.
  The two threads share the state of run control, the processor and the picture unit (peeked
  at by INSPECT requests), and the key flags.
- The client of libemu sends requests and receives answers and notices of stops.

### What is hard

- **Two threads** hand the machine to each other with one condition variable for both
  directions, a try-lock for the stop flag, and writes to `server_running` outside the mutex.
- **Events between steps**: an interrupt comes after any instruction, also during another
  handler or its RETI, or while halted; the program writes any register at any time.
- **Counters that straddle**: instructions are longer than the time left in a phase, a
  counter wraps, a clock tick falls between two instructions.
- **Redundant data**: `oam_hash` repeats what OAM says, `op_len` what the handlers do, LY
  and `vblank_dots` what the phases say. Each pair can come apart.

### What makes each component correct

- run control: an INSPECT never reads a machine that moves; a breakpoint or a step is not
  overrun; a stop is acknowledged, a resume leads to execution; a notice stays true.
- processor: interrupts are invisible to the code they interrupt; no clock tick is lost;
  HALT ends; requests are taken.
- instruction set: results and flags are the arithmetic's; inverses undo; `op_len` tells the
  truth.
- picture unit: no dot is lost however instructions fall; lines in order; LY and STAT follow
  the beam until the program writes them, and find back to it; frames go on, unless LY is
  written for ever.
- object index: a line finds exactly the objects that cover it; what is seen does not depend
  on the order in which the program wrote them.
- pixels of a line: background and window are their pictures wherever they are scrolled or
  put; an object adds itself to what is behind it and changes nothing else.
- memory: the window shows the bank that was asked for last.
- keys: an event is handled in order, and in the end; a button that nobody holds is seen
  released.
- process: the start succeeds only with a polling thread at work; what was started is ended,
  and once; neither the start nor the end hangs.
- the machine as a whole: a program that follows the rules handles every vertical blank once,
  and finds the beam where its interrupts say it is.

`PROJECT.json` lists the hazards line by line.

## 2. Modules

A definition named `<definition>_<Slip>` is no part of a model: it is the definition after a
plausible slip in the code, kept beside the real one. Every property of every passing run is
violated when one of them takes the place of the definition it is named for. That is how we
know that a property says something.

### RunControl, BreakpointList, DebugGate

`pcE` is where `emu` (the thread in `monitor_run`) is, `pcS` where `srv` (the thread in
`server_recv_request_and_dispatch`) is. A step is what a thread does between two points at
which the other one can notice: `emu` executes, polls `server_stop_request`
(`EmuPoll`), looks for breakpoints and sends its notice (`hit_breakpoint`), clears
`server_running` (`EmuStop`), passes through the mutex (`EmuLeave`) and signals
(`EmuSignal`). `srv` receives (`SrvReceive`), checks against `server_running` (`SrvCheck`),
and carries the request out: `SrvControlFlow`, `SrvBreak`, `SrvDelete`, `SrvInspect`,
`SrvResume`, or for MONITOR_STOP `SrvStop`, `SrvWrlock`, `SrvFlag`, `SrvSleep`, `SrvAwake`.
A critical section of `emu` has no shared access inside it that could interleave, and is
one step. A receive that fails takes the mutex and gives it back, which is a stutter; `set_stop_request`
fails only for a thread that holds the lock already, which `srv` never does. A signal wakes any one sleeper, or none if nobody sleeps; `SpuriousWakeup` is an
action of its own, enabled by a constant. `notice` and `steps` are history.

`BreakpointList` has `list_add`, `list_remove` and `list_del` on sequences; a negative length
of `memmove` is a crash (`SrvDeleteCrash`), after which both threads are `dead`.

`DebugGate` is the abstract machine: granted, executing, inspecting, and no inspection
while granted or executing. `GateSpec` says that `RunControl` implements it, with
`granted <- server_running`, `executing <- InLoop`, `inspecting <- pcS = "inspect"`.

### Ppu

`ppu_refresh(ticks)` has one action per way through the function: the unit off, a phase that
goes on (`StayInPhase`, `StayInVblank`, which advances LY), and each phase that ends
(`EndOam`, `EndDraw`, `EndHblank`, `EnterVblank`, `EndVblank`). The LY = LYC test
(`ppu.c:118`) is part of the three that change LY. `wr_reg` is the program's writes: LCDC bit 7 with
`ppu_reset`, STAT, LY, LYC. `raised` is the interrupts the last call requested, `drawn` and
`elapsed` are history: lines drawn, and dots passed, in this frame. `elapsed` goes back by a
whole frame at its end, so a single lost dot would stay visible for ever. Both count from
turning the unit on until the program writes LY (`ly_written`), which puts the beam anywhere. The branch
for `ticks` = 0 is left out: no handler returns 0 (theorem `CyclesBounded`),
a halted processor returns 3, and the call site has no other source.

### ObjectTable, Scanline

`oam` and `oam_hash` as the code has them, with a row as the sequence of its pointers up to
the first NULL. `WriteY`, `WriteX`, `WriteTile` are `ppu_wr` at the first three bytes of an
object (and at the fourth, whose attributes matter for the colour only), with `oam_rehash` inside `WriteY`;
`WriteSize` is the object size bit of LCDC. `get_objs_at_xy` and
`get_pixel_priority_from_objs` are operators. A transfer by DMA is 160 calls of `ppu_wr`
and adds no behaviour.

`Scanline` is `ppu_render_line`, pixel by pixel. A line is drawn in one go from what memory and
registers hold at that moment, so the layers are operators (`bg_indx`, `win_indx`, `obj_indx`,
each with the address arithmetic of the code) and the state is what the program may change
between two lines: LCDC, SCY, SCX, WY, WX. The video memory is a constant: whatever the
program has written by then. An object enters as what `ObjectTable` computes of it: its index in
the pixel, its palette, whether it is behind. `Unset` is `final_pixel` without a value,
whatever the stack holds. Shades are left out; a pixel is a palette and an index.

`MCPicture` puts both into one run: the two share no state, so the program writes to
the one while the other is as it was at the start.

### Instructions, Processor, InstructionLaws

`Instructions` is `cpu_ops.c`: `Execute(s)` decodes the byte at PC and applies the handler's
effect to a record with the fields of `cpu`. Handlers that differ in operands alone
share an operator. Behind `monitor_rd_mem` and `monitor_wr_mem` stand the registers of the
processor, the cartridge and a flat RAM. The cartridge is `mbc1.c`: bank 0, over it the
boot image until a write to FF50 (which reads the image over it again), a window on one bank,
and the writes to 2000-3FFF that move it, unless the image ends before the bank asked
for. The model keeps what the code does where that is odd: five forms of
`LD r,(HL)` report one cycle, SUB (HL) and SUB n8 report one, invalid opcodes do nothing but
advance PC by one.

`Processor` adds what `cpu_exec_next` does after an instruction: the clocks (`CountDiv`,
`CountTima`; with the instruction they are `Clocked`) and `handle_intrs`, and `Boot`, the
state in which the process starts. `Cpu` and `Machine` share it. `InstructionLaws` extends it with short
programs, started from many states, and states the laws.

### Cpu, Software, Uninterrupted

`cpu_exec_next` is an action: the instruction (or the three cycles of a halted turn), DIV,
TIMA, `handle_intrs`. `ppu_refresh` here is any picture unit: it may request any of its
interrupts, in at most `MaxRequests` turns. `suspended` is history: what each piece of
interrupted code saw, the outermost first. `Software` says what that is: registers, flags,
SP, PC and memory, except the stack below SP and what the interrupt handlers keep for
themselves; which bank the window is on is part of it. `Uninterrupted` is a program that runs alone
(`Starts` is what programs see first, `Alone` what an instruction makes of that on a machine which
goes on from it, `Resume`); `Cpu` implements it with `main` the outermost suspended code, or what is running
if none is.

No machine can hide interrupts from a program that looks for them, so `Cpu` also says what is
asked of a program (`ProgramContract`): its main code reads nothing that interrupts
change, and takes SP down by pushing alone (`MainSeesItsOwn`, instruction by instruction: `ReadsOwn`,
`LowersByPushing`); when the outermost handler comes to its RETI, SP, the word there and what the
main code sees are as the handler found them (`HandlersRestore`); an interrupt comes where the
stack has room (`InterruptsHaveRoom`). The contract is about the states in which an instruction
is about to run; that it suffices is the theorem `InterruptsInvisible`.

### Machine

`exec_next` with both halves: `Processor` extended, `Ppu` instantiated over the same variables.
`cpu_exec_next` lets the program read LCDC, STAT, LY and LYC as the picture unit has them
(`ppu_rd`), and hands the one that the instruction changed (`Touched`) to the action of
`Ppu` that writes it (`ppu_wr`). A turn that changes two of them is left out: a word that lies on
FF40 and FF41 or on FF44 and FF45, pushed there by an instruction or an interrupt or written by
`LD (a16),SP`, and an instruction that writes one of the four before an interrupt pushes onto another. `ppu_refresh` is `Ppu`'s, by the cycles that the instruction reported, and puts
what it raised into IF (`Request`). The programs are real ones, in the real timing and on
the real screen. `blanks` is history.

### Keys, Process

`Keys` is the path of a key. `device[d]` is what the kernel holds for a keyboard, `ahead[d]`
what libevdev has read of it beyond the event it gave out: that part is invisible to epoll.
`evdev_dispatch` returns after the first accepted event (`TakeFirst`) of the devices it finds
ready, in any order that `epoll_wait` may list them, or goes through all of them
(`PassOverAll`). `monitor_set_key` tests the focus that `WaylandDispatch` has brought up to date
and writes a flag, `rd_joypad` is what the program reads in FF00. The user types, repeats and
lets go of keys on several keyboards, and changes the focus, at any time.

`Process` is `main.c` and `iopoll.c` around it. `at["main"]` is where main is, named
for the function or the label; `at["io"]` where the polling thread is. `part` says of each thing
that main starts whether it is on, ended, or was ended without being on. Every step of the start has
its failures as disjuncts, each with the label it jumps to, or `crashed` where the code that is to undo it
meets what is not there (`render_fini` without its first picture); a backend that fails takes the
others with it (`backends_fini`). The handshake is step by step: the mutex before
the creation (`iopoll_init`), the wait that gives it back (`CondWait`), its early end
(`WakeEarly`), the thread's set-up under the mutex, the signal, and both readings of
`init_success`. `Interrupt` is SIGINT at any moment: before the handler is there it kills, before
`setjmp` it jumps nowhere, in `monitor_run` it ends the emulation, and since `longjmp` leaves it
blocked in main the next one goes to the polling thread. `EndOf(t)` is the end of main,
whichever thread runs it; whoever returns ends the other in whatever it is doing.

## 3. Abstract specifications

- `DebugGate`, implemented by `RunControl` (run `run_control`, theorem `Refinement`).
- `Uninterrupted`, implemented by `Cpu` (run `cpu`, theorem `InterruptsInvisible`).
- `Ppu`, implemented by `Machine` (`PpuSpec`, run `machine`, theorem `PictureInStep`): driven by the instructions of a
  program, the picture unit does nothing that it does not do under arbitrary instruction lengths, for
  which its properties are proved.
- For the pure parts, the reference is arithmetic or geometry: `Sum`, `Difference` and
  `Decimal` in `InstructionLaws`, `Covering` and `Before` in `ObjectTable`, `Picture` (256 by
  256 pixels, by rows and columns), `TilePixel` and `Mirrored` in `Scanline`.

## 4. Runs

| run | module, cfg | what it shows |
|---|---|---|
| `run_control` | MCRunControl, RunControl.cfg | INSPECT finds the machine at rest, breakpoints and steps are overrun by one instruction at most, notices stay true, DebugGate is implemented |
| `run_control_live` | MCRunControl, RunControlLive.cfg | with spurious wakeups: a stop that finds `emu` in its loop is acknowledged, a resume leads to execution |
| `run_control_deadlock` | MCRunControl, RunControlDeadlock.cfg | violation of `NeverBothAsleep` |
| `run_control_notice` | MCRunControl, RunControlNotice.cfg | violation of `NoticeMeansStopped` |
| `run_control_delete` | MCRunControl, RunControlDelete.cfg | violation of `DeleteForgets` |
| `ppu` | MCPpu, Ppu.cfg | any register written at any time: no dot lost, lines in order, LY follows the beam, STAT shows the mode or is made to again, phases end in time, the blank is announced when it begins, frames go on unless LY is written for ever |
| `ppu_draw_bounds` | MCPpu, PpuDrawBounds.cfg | violation of `DrawInBounds` |
| `picture` | MCPicture, Picture.cfg | the object index agrees with the table, look-up is exact, the frontmost object is seen; background, window and objects show their pictures, and objects only add themselves |
| `cpu` | MCCpu, Cpu.cfg | with programs that switch banks in and out of handlers: they keep the contract, interrupts are transparent, clocks lose nothing, the timer ends HALT, an enabled request stays until its handler is entered, or the program is about to take it back |
| `instructions` | MCInstructions, Instructions.cfg | results and flags against arithmetic, `op_len` against the handlers, round trips, banks |
| `machine` | MCMachine, Machine.cfg | processor and picture unit together: each vertical blank is handled once, programs find the beam where they expect it, `Ppu` is implemented |
| `process` | MCProcess, Process.cfg | start, interrupt, end, and keys: emulation only with a polling thread, each part ended once, nothing used after its end, no key stuck, main never hangs, and keys are handled but for two exceptions |

### Bounds, and why they are enough

- **RunControl.** Three addresses let a breakpoint, an UNTIL target and a third place be
  different; two breakpoints let an element have a successor and none. `run_control` has no
  bound on the requests (`MaxRequests < 0`): the state space is finite without one, because
  `steps` stops counting at `MaxSteps` = 3, one more than any property asks for. With
  liveness the client sends at most four requests, enough for a stop and a resume twice over.
- **Ppu.** `Ppu.cfg` is a small screen with the same proportions that matter: phases that are
  no multiple of 4 dots, a phase that two instructions span, three lines of blank, and a
  last line below the largest value of LY. LY, LYC and STAT are written at any time and without end,
  STAT with mode bits that are not those of the phase too. One write is bounded: the last line (0x99) goes
  into LY only with at most `MaxDots` dots left. It cuts a phase short, and the next one inherits
  what was left, so a program that wrote it often enough would overflow the `int16_t`
  of `dots_remaining`. 11 dots are the longest phase of the small screen but the blank. The
  constants of the code (80, 230 and 145 dots, 144 lines, 4560 dots of blank) are those of
  the proofs, which hold for every timing in which no instruction outlasts a phase, and
  of `Machine`.
- **Picture.** Three objects fill a row (`NumObjs` is also the number of cells), with
  two that may be considered in a pixel. The values of y lie on a row, within one and on no row; lines
  and columns on the first and last pixel of an object and next to it. The registers of
  the layers take values within and between tiles, at the ends of the window's conditions, and
  where sums pass 255; four lines and four pixels are looked at in each state; no two
  neighbours in the video memory are alike, so a wrong address shows.
- **Cpu.** Two programs: one works under three handlers that touch every register they
  save, nest (the LCD handler enables interrupts) and switch banks under a subroutine that lies in another
  one; one polls with interrupts off. Both come in through the boot image and its
  removal. The picture unit requests in one turn (`MaxRequests`), which may be any, and either
  interrupt or both: in the main code, in the subroutine, within a handler, within RETI. The timer adds its
  own without bound, so the requests meet, wait for each other and nest. The timer runs at dividers 64 and 4.
- **Instructions.** Every opcode, prefixed or not; for sums every byte against 15 operands
  around which carries, signs and nibbles change, with and without the carry. For banks every
  byte written, images of 2, 3, 4 and 32 banks, and the window on any of them before; addresses on both sides
  of each limit.
- **Machine.** 24 programs: the loop halts, holds interrupts off most of the time, or turns the
  screen off and on; LYC is on the first line, the middle, the first line of the blank and
  the last, and stays or wanders. Three vertical blanks (`MaxFrames`), with
  17520 cycles to each: the phase of the loop against the beam differs in every one. The loop that
  turns the screen off writes LY meanwhile. `MaxDots` is what an `int16_t` holds beyond the
  dots of the four phases, more than any of these programs leaves.
- **Process.** Two keyboards, so that one may be listed behind the other, and one key, DOWN,
  typed, repeated and let go on both (two keyboards hold one button; J as well would be the
  same to `monitor_set_key`), between events that are not accepted. At most two
  events wait (`MaxWaiting`), one read ahead and one behind it or on the other device, and
  one change of focus (`MaxFocus`). Keys are typed while the thread polls and main is
  not ending; earlier ones wait in the devices as if they came then. A cartridge is always named on the
  command line: without one the process crashes (below).

`CHECK_DEADLOCK FALSE` stands in the configurations of `RunControl`, whose process may crash
and whose two threads may wait for each other (the finding below), of `Instructions`, whose
programs are two instructions long, of `Machine`, whose frames are counted, and of `Process`,
which ends.

### Fairness

- `RunControl` has weak fairness of each thread: the scheduler runs a thread that can run. No
  fairness is assumed of the client, of spurious wakeups, or of which sleeper is woken.
  `MONITOR_RESUME` is excluded from the repertoire of `run_control_live`: it wakes nobody, so
  nothing follows from it.
- `Ppu` has weak fairness of `Refresh`: `exec_next` calls it after every instruction, and
  register writes are part of instructions.
- `Cpu` has weak fairness of the turn passing on: `monitor_run` calls `exec_next` for ever.
  That a request gets to its handler is owed to programs whose main loop accepts interrupts. The
  one that polls with interrupts off takes its requests back itself: for it `RequestsAreTaken`
  says that nothing else clears them.
- `Process` has weak fairness of each thread. Beyond it, strong fairness that evdev is noticed when it
  is ready: a batch of `epoll_wait` holds up to ten descriptors and there are four, and all of it is
  dispatched, so none of them is left out in favour of another. Nothing of the kind holds between
  devices: `evdev_dispatch` asks `epoll_wait` anew each time and returns after the first accepted event, so
  a device may be listed behind a busy one for ever. `KeysAreHandled` therefore excepts a device while
  another is busy without end, and one that has nothing new: what libevdev has read ahead waits for the
  next event. No fairness is assumed of the user, of the compositor, of SIGINT or of spurious wakeups.

### What does not hold

1. **Both threads asleep** (`run_control_deadlock`). CONTINUE sets `server_running`; before
   `emu` has the mutex back inside `pthread_cond_wait` (`monitor.c:222`), MONITOR_STOP is
   accepted, clears it and waits. `emu` finds itself stopped and sleeps as well.
2. **A notice before the stop** (`run_control_notice`). `hit_breakpoint` sends its notice
   before `stop_execution`; a client that answers at once is turned away as "while running".
3. **DELETE deletes the wrong breakpoint** (`run_control_delete`). `list_remove` has counted
   one too many when it finds its element; for the last element the length of `memmove` is
   negative.
4. **LY is stored as written** (`ppu_draw_bounds`). A line below the screen is then drawn,
   against the assertion of `render_draw_pixel`.

Divergences met on the way that no run is about:

- a spurious wakeup of the wait in MONITOR_STOP (`server.c:244`), which tests nothing, lets an
  INSPECT read a machine that runs; `InspectQuiescent`, `GateSpec` and their proofs assume none;
- DAA after a subtraction that borrows takes off 60 where 0x60 is meant (`cpu_ops.c:2601`);
- TIMA advances by one at most per instruction, so with the divider 4 ticks are lost
  (`cpu.c:279`); `ClocksCountCycles` is stated for the other dividers;
- `REQUEST_INTR_JOYPAD` is 0x8 in `include/cpu.h` and 0x10 in `cpu.c`; nobody requests it;
- `op_len` is wrong for nine opcodes that the processor does not have;
- `ppu.c:90` says that LY goes to 152 in the vertical blank; the code goes to 153;
- objects with a y from 1 to 15 that never had another are not on any row and are not seen;
- a transparent object may hide an opaque one of the same x that comes later in the table;
- a row of `oam_hash` has no cell for the NULL after its fortieth object (`RowsEnd` and
  `RowsNeverOverrun` say why that does no harm);
- line 153 lasts one instruction: the blank ends with the instruction after the one that
  reached it, and an interrupt of LYC 153 comes when LY is 0 again;
- a write to STAT writes the mode bits over (`ppu.c:370`); OAM within a frame and the vertical blank
  only add a bit to what they find, so the bits may stay wrong until a phase of drawing, a horizontal
  blank or the end of the vertical blank;
- turning the unit on begins a phase OAM without setting the mode bits (`ppu_reset`, `ppu.c:350`): STAT
  shows mode 0 for it, or what was written while the unit was off;
- a write to LY moves the beam (`ppu.c:379`): a program that writes 0 on every line never gets a vertical
  blank (`FramesGoOn` excepts writing LY for ever), and one that writes 0x99 over and over makes
  `dots_remaining` grow past its 16 bits;
- with the background off, `final_pixel` has no initial value (`ppu.c:256`); an object behind the
  layers that meets a window of index 0 brings the background to light; the window is off for
  WX from 166 and WY from 143 on; bit 0 of the tile number counts in tall objects too;
- bank 0 is asked for as bank 1, but 0x20 as bank 0 (the test comes before the mask,
  `mbc1.c:40`);
- `evdev_dispatch` returns after one key event, so what is read ahead of it waits for the next one
  from that device, and a lag once built up stays; a device that is always listed behind a busy one is
  never read; keys let go while the window has no focus
  stay down; of two keys that press one button, the first one let go releases it;
- `iopoll_init` waits without a predicate (`iopoll.c:98`): after a spurious wakeup main reads
  `init_success` outside the mutex, perhaps before the thread has set it, and ends what the
  thread then uses; `StartMeansPolling` and `UsedWhileOn` leave that case out;
- `longjmp` out of a handler leaves SIGINT blocked in main (`main.c:35`); a second one then
  runs in the polling thread, which jumps into the frame of main;
- between the first SIGINT and the return of main the polling thread goes on, with a display
  and devices that have been ended: `UsedWhileOn` holds until then;
- a device that fails in `evdev_init` has its devices freed there, and again by
  `backends_init` (`backends.c:72`); without a display `wayland_init` crashes at its first use;
- `render_init` that fails before it has its first picture ends in `render_fini`, which sets the
  transform of a picture that is NULL (`render.c:63`);
- the sound stub returns the descriptor 0, which is standard input, and calls itself a display;
  the start fails where epoll refuses it (a file, /dev/null);
- the boot image has a path in the author's home (`mbc1.c:113`), without which the process
  crashes; 0x256 bytes of the image are read where the boot image has 0x100, and
  `fclose` and the controller use the image's file without asking whether there is one.

## 5. Proofs

Everything in the modules `*Proofs` is checked by tlapm to the last leaf, from the
assumptions on constants that the modules name and nothing else.

**RunControlProofs.** `TypeCorrect` is inductive as it stands, over lemmas about the list
operators. `InspectQuiescent` is not inductive: that `emu` is out of its loop when `srv`
inspects follows from who holds what. `GateInv` is the strengthening: `srv` holds the mutex
in every step but its sleep (`MutexInv`); what `SrvCheck` found stays true until the request
is done (`StoppedInv`), because `emu` only ever clears the flag; and `emu` is in the loop
only under a grant or while `srv` waits for it to leave (`LoopInv`). The last part is
where spurious wakeups are excluded. `Quiescence` follows from it, and `Refinement`, step by step: each action of the two threads maps to
an action of `DebugGate` or to a stutter. `OvershootInv` adds to it when a stop request can outlive
its stop (it is used up by the first poll after the next resume), which bounds the
instructions past a breakpoint or a NEXT to one (`OverrunsByOne`). `SleepersAreStopped` rests on `AskedInv`:
a handler runs what the client sent, and of what it may send only MONITOR_RESUME grants
without waking. `NoticeInvariant` needs no such assumption: after
a notice `emu` only goes on to clear its grant and leave, so the machine stays where the notice said
(`NoticesCurrent`).

**PpuProofs.** For every timing in which no instruction is longer than a phase, every screen
size and any number of frames. `BeamInv` joins the schedule (dots passed and dots left
add up to the dots due), the order of the lines, the range of LY and the
balance in the blank: `vblank_dots`, the dots left, and the lines counted so far differ
from the whole blank by less than one instruction. That balance is what makes LY stop
at the last line; it is not stated anywhere in the code. Two lemmas do the arithmetic of `%`
and of the products. The schedule, the lines and LY are promised from turning the unit on until the program writes LY;
the ends of the phases, `BlankAnnounced` and `StatFollowsMode` whatever it writes (but for 0x99 beyond
`MaxDots`). The last two are step by step over the actions.

**PictureProofs.** The object table: `HashInv` is inductive; the work is in `RemovedRow` and `AppendedRow`,
which say what the loops of `oam_rehash` do to a row without repetitions. `RowsNeverOverrun`
counts: the objects of a full row are all of them, so every other row is empty.
`TwoRowsAreEnough` shows that walking the rows of y and y + 16 misses no object of 8 or 16
lines. What the two loops of a pixel compute is proved turn by turn: a recursive function stands for a
loop, `LoopExists` shows that there is such a function, and `Induction` (a least counterexample, so that no
induction theorem with an operator as parameter is needed) carries what holds after a turn to the
last. For `get_objs_at_xy` that is `Looked` (what has been found covers the pixel, once each, and all of it unless the
limit is reached), which with `TwoRowsAreEnough` gives `LookupCorrect`; for `get_pixel_priority_from_objs` it is `Has`
(the frontmost of the opaque objects seen so far, or a transparent one if there is no
other), which gives `FrontmostShown`.

The pixels of a line, for every video memory, every value of the registers, and every line, pixel
and object. `PicturesShown` is arithmetic: that the sums of two bytes, masked at
different places for rows, columns, lines and pixels of a tile, meet where one picture of 256 by
256 pixels has them; lemmas split a sum modulo 256 into its tile and the pixel in it, and
carry the signed tile numbers over into the linear order of the data. `ObjectsAdd` is a case split over
the three layers.

**ProcessProofs.** For any devices and keys, with or without spurious wakeups.
`ProcessInv` joins the handshake (`HandshakeInv`: main waits before the thread can
signal, and is told only after `init_success` is the thread's final word; with it the
descriptors), which part is on at each place of main (`StartedInv`), what the end has ended, in
whichever thread (`EndedInv`), who blocks the interrupt (`BlockedInv`), and that a start which
main gives up leaves a thread that does not poll (`PollingInv`). The three properties follow:
`StartedPolling`, `EndedOnce`, `DispatchedWhileOn`.

The keys, for any number of waiting events, and whatever libevdev reads
ahead. What a dispatch does to a queue is split into what waits of the device (`Behind`: the queue without its
first events, however they were spread over kernel and libevdev) and of those it has passed over (nothing of
any key). `KeysInv` is then inductive: behind every press or repetition of a key that is up comes
its release (`ReleaseFollows`), so that the flag which a press sets is not the last word, and a button whose
flag says pressed is held or has an event on its way (`PressedIsBusy`). That the program sees the
flag, and no other, is arithmetic over the sum of the bits in FF00. `NoButtonSticks` follows.

**ProcessorProofs.** Lemmas that the next three modules rest on, for every cartridge and boot
image. `CpuType` is the structure `cpu` with the widths of its fields, and one relation that the code
relies on without saying so: a timer that runs has a divider, or `CountTima` would divide by
zero. It is shown family by family that every handler of both tables keeps it and
reports between one and six cycles (`ExecuteEnds`), then for the clocks (`ClockedType`) and
for the entry of an interrupt (`HandlerType`). Two lemmas carry what follows: `KeptRead` (a byte that was
written to memory that keeps it is read back, and nothing else changes) and `PushedBack` (so is a pushed
word). `InterruptsEnterUnseen` and `InterruptsReturn`: the entry of a handler changes nothing
above SP but IF, and a RETI that finds SP and the word there as the handler did resumes where the
interrupt came. `RequestsWait`: neither the clocks nor `handle_intrs` swallows a request.

**InstructionProofs.** The laws, for every operand and every stack that does not lie on the
program, in ROM or on registers (`StacksAssumption`). `RunInv` says that `now` is what one or two
instructions make of a `start` that is `Ready`; the laws are then about `Execute`. `CyclesBounded`; `LengthsTrue` compares `op_len` with where
each handler leaves PC, row by row of the tables, with calls followed to their return; `SumsTrue` derives carry and half carry from
the arithmetic, though the code computes them from masked operands; `DaaTrue` is a case split over the nibbles;
`BanksTrue` is about the window and the images that lack a bank; `RoundTripsTrue` takes every pair
of instructions that undo each other.

**CpuProofs.** For any program and any requests of the picture unit. `InterruptsInvisible` is the
refinement of `Uninterrupted`, for every program that keeps `ProgramContract`, a hypothesis that
the run `cpu` confirms of both its programs. The argument is one of noninterference. Two
states are `Alike` but for a set of addresses when registers, flags, SP, PC, bank and boot image are
the same, and memory outside the set; the machine's own registers may be anything. Family by family,
handlers that read outside the set take alike states to alike states, and a word that both push
is in the set no longer (`Lowered`). The set to take is `Hidden(sp)`, what the program
does not see; it shrinks when SP falls, by just the bytes that were pushed, which is why SP may fall by
pushing alone. So `AlikeExecute`, and from it `InstructionsSeeTheirOwn`: what the program sees
after an instruction is a function of what it saw before, the same one as on a machine of its own. The
rest is bookkeeping: clocks, requests and a wake-up show nothing (`SeenClocked`,
`SeenInterrupt`, `RequestsUnseen`), an interrupt puts what is seen at the end of `suspended`, whose first
element stays until the RETI of the outermost handler (`StepTransparent`), and that RETI shows
what was suspended (`SeenReturn`). The inductive invariant, `SuspendedInv`, is small: the structure
`cpu` keeps its type and `suspended` holds sights. `HandlersStartRestored` is the other side of the
contract: a handler starts with what it has to leave, so one that touches nothing keeps it.

`ClocksTrue`: DIV counts every cycle, and TIMA as many as its divider says. It needs a hypothesis
that the code does not give: `StackAway`, an interrupt does not push its return address onto a
register of the processor. With SP on DIV or TIMA the push is a write there, as on the hardware,
and the property, which allows for the writes of the instruction only, is false.
`ClocksTrueWithRoom` takes the part of the contract that implies it, `InterruptsHaveRoom`. With it
also `RequestsKept`, the safety half of `RequestsAreTaken`: a request leaves IF only when its handler
is entered or the instruction itself wrote IF.

**MachineProofs.** For every program, within the bounds of `ppu_wr` (a turn changes one of the four registers at
most, and LY = 0x99 keeps to `MaxDots`). `MachineInv` is that the cycles
handed to `ppu_refresh` are one to six and that the registers of the picture unit hold bytes. `PictureInStep` is the refinement:
a turn of the processor is one of the writes of `Ppu` or a stutter, a refresh is a refresh
of `Ppu`. Through it the theorems of `PpuProofs`, instantiated with the numbers of the code
(`TimingAdmitted`: they satisfy what the proofs assume of the timing), hold of the emulation step: the schedule, the
order of the lines, LY and the ends of the phases in `PictureFollowsProgram`, the announced blank in `BlanksAnnounced`. `BlanksKept` is
what `BlanksHandledOnce` asks of the machine whatever the program: a blank that is counted is requested, and the
request waits for its handler, unless the program writes IF or has its stack on a register.

**Only model-checked.** All liveness (`StopAcknowledged`, `ResumeExecutes`, `FramesGoOn`,
`TimerEndsHalt`, the second half of `RequestsAreTaken`, `MainMovesOn`, `KeysAreHandled`): fairness is out of
the prover's reach. `ProgramContract`, `BlanksHandledOnce` and `ProgramsMeetTheBeam`: they
hold of programs that save what they use and do not hold interrupts off for too long, so a proof would be one about
the code of those programs.

## 6. Not modelled

- The calls into libwayland, pixman and libevdev beyond what they return and the events they
  deliver; the transport of libemu; the generated xdg-shell header; the sound stub; the
  printing of the cartridge header; the throttle, which only sleeps.
- The shades of the palettes, and writes to BGP, OBP0 and OBP1: nothing depends on them but
  the colours themselves.
- An image that ends inside a bank, of which `fread` then leaves the rest of the bank before in
  place; images are whole banks here. More than one bank of cartridge RAM does not exist in the code.
- A device whose buffer overflows (SYN_DROPPED, which `evdev_dispatch` takes for an event like
  any other).
- `getopt`'s option `s`, the wait for a client, and command lines without a cartridge.
- A `realloc` that fails.
- The contents of what the debugger is told: registers and memory are peeked at when the machine is at
  rest, which `InspectQuiescent` shows.

## 7. What is left

1. A device that overflows, in `Keys`.
2. Images that end inside a bank, in `Instructions`: the window is then the
   bytes of two banks.
