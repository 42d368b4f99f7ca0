# A TLA+ model of the Ghostown Amiga framework

Ghostown's framework is a small operating system for Amiga demos: C and some
assembly for one 68000, with preemptive tasks, nested interrupts, drivers for
the hardware, and an effect framework on top; 51 effects and an intro of 16
scenes are written on it.  The modules here model the parts of `system/` where
the order of events matters, and what the effects and the intro do to memory,
copper, blitter and display; TLC checks them on small instances, and TLAPS
proves most of their safety properties, and all their refinements, for all
instances.  The build that is modelled is the default of `config.mk`:
`MULTITASK=1`, `MEMDEBUG=1`; `Assume(e)` halts the machine when `e` is false.

Paths below are relative to `src/`.

## 1. Inventory

| Component | State | Operations | Talks to |
|---|---|---|---|
| Scheduler, `system/kernel/task.c`, `intr-entry.S` | `CurrentTask`, `ReadyList`, `WaitList`, `NeedReschedule`, the fields of each `TaskT` | `TaskInit`, `TaskRun`, `TaskResume(ISR)`, `TaskSuspend`, `TaskPrioritySet`, `TaskWait`, `TaskNotify(ISR)`, `TaskYield`, `TaskSwitch`, `LeaveIntr` | everything that blocks or wakes |
| Interrupt mask, `interrupt.c` | `intrNest` of the running task, IPL | `IntrDisable`, `IntrEnable` | scheduler (saved with the context) |
| Interrupt chains, `interrupt.c` | three singly linked lists, enable bits | `AddIntServer`, `RemIntServer`, `RunIntChain` | all drivers |
| Mutexes, `mutex.c` | `owner`, `waitList` | `MutexLock`, `MutexUnlock` | allocator, timers, serial, floppy |
| Vertical blank, `vblank.c` | `IsWaiting` | `TaskWaitVBlank`, `VBlankWakeupHandler` | scheduler; every effect |
| Event queue, `drivers/event.c` | `queue`, `head`, `tail`, `used` | `PushEvent(ISR)`, `PopEvent` | keyboard and mouse interrupts, GUI task |
| Memory, `kernel/memory.c` | arenas with boundary tags, a free list each, `MemMtx` | `AddMemory`, `MemAlloc`, `MemFree`, `MemResize` | everything |
| CIA timers, `drivers/cia-*.c` | `InUse`, `Timers`, the ICRs | `AcquireTimer`, `ReleaseTimer`, `SetupTimer`, `WaitTimerSpin/Sleep` | interrupt chains, scheduler |
| Serial port, `drivers/serial.c` | two rings, static `FileT *` | `OpenSerial`, read, write, close, two interrupts | scheduler, memory |
| Floppy, `drivers/floppy.c` | head position, track buffers | open, read, seek, close, block interrupt | CIA timer, scheduler, memory |
| Keyboard, mouse | modifiers, last counters | interrupt servers | event queue |
| Files, `kernel/file.c`, `drivers/filesys.c`, `memfile.c` | positions, directory | open, read, seek, close | floppy or memory |
| Loader, init lists | hunks, `FuncList` | `Loader`, `CallFuncList` | all |
| Effect life cycle, `effect.c`, `effects/main.c`, `intro/main.c` | the flag DONE in the pointers of each `EffectT`, frame counter, `VBlankHandler` | `EffectLoad` ... `EffectUnLoad`, `RunEffects`, `VBlankISR` | effects, vertical blank chain |
| Graphics and blitter, `lib/libgfx`, `lib/libblit` | copper lists, the registers of the chips | `CopListActivate`, `BitmapCopy`, `BlitterLine`, `WaitBlitter` ... | hardware |
| Effects, intro, `effects/`, `intro/` | static bitmaps, lists and buffers, `active`, phases of a chunky-to-planar conversion | `Load`, `Init`, `Render`, `VBlank`, `Kill`, `UnLoad`, handlers of the blitter's interrupt | graphics, blitter, drivers |
| Exceptions, traps, debug, profiler | none that others rely on | dumps and log output | none |
| other libraries, `tools/`, `prototypes/` | 2D, 3D, GUI, sync, music | drawing, music, build | the system |

What is hard here: service routines interrupt tasks and each other at any
instruction where the IPL lets them; a task gives up the processor inside a
masked section and gets its mask back later; one list node per task is linked
into several kinds of list; woken tasks compete again; C code relies on
notifications that may come before the wait; arenas are edited by
neighbourhood arithmetic on tags; reading the ICR of a CIA clears it for all
other servers of its chain; blitter, copper and display go on with memory after
the call that pointed them there has returned, and registers take effect a
frame later.  What makes each component correct, and the
line where it may go wrong, is listed under `hazards` in `PROJECT.json`.

## 2. Modules

| Module | Models |
|---|---|
| `TailQueue` | the `TAILQ_` macros of `include/system/queue.h` at the level of pointers, as functions on a heap |
| `Scheduler` | `task.c`, `IntrEnable`/`IntrDisable`, `YieldHandler`, `EnterIntr`, `LeaveIntr` |
| `Mutex`, `VBlank` | `mutex.c` and `vblank.c`, on `Scheduler` |
| `Kernel` | the three composed, with fairness and properties |
| `EventFifo` | the promise of the event queue: a bounded FIFO (abstract) |
| `EventQueue` | `event.c`, an assignment at a time, with interrupt levels |
| `Memory` | `memory.c`: boundary tags, first fit, coalescing, resizing |
| `CharStreams` | the promise of the serial port: two streams of characters (abstract) |
| `Serial` | `serial.c`: rings, calls, both interrupts, the registers of the port |
| `UnixFiles` | the promise of files: read, seek and close as UNIX has them (abstract) |
| `Files` | `filesys.c` on `floppy.c` or `memfile.c`: positions, heads, track buffers, disk DMA |
| `Interrupts` | server chains of `interrupt.c`; requests, levels and nesting |
| `Timers` | `cia-timer.c` on `cia-icr.c` with its clients: keyboard, floppy, `playahx`; on `Interrupts` |
| `Script` | what functions of `libgfx` and `libblit` do to memory and chips, as sequences of operations |
| `CustomChips` | processor, copper, blitter with its interrupt, display; carries out scripts |
| `EffectLife` | `effect.c`, `effects/main.c`, `intro/main.c`: which script is carried out when |
| `Effects2D`, `EffectsCopper`, `EffectsChunky`, `Effects3D`, `EffectsPlayer`, `EffectsIntro` | the functions of all effects and scenes, as scripts |
| `MCKernel`, `MCEventQueue`, `MCMemory`, `MCSerial`, `MCFiles`, `MCTimers`, `MCEffects` | instances for TLC |
| `KernelProofs`, `KernelLists`, `KernelSchedule`, `EventQueueProofs`, `MemoryProofs`, `SerialProofs`, `FilesProofs`, `TimersProofs` | theorems |

Each `map` entry of `PROJECT.json` names the lines a definition translates.
Operators whose comment begins "Mistaken variant" are not part of any
specification: they are the faults against which `PROJECT.json` tests each
property (`mutants`).

### Scheduler, Mutex, VBlank, Kernel

* **State.** `tq` holds the links of all tasks and the heads of all lists
  (`TailQueue`), so a node that is linked twice damages the lists as it does
  in memory.  `state`, `prio`, `intrNest`, `eventSet` are the fields of
  `TaskT`; `ctx` and `savedIPL` stand for the frame at `currSP`: "code" for a
  frame of the task's own code, "idle" for one inside the idle loop of
  `TaskSwitch`.  `pc` says where a task goes on after a `TaskYield`, `depth`
  how many interrupts are being served, `notify` is the cursor of
  `_TaskNotify`.
* **Atomicity.** With interrupts masked only the running task takes steps, so
  a masked section up to its `TaskYield` or `IntrEnable` is one action, and
  what follows a `TaskYield` is another.  `_TaskNotify` takes an action per
  iteration, since its loop need not end.  A service routine runs at its
  interrupt's level and can be interrupted between its calls.  An operation
  of the kernel includes all it calls: `TaskResume`, for example, is
  `ReadyAdd`, `MaybePreempt` with the whole context switch, and `IntrEnable`.
* **Assertions** are guards: nothing happens after a halt.
* **Clients.** `Calls` and `IsrCalls` say who may call what; a run picks a
  set.  The code after a call returns is any call allowed.
* **Properties** are in `Kernel`.  `HighestPriorityRuns` exempts a task that
  `MutexUnlock` has just woken: the code does not preempt there.

### EventQueue and EventFifo

`event.c` is short, and what is hard about it is what interrupts it.  So every
assignment to `queue`, `head`, `tail`, `used` is a step, and mutual exclusion
is not assumed but follows from `SetIPL`, `IntrDisable`, and the interrupt
levels: a service routine of a higher level may begin between any two steps
that the IPL does not mask.  The scheduler appears as `TaskSwitch`, allowed at
IPL 0 only, which is what `MaskMatchesNesting` establishes for tasks that
leave interrupts enabled outside of these calls.

`RefinesFifo` maps the ring to a sequence: an event is in once `used` counts
it, out once `PopEvent` has read it.

### Memory

An arena is a number of 16-byte units; each unit has a header word, two node
words and a footer word, as block addresses make them fall.  Tags hold sizes
in units, `totalFree` counts bytes.  The critical section of `MemMtx` is one
action (justified by `MutualExclusion` of `Kernel`); `MemAlloc` takes one per
arena, `MemResize` two when it moves a block.  Clients fill every block they
get, so that a tag or node written into client data is seen, and free or
resize only their own blocks.

The word at `ar->end` is never initialised, yet `ArenaMemFree` and
`ArenaMemResize` read it as a header when the last block is involved.  Runs
begin with either kind of content.  If it looks like a free block, the code
goes on to write through a garbage pointer: the arena becomes `wild`, and the
properties say nothing about a wild arena.

### Serial and CharStreams

A call is split at `IntrDisable`, at `TaskWait` and at `IntrEnable`; the
hardware (`Transmit`, `Arrive`) moves at any time, also while interrupts are
masked, and a pending interrupt comes before the next step of a task at IPL 0.
`out` is what a call of `SerialWrite` has yet to push, with `\r` behind each
`\n`; `left` and `got` are the loop of `SerialRead`.  An empty transmit buffer
(`SERDATF_TBE`) is `serdat = NONE`.

Of the scheduler `Serial` takes only what `task.h` promises of `TaskWait`: the
task runs again after its event.  This is an assumption that `WaitList` breaks
(`notify_loop`); without it there would be nothing left to say
of the blocking port.  `OpenSerial` and `SerialClose` are single steps:
`SerialMtx` protects the first, and clients close a port that is not in use.

`StreamsKept` maps transmit buffer and send queue, in this order, to the stream
that is being sent, and the receive queue to the one received.

### Files and UnixFiles

`InitTrackmo` picks a device and `InitFileSys` reads the directory through it,
so the heads have moved before the first file is read.  `FsRead` sets the
position of the device; `FloppyRead` loops over tracks.  A step ends where the
task sleeps (turning, stepping, settling, the DMA) and between the accesses to
the device that a preempting task could come between.  `trackNum` is what the
driver believes, `cyl` and `side` are what the drive does, and a transfer
brings what is under the heads.  Bytes are named by their address on the disk,
so a byte from a wrong track, a stale buffer or another file is a wrong byte.

`BehavesLikeUnix` compares with `UnixFiles`, where a file is a sequence and a
read returns the next bytes of it; the place of files on the disk is stated
apart (`Image`, after `tools/fsutil.py`).  Two deviations are left out of the
run: `SEEK_END`, which counts backwards in `FsSeek`, and
calls of several tasks at a time (`OneCaller`), for which there is no lock.

### Interrupts and Timers

A chain is changed with interrupts disabled, so in one step; a server may take
several, and `handlers` is the stack of chains at work with the place each is
at.  A step of a task or of a server is taken only when no interrupt of a
higher level can be (`Quiet`); hardware may take its time to raise one
(`Request`).  `EnterIntr` clears the request before the servers read the ICR,
so a chain often runs twice, the second time for nothing.

`icr` is what a read returns and clears, `pending` the cache `_ICRPending` of
bits read for others, `mask` what `WriteICR` enables.  A wait is split between
`WriteICR`, `LoadTimer` and the masked section up to the switch, since
underflows and interrupts come in between; `WaitTimerSpin` runs inside the
keyboard's server and is split at each sample.  `elapsed` belongs to no
variable of the code: it says that a timer has underflowed since it was loaded,
or since its player was called, and is what waits are measured against.  A call
of a timeout routine that is `NULL` leaves the server "lost".

`MCPrograms` are the sequences of calls the repository makes: `playahx`, which
takes the keyboard's timer, then any other, and leaves the keyboard on when it
ends; effects that start and stop the keyboard, twice; and the floppy task
beside them.  `WaitTimerSleep` of two timers of one chain, which the
repository has no use for, would lose timeouts (hazard of `cia-timer.c:122`).

### Script, CustomChips, EffectLife and the effects

What effects share is a discipline: memory must outlive the hardware that works
on it, the blitter must be waited for, and what the display fetches is not drawn
on.  That is what the model keeps.  A function of an effect becomes a **script**,
the sequence of what it does to buffers and registers; every operation is a step
of `CustomChips`, against which the beam, the end of a blit, its interrupt and
the vertical blank handler move.

* **Buffers** are bitmaps, planes where a code handles planes apart, pixmaps,
  copper lists and blocks of memory, named as in the source.  `screen[active]`
  is an entry of a ring that `active` turns, so double and triple buffering are
  literal.  Data placed by the linker is `Static`.
* **Statics** are those of a source file (`unit`): the scenes of the intro made
  from one file share them, as they do in the code.
* **Paths.** `render` and `vblank` are sets of scripts, one for each path through
  the function that does different things to buffers.  A frame takes any.  Loops
  over the same buffers are one operation.
* **Copper.** `CopListRun` writes `cop1lc`; the list starts at the next frame
  (`FrameStart`), and only then do the pointers of the display move (`shown`) and,
  for lists that write DMACON, the channel turn on.
* **Blitter.** A blit goes on until `BlitterDone`, at any time before the end of
  the frame after its start; with its channel off it stands still, and goes on
  when the channel is turned on.  Chunky-to-planar conversions hand their chain of
  blits to the interrupt (`phases`).  Registers are part of the blit they are
  written for (`Blit`, `Start`), but where a function writes some ahead of its
  wait: that is an operation of its own (`SetBlitter`), as a blit that is still
  running would use them.
* **Life.** `Programs` is a program per effect (`effects/main.c`) and the intro
  (`intro/main.c`), whose track of scenes is the order of the sync file, played
  to its end.

A property excuses source files by name, in the sets at the head of `MCEffects`
(`FreesUnderBlit`, `DrawsOnDisplay`, ...).  Each set was found by running the
property with an empty set and adding the source file of each counterexample
after reading its code, until it held; each member is one that needs luck,
usually the length of a frame, or that nothing runs after it.  So a set is a
list of results: what is in it breaks the discipline, and all other files are
shown to keep it.  The sets say nothing of what is seen: a bitmap freed while it
shows is still there until somebody allocates.

## 3. Runs

| Run | Instance | Checks |
|---|---|---|
| `kernel_mutex` | 4 tasks, 2 priorities, 1 mutex, 2 nested interrupts, 1 level of client masking; 200,574 states | type, lists, mask, priority, mutex properties |
| `kernel_vblank` | 2 tasks, 1 event, 2 nested interrupts, `FairSpec`; 117 states | a sleeper is announced and returns |
| `event_queue` | 3 slots, 2 events, 2 tasks, levels 2 and 3; 301,056 states | type, refinement of `EventFifo` |
| `memory` | 2 tasks; one arena of 5 units, or one of 3 (fast) and one of 2 (chip); sizes 8 and 24 bytes; 382,791 states | type, tags, free list, ownership, client data |
| `serial` | rings of 2, 2 writers of a newline, one also reads 2 characters; 1,522,936 states | type, refinement of `CharStreams`, no needless sleep, a queue stands still only behind a late sleeper |
| `files` | 8 tracks of 2 bytes, files of 3 and 4 bytes on two tracks each, reads of 1 and 3, seeks; 160,024 states | type, heads, buffer, refinement of `UnixFiles` |
| `timers` | 2 programs of a main task and a disk task, 4 timers, keys and underflows at any time, levels 2 and 6; 74,580 states | chains, waits last and end, keys and ticks are served, no call of address 0 |
| `effects` | 51 effects and the intro with 16 scenes, each of 3 frames, 6 where a ring is longer; 366,647 states | memory, blitter, copper and display discipline; every life ends |
| `notify_loop` | main waits for frames, another task notifies of another event | `NotifyEnds` fails |
| `idle_loop` | three tasks, processor idles while the owner of a mutex is suspended | `StateMatchesLists` fails |
| `memory_shrink` | one task, `FairSpec` | `CallsReturn` fails |
| `serial_ring` | the ring of 80 of the code, one writer of 18 characters | `StreamsKept` fails |

**Bounds.**  `MaxNest` bounds the client's own masking (the code's nesting adds
to it), `MaxIntr` nested interrupts: two are enough for a service routine to
be interrupted before and after it wakes somebody.  Four tasks of two
priorities fill the ready list to three, so insertion happens at the head, in
the middle and at the end, and two tasks queue for a mutex whose woken waiter
a third can beat.  The event queue of three slots becomes empty, full and
wraps around; two levels nest.  (`QUEUELEN` is 32 in the code, where
`& (QUEUELEN - 1)` wraps as `Wrap` does; the proof covers any length.)
Five units allow three client blocks with free neighbours on both sides, an
exact fit, a split, and growth with and without a rest; two arenas make
`MemAlloc` go from one to the next and `MemResize` move a block.
Serial rings of two characters become empty, full and wrap, and two writers
wait for one place.  Two is a length for which the mask of the code is right:
`serial` shows what the driver does apart from its length, and `serial_ring`
what the length of 80 does.  Two-byte tracks of one sector make a read of
three bytes cross from one side of the disk to the other, and seeks and the
two files take the heads several cylinders in both directions.

In `timers` two rounds of the keyboard are enough for a bit left by the first to
reach the second, and the player's timer shares the keyboard's CIA.  Keys and
underflows are not bounded.  In `effects`, `MaxFrames`
is 3 for an effect with one or two buffers, so that the third frame comes back
to the first buffer after both have been shown, and 6 where a ring of four or
five planes turns; every path through `Render` may follow every other.

**Deadlock** is checked except in the runs of `MCMemory`, `MCSerial` and
`MCFiles`: `MemAlloc` halts when there is no memory left, and `MemResize` may
wait for itself; a serial port is closed for good, and a file system too; and a
disk read whose interrupt comes before `TaskWait` does not return.

**Fairness** (`Kernel!Fairness`).  Weak fairness for what the processor does
with interrupts masked, since nothing can come in between; strong fairness for
what interrupts can hold up (the end of the outermost interrupt, the idle
loop), because interrupts here leave time for the program; strong fairness for
the vertical blank and its handler, because the request stays pending while it
is masked and comes again with every frame.  Client code is not fair but for
`IntrEnable`: a client does not keep interrupts off for good.
`Memory!FairSpec`: a task in a call goes on when the mutex lets it.
`Timers!Fairness`: servers go on, the CPU takes interrupts, timers count, and a
keyboard that gets no answer sends its code again, as its own processor does;
tasks are not fair.  `EffectLife!Fairness`: frames and blits end and handlers
return; strong fairness for the effect's own code, which handlers interrupt over
and over but do not starve.

**Scope of `kernel_vblank`.** Waking a task does not take it off `WaitList`.
With a single waiter and a single event the list that results (the task linked
to itself) does no harm, since `ReadyAdd` overwrites the link before it is
followed.  This is the case that the run covers, and the case of an effect
that waits for frames while nothing else notifies.  Two steps beyond
it fail: a notification of something else (`notify_loop`), and a second task
that waits for frames, since `ReadyAdd` overwrites the link of the first in the
middle of the loop of `_TaskNotify`, the second is not reached, and `IsWaiting`
is clear.  Nothing in the repository makes two tasks wait so.

## 4. What the violations show

* **`notify_loop`.** `main` waits for a frame, is woken, waits again: it is
  first on `WaitList` and links to itself.  A notification of another event
  now follows that link forever at IPL 7.  (With the serial port open, each
  received character is such a notification.)
* **`idle_loop`.** The idle loop runs in the frame of the task that last gave
  up the processor.  An interrupt preempts the loop; later the task is
  resumed, inside the loop, finds `ReadyList` empty and stops the processor:
  it is ready, but nobody runs it.
* **`serial_ring`.** `i & (QUEUELEN - 1)` is `i & 79`, which takes 16 to 0: the
  seventeenth character that waits overwrites the first, and is later sent
  again in its place.
* **`memory_shrink`.** `ArenaMemResize` calls `ArenaMemFree` under `MemMtx`,
  which is not recursive.

Seen while modelling, and not runs of their own:

* A writer that sleeps on a full send queue is woken when there is place for one,
  but may run when the queue has been sent to its end and the last transmit
  interrupt has been served.  `PushChar` then queues its character
  (`serial.c:57`), although queue and `serdat` are empty, where the comment of
  `serial.c:50` has it pushed out directly; nothing sends it, nor what is queued
  behind it.  `SendqKeepsMoving` of `serial` excuses this step, and says that no
  other stops the queue, and that it needs a port without `O_NONBLOCK`.
* Growing a block over exactly all of the last free block drops `ISLAST`
  (`memory.c:352`), which `ArenaCheck` asserts at `memory.c:402`.
* `include/effect.h:58` says that `UnLoad` frees what `Load` allocated; `tiles8`,
  `tiles16` and `uvlight` keep a table, a list of tiles or a texture
  (`MCEffects!Leaks`).
* `CopListActivate.c:11` waits "to make sure the list is active", but for line
  303 of the frame before: the list starts at line 0, after the call returns.
* `neons` and `playctr` have a `VBlank` handler that `effects/main.c` calls before
  `Init` and after `UnLoad` (`MCEffects!HandlesTooEarlyOrLate`).
* The blits that the interrupt of `uvmap`'s conversion continues, and `Render`'s
  restart of it, are ordered by nothing but the length of a frame
  (`MCEffects!StartsWhileBusy`).
* `tilezoomer.c:199`, `flatshade.c:134` and `blurred3d.c:206` write registers that
  their blits have in common ahead of the first `WaitBlitter`, while a blit that
  was started before may still use them (`MCEffects!StartsWhileBusy`).
* `ReleaseTimer` neither stops the timer nor masks it nor clears its routine.

## 5. Theorems

All constants are arbitrary within the named assumptions of the modules
(`MainAssumption`, `ListsDistinct`, `QueueLenAssumption`, ...).

**`KernelProofs`**: `Spec => []TypeOK`, `Spec => []MaskMatchesNesting`,
`Spec => []MutualExclusion`.  None is inductive alone.  The invariant `IInv`
adds, to types and mask:

* `LabelsNested`: a task inside a call has interrupts disabled at least as
  often as the label it goes on at will enable them, or `EnableAndReturn`
  could take a count below zero;
* `NotifyMasked`: `_TaskNotify` runs masked, in a task or in an interrupt;
* `IntrUnmasked`: interrupts are served only above code that runs at IPL 0, so
  that a switch at `LeaveIntr` saves a level that agrees with the count;
* `SwitchTypes`, small facts on contexts needed by a context switch;
* `HoldersOwn`: whoever holds a mutex is in its `owner` field, from which
  exclusion follows.

The proof has one lemma per action or group of actions; a context switch
(`Yield`, `Dispatch`) has its own lemma, used by all the calls that end in one.

**`EventQueueProofs`**: `Spec => []TypeOK` and `Spec => RefinesFifo`, for every
queue length and any interrupt levels.  The invariant says that whoever is in
the middle of a push or pop has IPL 7 and runs, so at most one actor is in such
a section, and that `tail` is `head + used` modulo the length up to what the
section has yet to do.  Each step then maps to one of `EventFifo` or to a
stutter.

**`KernelLists`** and **`KernelSchedule`**: `ListsSound`, `StateMatchesLists`,
`HighestPriorityRuns`, `NoSleepOnFreeMutex` and `VBlankSleepersAnnounced`, for any
number of tasks, priorities, mutexes and nested interrupts.  They need
`ClientRules(w)`, and each rule excludes calls that can lead the lists astray:

* only one task `w` waits for the vertical blank, as the effects do from the main
  task, and nobody for other events: a task woken stays on `WaitList`, and a second
  one that waits is lost or leads the loop of `_TaskNotify` elsewhere (see the
  scope of `kernel_vblank` in section 3);
* where `w` waits, tasks do not send `INTF_VERTB` themselves, as only the interrupt
  server clears `IsWaiting`;
* nobody suspends itself by name or sets its own priority: the running task would be
  removed from, or added to, a list that it is not on;
* there is a task to run, since `main` never stops (`MainStays`), or no task but `w`
  ever stops and service routines only notify (`OthersStay`): then the processor
  may idle, but on the stack of `w`, which is the one that is woken there.  Where it
  idles on another's stack the interrupt preempts the idle loop (`idle_loop`).

`MCKernel` states as assumptions, which TLC evaluates, that the clients of
`kernel_mutex` and of `notify_loop` keep to them.  So the loop that `notify_loop`
finds is one that hangs, but not one that loses the task waiting for a frame.
`StateMatchesLists` also needs that nobody waits for frames, as it says that a
ready task is on no other list than `ReadyList`, and a woken one still is on
`WaitList`.  The clients of `kernel_vblank` go beyond the rules: there `main` waits
for a notification too, and the background task sends it.

`KernelLists` is about the heap of links that the `TAILQ_` macros edit.  A list
is sound when its links, closed to a ring at the head, forward and back are the
inverse of each other, and some numbering of the tasks grows along `next`
(`Lists`), so that nothing lies on a ring of its own; each macro maps sound lists to sound lists, with the numbering
shifted where it inserts or removes.  Walks along `next` are recursive functions
of the model; what they return is shown with the least position at which they
would differ, so induction over data is not needed.  `WaitList` is not one of
the lists said to be sound: it is a ring of `w` alone, which leads away when
`ReadyAdd` writes the link of `w`.  `KernelSchedule` adds to the invariant

* which list each task is on by its state, and that the lists are ordered by
  priority (`Placed`); that frames are those of task code (`Framed`);
* who may be more important than the running task (`Highest`): a task that
  `MutexUnlock` woke, or, while `NeedReschedule` is set, anybody;
* that a free mutex with sleepers has a task awake that will come to take it
  (`Wakeful`);
* that `WaitList` starts with `w` from its first wait on (`Awaits`), so that the
  server's notification begins with `w`;
* that while `w` sleeps in `TaskWaitVBlank` either `IsWaiting` is set or the loop of
  `_TaskNotify` stands at `w` and is about to wake it; and that once it has, it goes
  on behind `w` on `ReadyList`, along whose numbering it comes to an end without
  meeting `w` again (`Alarm`, `Behind`);
* that an idle processor has `CurrentTask = w` and no other task ready (`Idling`).

`Alarm` is why the last property needs all the others: whether the loop stops short
of `w` depends on where the links of `ReadyList` lead, hence on the lists being
sound, hence on who is on which of them.

**`MemoryProofs`**: `TypeOK`, `TagsSound`, `FreeListSound`, `BlocksOwned` and
`PayloadKept`, for arenas of any number and size, any tasks, any sizes of blocks
and any contents of the word behind an arena.  The assumptions are on the
machine only: an arena has two units at least (`AddMemory` puts a header, a node
and a footer there), a size is not 0, `NULL` is no address.  What the properties
say of an arena is not inductive, since it is said of walks: of what
`ArenaCheck` finds going from tag to tag or from node to node.  `Good(h, n, S)`
says it of all places at once:

* `Cut`: `S` are the places where blocks start, and from each of them the size in
  its tag leads to the next;
* `Fits`: what the flags, the footer and the canary of a block say of it and of
  the block before is true, and a used block holds what its client wrote
  (`Untouched`);
* `Listed`: the nodes of the free blocks are a ring through `HEAD`, along which
  some numbering grows, so that the ring has no second part;
* `totalFree` is the sum of what the free blocks offer (`Sums`).

Every operation is shown to be an edit of at most two neighbouring blocks
(`Recut`): `S` changes between `lo` and `hi` only, tags outside stay what they
are, and the sum changes by what is inside.  `ArenaMemAlloc`, `Expand`, `Split`
and the four ways through `ArenaMemFree` are then instances.  That walks see
exactly `S` (`BlocksAre`), and exactly the ring, follows from the least step at
which they would leave it.

For the allocator as a whole, `IInv` adds that used blocks are those that clients
and calls have (`Holds`), and that no two of them have one block (`Apart`): it is
what the interleaving of `MemResize` needs, which leaves the mutex between its
`MemAlloc` and its `MemFree`, having both blocks.

**`SerialProofs`**: `[]TypeOK`, `[]SleepersHaveCause` and `SendqKeepsMoving` for
every length of the rings up to 128, and `ImplementsStreams`, that the driver
refines `CharStreams`, for every length that is a power of two (`PowerOfTwo`).
The last needs it: with another length the mask takes two indices to one, as
`serial_ring` shows of the length 80 that the code has.  The others hold of the
driver as it is.  `SendqKeepsMoving` is about steps, on ports of either kind: what
is queued stays on its way but for the one step of a sleeper that comes back to an
empty queue.  It does not exclude that step, which the code can take (section 4);
that it is not taken on a port with `O_NONBLOCK` follows from the part of the
invariant that says who may sleep (`Calls`).

**`FilesProofs`**: `[]TypeOK`, `[]HeadsKnown` and `[]BufferHoldsTrack` follow from
`Spec` and `OneCaller`, for every disk of two sides (`DiskAssumption`; `floppy.c`
has 160 tracks of 11 sectors), every directory, any tasks and arguments.  That
clients make one call at a time is an assumption, and a needed one: two calls
at once share `trackNum` and the buffers.  The invariant `IInv` adds:

* `Approach`: while the heads move, their track lies on the side of the wanted
  one and ahead of them, so steps of two reach it and never pass it; once there,
  they stay until the data is decoded, and the block interrupt brings that track;
* `Rest`: between two reads of tracks, `trkInBuf` is where the heads are, so a
  skipped read (`trackNum == num`) decodes the right data;
* `WithinDisk`, `WithinFile`: what is left to read lies on the disk and in the file.

`ImplementsUnixFiles`: with `OneCaller`, and clients that seek from the beginning
or from the position (`Clients`, as all do), the whole stack of file system,
driver and drive refines `UnixFiles`.  `Reading` is the invariant that links them:
what a call has got so far are the bytes of the file from its position on, in
order, and the device stands behind the last of them, also when the read is in
the middle of a track, waits for the disk, or has just crossed from one side to
the other.

**`TimersProofs`**: `[]ChainsServed`, `[]NoNullTimeout` and `[]WaitsDelay`, for any
levels of the interrupts, any priorities of the servers, and any set of tasks
whose calls follow `DriverRules` (`ProgramsAssumption`; `MCPrograms` does, and TLC
evaluates the assumption): a driver works for one task, has its timer acquired
once before it uses it, and releases it after; the keyboard's server is started
once and stopped before the timer is released.  This is how `KeyboardInit` and
`KeyboardKill`, `FloppyOpen` and `FloppyClose`, and `Init` and `Kill` of `playahx`
call.  The invariant `IInv` says in turn

* where a driver is in its calls, which decides what it owns (`Owners`) and what is
  on which chain (`Chains`): nothing else adds or removes servers;
* that the chains at work have growing levels, so none is entered twice, and that
  their servers are on them (`Nested`): tasks, which change chains, do not run then;
* that a timer which is waited for fires once (`Once`): from `LoadTimer` on it
  counts with nothing in the ICR, or it has fired and does not count, and it is busy
  only while its driver waits.  So no bit is left for a later wait;
* that the server of the keyboard's timer never finds its bit: it is there only
  while the keyboard's server spins, which is at work on the same chain, and no chain
  is entered twice (`TimeoutIs`);
* that the disk's interrupt is requested or served only while the disk's task is
  asleep or just woken, as the bit is masked until `NotifyTimeout` is set
  (`FloppyWaits`), and that the player has set its routine before its timer counts
  (`PlayerTicks`).

That the order of servers on a chain is kept needs what `AddIntServer` and
`RemIntServer` do to a list (`InsertOrders`, `RemoveOrders`); their priorities matter
for nothing else.

**Only model-checked**: the five properties of the kernel's lists and sleepers for
clients beyond `ClientRules`, as those of `kernel_vblank`; the properties of the
effects (facts about the text of each effect: there are no other values of the
constants), and all liveness, which is out of the provers' reach.  So is induction over data: what a
recursive function computes is proved only where, as above, a least
counterexample will do.

## 6. Not modelled

Hardware registers beyond what the modelled code needs; relocation and the
return to AmigaOS; decoding (MFM, key codes, mouse counters); pixels, colours
and geometry, so all of `lib2d`, `lib3d` and the arithmetic of the effects;
buffers without `BM_CLEAR` that are shown before they are drawn; log output.
Players in assembly, some of which replace the level 6 vector (external); so
`playp61`, which acquires a timer of level 6 to keep others from it, is not among the
clients of `Timers`.
`libgui`, `sync.c` and the mouse are sequential code behind the event queue.
Vectors, the table that each driver writes once.  The frame and line counters.
The spinning wait of a task, which nobody calls outside an interrupt.  CPUs
other than the 68000 differ only in the exception frame that `TaskRun` builds.
`TaskSuspend` and `TaskPrioritySet` with `NULL` are in the model but in no
run: nothing in the repository calls them so, and the first would read a field
through the null pointer.  `BlockSize` overflows for sizes near 4 GiB, which no
client asks for.  `SEEK_END` of `FsSeek` counts backwards, and nobody seeks so.

## 7. Plan

1. (done) Kernel core, event queue with refinement, allocator; their proofs.
2. (done) `Serial` and `Files` with their abstract specifications, model-checked;
   heads and buffer of `Files` proved.
3. (done) `Interrupts` and `Timers`; the life of all effects and the intro.
4. (done) Proofs of the lists and promises of the kernel, of `Memory`, of
   `Serial` and its refinement, of `Files` and its refinement; of `Interrupts` and
   `Timers`.
5. (done) Proofs: `VBlankSleepersAnnounced` for one waiter, and with it the other
   promises of the lists where one task waits for frames.
6. Widget state of the GUI on the event queue, last.
