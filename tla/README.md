# TLA+ specifications of rix-os

rix-os is a small x86_64 kernel in Rust: one CPU, kernel threads scheduled
round robin from the timer interrupt, a process table, a frame allocator and a
heap, a console and a logo on the screen, PCI enumeration, ACPI power-off from
the keyboard. Paths below are relative to `kernel/src/`.

## The system

| part | state | operations | what is hard about it |
|---|---|---|---|
| scheduler (`scheduler.rs`) | `SCHEDULER`: thread table and `current`; `NEXT_TID` | `tick`, `spawn_thread`, `mark_thread_exited`, `current_tid/pid`, `init` | called by threads with interrupts enabled and by the timer handler with them disabled, under one spin lock |
| processes (`process.rs`) | `PROCESS_TABLE`: pid → PCB with its tids, `next_pid` | `create_process`, `exit_process` | several lock sections per call, preemption between and inside them, allocations inside |
| context switch (`context.rs`) | the saved stack pointer of each TCB | `context_switch`, `thread_trampoline` | raw pointers used after the lock is released; a first entry without an interrupt return |
| interrupts (`interrupts.rs`, `apic.rs`) | interrupt flag, 8259s, local APIC, IO APICs, IDT | the handlers, `apic::init`, `end_interrupts` | the end of interrupt must precede a switch that may not return; NMIs come anywhere; the order of initialisation |
| output (`serial.rs`, `console.rs`, `logging.rs`) | `SERIAL`, `CONSOLE`: cursor and frame buffer | `_print`, `log`, `draw_string` | used by threads and handlers; runs off the screen |
| display (`bga.rs`, `main.rs`) | the adapter's registers, the frame buffer | `bga_set_video_mode`, the logo | order of the writes; a frame buffer mapped for another mode |
| memory (`memory/`) | frame counter, page tables, heap | `allocate_frame`, heap `init`, `virtual_to_physical` | running out in the middle; one counter for two purposes; arbitrary memory maps; huge pages |
| ACPI (`acpi/`) | `ACPI_SHUTDOWN`, the PCI address latch | `init`, `shutdown`, configuration accessors | fallback on every failure; encodings; read, change and write back |
| PCI (`pcie.rs`) | - | `enumerate_pci` | holes, echoes and single function devices |
| boot (`main.rs`), GDT (`gdt.rs`) | written once | `kernel_main`, `gdt::init` | order, panics, keys that come too early |

Threads call the process table, which calls the scheduler and the allocator; the
timer handler calls the scheduler; the keyboard handler calls ACPI; everything
prints. They share state only under spin locks (`spin::Mutex`), and on one CPU a
spin lock is released only if its holder runs: when interrupts are disabled it
never does.

What makes each part correct:

* scheduler: one owner of the CPU; exits are final; nobody is passed over or
  starved; the switch respects the contract of `context_switch`;
* processes: a PCB names its own threads, locks are released, nobody waits in a
  circle;
* interrupts: ended before interrupts can be enabled, never nested, no wait with
  interrupts disabled for a lock that another thread holds; every vector that can
  be sent has a handler;
* memory: no frame has two uses, none is taken from the bootloader, a heap
  exists exactly when it is completely mapped, the page walk tells what the CPU does;
* ACPI, PCI, display: what is written to the hardware means what the caller meant.

`PROJECT.json` lists the components, the hazards with their lines, and for every
definition the code it stands for.

## Modules

| module | models | composes |
|---|---|---|
| `ThreadTable` | `impl Scheduler` as operators on the thread table | |
| `Scheduler` | abstract specification: the thread table with atomic operations | `ThreadTable` |
| `Processes` | `create_process`, `exit_process`, `spawn_thread` cut at every lock operation, and the timer | `ThreadTable`; implements `Scheduler` |
| `Locks` | the same calls as lock operations only, with the allocator's lock | `ThreadTable` |
| `Kernel` | CPU, interrupt flag, local APIC, locks, stacks, handlers, NMIs, context switch | `ThreadTable`; implements `Scheduler` |
| `Memory` | `memory::init` and the page walk | |
| `Boot` | `kernel_main` up to `enable_interrupts`: GDT, IDT, 8259s, APICs, and the keyboard | |
| `Acpi` | `acpi::init` and `shutdown` | |
| `Display` | console, mode change, logo, page fault and breakpoint handlers | |
| `PciAddress` | the address that goes to port 0xCF8 and what the host bridge makes of it | |
| `PciConfig`, `PciScan` | the configuration accessors of `acpi/handler.rs`; `enumerate_pci` | `PciAddress` |
| `Pci` | the two users of the configuration ports | `PciConfig`, `PciScan` |
| `MC...` | small instances for TLC | |
| `SchedulerProofs`, `ProcessesProofs`, `LocksProofs`, `KernelProofs`, `MemoryProofs`, `BootProofs`, `AcpiProofs` | theorems, each about the module it is named after | that module |
| `DevicesProofs` | theorems about `Pci` and `Display`, which share no state | both |

The operators that plausible bugs would give (`PreemptedAlways`, `EoiAfterTick`,
...) stand before the real ones, in every module; no specification uses them.

**ThreadTable.** Slots are numbered from zero as in the code. An `Option` is a
set with at most one element, so `next_ready_thread` is the set of the first
Ready slot after the current one.

**Scheduler.** `add_thread`, `tick` and `mark_thread_exited` are atomic, as the
lock is meant to make them. `mark_thread_exited` may hit any thread, the running
one and the idle one included, since `exit_process` takes any pid. Blocked is a
state no code assigns.

**Processes.** A call is a program counter with the values it carries across its
lock sections. The pcs come in pairs, spinning for a lock and holding it;
a tick can come between any two steps. A tick that finds `SCHEDULER` taken sets
`wedged`: it spins with interrupts disabled and nothing else happens. The demo
threads and all threads created later are callers; `Calls` says which calls each
makes. Between calls they do nothing of interest. `info!`, names and exit codes
are left out.

**Locks.** A call is the sequence of its lock operations, so that the heap's lock,
taken inside `PROCESS_TABLE` and `SCHEDULER` whenever a collection grows, fits in.
An allocation that a collection may or may not need is `may_lock`. The data is
gone: `mark` exits any thread.

**Kernel.** All code is a program, a sequence of calls that each take a lock, work
and release it, some inside `without_interrupts`. A stack holds the frame of its
thread's program and, while that is interrupted, those of handlers. Steps are
fine enough for an interrupt to arrive before, inside and after each lock
section. The local APIC has requested and in-service vectors with their priority
classes; end of interrupt ends the highest in service. NMIs and machine checks
are taken whatever the flag, in handlers, masked sections and the window of a
switch, and on the same stack; the handler of a machine check does not return.
`context_switch` moves the CPU between stacks: a stack it left resumes after its
own `tick()`, a fresh one at the trampoline's `sti`. The table's `context` field is
the stack a saved pointer leads to. Several prints in a row are one, and `Logging`
says whether `LOG_LEVEL` admits messages at all. The write in `shutdown()` is taken
to power the machine off; `Acpi` says when it does.

**Memory.** Addresses are numbers, page tables have `Fanout` entries, and the heap
spans several of them. `allocate_frame` and `map_to` take frames from one counter
in turns, as in the code; each may find none, in which case the tables made so
far stay. The bootloader's own tables (`BootTables`, with bit 7 on some entries) are
there from the start. Of them it is assumed that they are well formed, map nothing
where the heap goes, lie outside the memory called Usable, and form a tree (no
recursive entry: `BOOTLOADER_CONFIG` asks for none). `virtual_to_physical` is the walk of the code over all of them,
`Translation` that of the CPU. `map_to` (crate x86_64), `PageTableEntry::frame`,
`Iterator::nth` and the bootloader's map are external. Of `frame` the repository shows only the
match in `memory/mod.rs` on its errors; that it answers `HugeFrame` for every entry with bit 7 set,
whatever the level, is assumed (the crate's source is not in the repository), and
`WalkAgreesWithCpu` rests on it.

**Boot.** A machine is a record of what it offers (heap, tables, APIC, local APIC, number of
IO APICs). `PicsLeft` and `PinsLeft` say in which states the firmware may leave an 8259 and an IO
APIC's table: any base, any mask, in the middle of an initialisation, any pins unmasked on
any vectors. The local APIC is taken to deliver nothing until the kernel enables it, and to
have no request pending by then. The init calls run in the order
of `kernel_main`, the 8259s and the IO APICs write by write; a step that unwraps or
allocates in vain ends in `panicked` or `halted`. Keys come at any time. External: the
8259's initialisation sequence (a data write is a command word or the mask by
where the sequence stands), `IoApic::init` (masks all pins), and the keyboard
controller: a byte that enters the empty output buffer gives one edge, lost if the
pin is masked or the local APIC disabled, and the next byte waits for the buffer to be read.

**Acpi.** The steps of `init` that can fail are a sequence, and a machine says which
succeed; the first that fails ends `init`. The length of a DSDT shorter than its header
underflows: a panic in a build with overflow checks, a slice without end in one without. Numbers keep their widths. External: the PM1a control
register enters the state in its bits 10-12, and QEMU's debug exit port
exists only if QEMU was started with the device.

**Display.** Real sizes: the logo, the character height, the texts of `kernel_main`. A text is
written piece by piece (`write_str`, as `write_fmt` calls it); interrupts are masked meanwhile, so
nothing else happens until `pieces` is empty. `printed` is a history variable, the bytes
written so far. The specification is `DisplaySpec`. The
width of a character is the font crate's and is assumed (14). The adapter (external)
takes a size only while disabled and may round widths down to a granularity. A
write beyond the mapped frame buffer faults, before the IDT is loaded it resets the machine.

**PciConfig, PciScan, Pci.** An accessor is its sequence of port accesses; a dword is a
function from position to byte, as all masks and shifts are by whole bytes. Calls come at any
offset with any width, as the functions take them; nothing in the repository aligns them. A scan
is one loop body per step over an arbitrary set of functions that answer. The two
run on the same thread, one after the other, so `Pci` has behaviours of either.

## Runs

`tlc -workers 2 -config X.cfg MCModule`

| run | bounds | states | shows |
|---|---|---|---|
| `scheduler` (`MCScheduler`) | 5 threads, 3 pids | 3 k | `CpuOwner`, `ExitedForever`, `NoOvertaking`, and under fairness of `tick` `ExitedYields`, `ReadyRuns` |
| `processes` (`MCProcesses`) | 5 threads, 5 pids; both demo threads create and exit, one spawns, new threads create | 1.7 M | `PcbNamesItsThreads`, `LocksProtectSections`, `UnrecordedHasCreator`, refinement of `Scheduler` |
| `exit_race` (`MCProcessesExitRace`) | 4/4, create and exit | | counterexample to `ExitProcessExitsThreads` |
| `locks` (`MCLocks`) | 3 threads, all calls again and again | 41 k | `NoWaitCycle`, `LocksReleased` |
| `kernel` (`MCKernel`) | 3 threads, all vectors, NMIs, messages on | 1.8 M | `SwitchContract`, `EndedBeforeEnabled`, `NoReentry`, `HangsOnOwnLock`, `IdsAreOwn`, refinement of `Scheduler` |
| `kernel_live` (`MCKernelLive`) | timer, keyboard and machine checks, messages off | 77 k | `EnterStops`, `ReadyGetsCpu` |
| `kernel_enter` (`MCKernelEnter`) | timer and keyboard, messages off | | counterexample to `EnterPowersOff` |
| `memory` (`MCMemory`) | 12 frames, tables of 2 entries, 1872 maps, a heap of 4 pages | 26 k | `FramesExclusive`, `FramesUsable`, `HeapMapped`, `WalkAgreesWithCpu`, `HeapIffEnoughFrames`, `TranslationStable` |
| `boot` (`MCBoot`) | 48 machines with up to 2 IO APICs of 4 pins, 2 states of each 8259 and 3 of each IO APIC, 3 keys | 101 k | `GatesValid`, `ReadyBeforeInterrupts`, `OnlyHandledVectors`, `EnterHeard` |
| `acpi` (`MCAcpi`) | all sets of failing steps, 2 addresses, 4 sleep types | 16 k | `FallbackOrFound`, `StaysOnOnlyIfMisencoded` |
| `display` (`MCDisplay`) | 12 screens, real sizes, 3 breakpoints | 100 k | `ConsoleFits`, `LogoPitch`, `LogoShown` |
| `pci` (`MCPci`) | 2 calls of any width on 2 functions at 6 offsets; all machines of 2 buses, 2 devices, 3 functions | 396 k | `AccessesNamedBytes`, `ScanReportsPresent` |

`TypeOK` is checked in `scheduler`, `processes`, `kernel` and `memory`. `NoWaitCycle` says that
among any threads there is one that waits for no lock which one of them holds.

*Bounds.* Five threads make the scan wrap with Ready, Running and Exited slots on
both sides of `current`. With 5 threads and pids two creations overlap, by old and
new threads, while the demo threads exit each other, themselves, the idle process
or the new ones. Three threads are enough for `Locks`: two hold locks that
a third waits for; `NoWaitCycle` was also checked with four (2.2 M states). `Kernel`
needs no bound: it has the kernel's three boot threads, and vectors are requested or
not. Machine checks and NMIs are raised in different runs only to keep each small. The
heap of `MCMemory` needs nine frames, five of them for tables under two different
tables of level 2; the maps have from none to eleven usable frames in one to three
regions, sorted or not; below the other root entry are a huge page of level 3 and
one of level 2, a page with bit 7 and a plain one. Three keys fill the keyboard's
buffer and queue two more. Two calls of `PciConfig` show what the first
leaves in the latch to the second; their offsets are all four of one dword, an odd one of
the other and an odd one beyond 256. The firmware leaves controllers untouched, unmasked on the
CPU's exceptions, or with one pin of another device unmasked, and 8259s in the middle
of an initialisation: what the writes of `apic::init` must undo. Two IO APICs are the fewest for which
the first one's being listed twice differs from all being so.

*Deadlock* is checked for `Scheduler` only: the other models stop where the machine
does (wedged, hung, powered off, halted, finished, or all calls used up).

*Fairness.* `tick` and `timer_fires` are weakly fair: the local APIC timer is
periodic. `CpuStep` (an instruction, or taking a pending interrupt) is weakly fair:
the CPU executes. So are the init calls and the keyboard's handler in `Boot`,
`kernel_main` in `Display` (its thread gets the CPU again and again, `ReadyGetsCpu`)
and the scan. In `Locks` the timer is weakly fair, whether it switches or spins, and
the steps of a call are strongly fair: a thread that gets the CPU again and again
completes an instruction sequence much shorter than a timer period in some turn,
and a spinning thread finds the lock free in some turn. No fairness is assumed of
keys, errors, spurious interrupts, NMIs, machine checks or breakpoints, nor that a
thread starts calls. The fairness in `Boot` and `Display` leaves out one thing that does happen,
the hang on `SCHEDULER` that `kernel_enter` shows and `HangsOnOwnLock` delimits: once the CPU
hangs there neither the keyboard's handler nor `kernel_main` runs again. So `EnterHeard` and
`LogoShown` say what the boot and the drawing do as long as it does not; `EnterStops` has the
hang in its statement. `ReadyGetsCpu` needs the keyboard to fall silent in the
end, as its vector is served before the timer's.

## What the runs say about the code

Two runs are counterexamples to what the code says of itself:

1. `kernel_enter`: `current_pid()`/`current_tid()` take `SCHEDULER` with interrupts enabled
   (`scheduler.rs:190,195`) and `tick()` takes it in the timer handler
   (`scheduler.rs:163`). A tick that arrives in between spins forever with
   interrupts disabled. "Press Enter to poweroff." (`main.rs:81`) is then not
   true. `HangsOnOwnLock` shows that this is the only way the kernel can hang on a
   lock, but for an NMI or a machine check that prints on top of a print.
2. `exit_race`: "Mark a process as Zombie and all its threads as Exited." (`process.rs:108`)
   fails when `exit_process` runs between `create_process` adding the main thread and
   recording it. (It fails as well for every thread made with `spawn_thread`, which is
   recorded nowhere.) The kernel as shipped calls neither at run time; the
   functions are the interface it offers.

Other properties hold only with an exception that their statement names:

3. `HeapIffEnoughFrames`: without enough frames there is no heap; `memory::init` drops the
   error (`memory/mod.rs:77`), "Memory initialized" (`main.rs:62`) is logged, and the first
   allocation halts.
4. `EnterHeard` needs that no key is pressed before the local APIC is enabled: such a key
   leaves its byte at port 0x60, its edge is lost, nothing reads the port before the
   handler (`interrupts.rs:204`), and no later key gives an edge.
5. `OnlyHandledVectors` and `ReadyBeforeInterrupts` need a machine whose interrupt model is
   the APIC: on others `apic::init` returns at once (`apic.rs:155`), "APIC Initialized" is logged,
   and interrupts are enabled with the 8259s as the firmware left them.
6. `StaysOnOnlyIfMisencoded`: the sleep type is written to bits 0-2 of PM1a_CNT, not
   10-12 (`acpi/mod.rs:156`), so shutdown works only for a sleep type of 0 or a multiple
   of 1024 that fits; and the fallback does nothing under a QEMU without
   `isa-debug-exit`, as the launcher starts it.
7. `AccessesNamedBytes`: byte and word reads at an offset that is no multiple of four return
   the first bytes of its dword (`acpi/handler.rs:93`), as dword reads do; a word written at an odd
   offset goes to the even one below it (`:115`), a dword written at an offset that is no
   multiple of four overwrites the dword it lies in (`:121`); offsets from 256 on wrap (`& 0xFC`).
8. `ConsoleFits`: each text moves the cursor down by its length in bytes
   (`console.rs:149`), and `cursor_x`, which the wrap tests, never moves: enough output panics
   under the `CONSOLE` lock; and with three bytes a pixel `console::init` writes over the end.
9. `LogoPitch`, `LogoShown`: the logo, 774 pixels wide, is skewed on an adapter that rounds
   widths to multiples of eight, and faults forever in a frame buffer mapped for less.
   The console keeps the old stride after the change of mode.
10. `WalkAgreesWithCpu`: `virtual_to_physical` panics on huge pages and on 4 KiB pages that have
    bit 7 set for their memory type.
11. `LocksReleased`: a thread exited by another inside the allocator or `PROCESS_TABLE` never
    releases it.

## Proofs

`tlapm XProofs.tla`. All of them are for every value of the constants that satisfies the
named assumptions of the modules; TLC evaluates these on every run. `Spec` adds fairness
to `SafeSpec`, so what is proved of `SafeSpec` holds of it. The inductive invariants
were checked with TLC before they were proved.

**Scheduler** (any number of threads, any `Tids` and `Pids` with the boot threads' identifiers)

* `TypeCorrect`, `OneOwner`: the two halves of `OwnerInv == TypeOK /\ CpuOwner`. `CpuOwner`
  alone is not inductive: a switch indexes the table at `current`, which must be a slot,
  and reads the state found there.
* `ExitIsForever`: what `next_ready_thread` returns was Ready, so a switch never rewrites
  an Exited slot (`NextReady`, `SwitchTable`).
* `RoundRobin` (`NoOvertaking`): if the switch goes k slots on, a Ready thread d slots away has
  d # k (it is not the next one) and not d < k (the scan found nothing Ready on the way),
  so d > k and its distance becomes d - k. It needs `CpuOwner`: the current thread is not
  Ready, so d > 0. `TurnForward` and `TurnBack` are the arithmetic of `%` around the table.

**Processes** (any bounds above the boot threads, any assignment of calls to callers)

`ProcInv` is `BaseInv /\ LocksProtectSections /\ IdsUnique /\ CreatorInv /\ PcbNamesItsThreads`.

* `TypeCorrect` from `BaseInv`, which adds to the types a budget: identifiers that calls have
  reserved and not used are counted (`CountAt`), so that `next_pid` and `NEXT_TID` stay in
  range however calls overlap.
* `SectionsExclusive` (`LocksProtectSections`) is inductive on top of the types: a section is entered only
  by taking a free lock, and a tick that finds `SCHEDULER` taken does not switch.
* `PcbsOwnTheirThreads`, `OneCreator`: a tid in flight (reserved, not in the table) belongs to
  one call (`IdsUnique`), and a process without threads to one creator (`CreatorInv`).
* `Implementation`: every step is a step of `Scheduler` or leaves its table alone;
  uniqueness of tids in flight is what makes `add_thread` an abstract `add_thread`.
  `OneOwnerUnderCalls`, `RoundRobinUnderCalls` and `ExitIsForeverUnderCalls` carry `CpuOwner`,
  `NoOvertaking` and `ExitedForever` through it.

**Locks** (any number of threads)

* `NoDeadlock` (`NoWaitCycle`): `LockInv` says that the operations a thread has left are
  `Disciplined` from the locks it holds: any lock may be taken with none held, after
  that only the heap's. Every call is shown disciplined, section by section
  (`InOrder`, `Section`, `SectionAfter`). In a circle every thread holds a lock, so each
  could only be waiting for the heap's, and the one that holds that for none.

**Kernel** (any set of vectors and exceptions, messages on or off)

`KernelInv` is five parts: `StacksInv` (the frames of each stack fit on each other, each saved
the flag that the one below ran with, and the flag is what the top frame says),
`ServiceInv` (at most one interrupt in service, and the handler in the second frame has not
ended it), `LocksInv` (a lock is taken exactly if one frame on the CPU's stack holds it),
`TableInv`, and `SwitchInv` (stacks off the CPU are fresh or in the timer's switch; the window
between `tick` and `context_switch` names the right threads). None is inductive alone: the
flag restored by `iret` is only known from the frame below, and that a switch leaves no lock
behind needs that the timer interrupted an enabled program.

* `InterruptsEnded`, `HandlersNeverNest`, `SwitchesAreSafe`, `OnlyKnownHangs` follow from it;
  `OwnIdentifiers` and `TypeCorrect` with `RestInv` for the remaining variables.
* `Implementation`, `OneOwnerUnderInterrupts`, `RoundRobinUnderInterrupts`: the refinement forgets the saved contexts. Only
  `tick` takes an abstract step, since `prepare_switch` on a record with a context is
  `prepare_switch` on one without.

**Memory** (any memory maps, page, table and heap sizes, and page tables of the bootloader)

`MemInv` is `TypesInv`, `BootInv` (the bootloader's entries are kept), `TreeInv` (two walks below
the root entries that were unused meet only while the prefixes of their pages agree),
`DrawnInv` (every frame in use was drawn from the counter, and is used once) and `ProgressInv`
(exactly the heap pages before `page` have a frame).

* `FrameNumbers`: two counters never stand for one frame. A frame's number is the count of
  usable frames before it, which grows strictly along the map (`RankOrdered`), and disjoint
  regions have different frames (`AddressesDiffer`).
* `WalkChanges`: setting the entry for one page changes the walk of exactly the pages that
  share its prefix at that level. It rests on `TreeInv` and carries the steps of `map_to`.
* `FramesUsedOnce`, `OnlyUsableFrames`, `HeapIsMapped` and `TypeCorrect` follow from `MemInv`.
* `WalkAgrees` compares the two walks level by level (`AgreeStep`) and needs no invariant.
* `TranslationsStay` (`TranslationStable`, an action property): entries in use are never changed
  (`EntriesKept`), and all tables the CPU's walk reaches exist (`TablesReached`), in the heap's part of the
  tree by `TreeInv` and in the bootloader's by the assumption that it is a tree.
* `HeapExactly` (`HeapIffEnoughFrames`) is a counting argument, `CountInv` on top of `MemInv`. A frame's
  rank is an injection of the usable frames into the numbers below their count, hence onto
  them, so `allocate_frame` fails exactly from the count on (`FrameExists`). While the heap is being
  mapped, `next` is the number of pages mapped plus that of the needed tables that exist
  (`Made`), plus the frame at hand: `create_next_table` adds exactly one to `Made` (`OneMoreTable`, from
  `WalkChanges`), and no other step changes it. A failure leaves a page or a table out, so
  there were fewer frames than `Needed` (`StillNeeded`); after the last page all tables are
  made (`AllMade`) and there were enough.

**Boot** (every machine the model can describe, any number of IO APICs and pins, any states
the firmware leaves the controllers in)

* `GatesAlwaysValid`, `ReadyBeforeEnabled` from `OrderInv`, what each point of `kernel_main` may rely on.
* `VectorsHandled` from `PicInv` (how far the ten writes have brought each 8259; the first restarts
  it from any state), `RedirectionInv` and `ListInv` (the list of IO APICs names each one, and those
  before the current one are `Programmed`: the keyboard on pin 1, every other pin masked). That
  the first is listed twice is why `ProgrammedBefore` excepts a controller between the two parts of
  `IOApic::enable`, whose pins are all masked then.

**Acpi** (any addresses, any sleep types)

* `AllOrNothing`, `PowersOffUnlessMisencoded` from `InitInv`: the steps before the current one have succeeded,
  and only `store` leaves the fallback.

**Devices**

`Pci`: any functions, registers, widths, offsets (aligned or not) and byte values; any set of
functions that answer, on up to 256 buses.

* `NamedBytesOnly` (`AccessesNamedBytes`, an action property) from `AccessInv`: after its address write a call's
  latch selects its own dword (`SelectedIs`: packing and unpacking of the address are inverse), and
  what it has read is still there when it writes back. `ShiftIs`, `FirstIs` and `MergedIs` are the
  arithmetic of the shift: which bytes it selects at every offset, and that they are the
  named ones if the call is `Honoured`.
* `ScanExact`, the safety half of `ScanReportsPresent`: `ScanInv` says that what is reported
  is, once each, what is present before the place the scan has reached, in the order of bus,
  device and function; leaving a device early passes only functions that are echoes.

`Display`: any screen at least a character wide and no wider than its stride, any font
and logo sizes, the logo narrower than 65536 pixels, since its width is cast to a `u16`.

* `ConsoleBound` (`ConsoleFits`) from `ConsoleInv`: until it panics, the console is what `init` made, its
  cursor at row `printed`. A text whose last pixel lies beyond the buffer has, with a row
  for each of its characters, more rows than the screen (`RowsBound`, as no character is wider
  than the stride).
* `PitchOfLogo` (`LogoPitch`) from `ModeInv`, what the adapter holds after each of the six writes.
* `LogoFits`, the safety half of `LogoShown`: a row ends no later than the logo does
  (`RowsInLogo`), so a fault means that it is too large, and its end that it is not.

Only model-checked: liveness (`ReadyRuns`, `ExitedYields`, `LocksReleased`, `EnterStops`, `ReadyGetsCpu`,
`EnterHeard`, and that `LogoShown` and `ScanReportsPresent` come about at all), since fairness and ENABLED
are out of the prover's reach. The two counterexamples are TLC's.

## Not modelled

* Exception handlers that only print what the code never raises, and the double fault: it
  panics on a stack of its own.
* The memory and port accessors of `acpi/handler.rs`, which pass one value through, and its
  placeholders (`stall`, `sleep`, mutexes, timers); device registers that change by themselves
  or on writing ones, which the accessors' write back would disturb.
* `alloc_test`, the `linked_list_allocator`, `acpi`, `aml`, `x86_64` and `x2apic` crates inside.
* The text of messages, class names of PCI devices, colours and glyphs.
* `unwrap`s of a missing frame buffer, RSDP or physical memory offset.
* `bga_is_available`, `clear()`, `qemu.rs` and user segments: nothing uses them.
* The host side launcher and build script. More than one CPU: the kernel starts none.

## Plan

Every safety property of the runs is proved. The parts left out are those above; the first
worth adding are device registers that change by themselves, beneath the accessors of
`acpi/handler.rs`, and the double fault.
