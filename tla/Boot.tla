-------------------------------- MODULE Boot --------------------------------
(***************************************************************************)
(* kernel_main (kernel/src/main.rs) up to enable_interrupts(): the order   *)
(* of the init calls, where they panic or halt, and what they program: the *)
(* GDT, the TSS and the IDT (gdt.rs, interrupts.rs), the two 8259s, the    *)
(* local APIC and the IO APICs (apic.rs).  Keys are pressed meanwhile.     *)
(* Kernel.tla takes over with the threads and the other handlers.          *)
(***************************************************************************)
EXTENDS Integers, Sequences, FiniteSets

CONSTANTS
    Firmwares,  \* the machines to boot on
    Pins,       \* input pins of an IO APIC: 0 .. 23
    PicsLeft,   \* states the firmware may leave an 8259 in
    PinsLeft,   \* contents it may leave in an IO APIC's redirection table
    MaxKeys     \* bound: keys pressed

\* What the machine and its firmware offer: a heap (memory::init found enough
\* frames), ACPI tables, an interrupt model that is the APIC, a local APIC the
\* crate can drive, and how many IO APICs the tables list.
Firmware == [heap : BOOLEAN, tables : BOOLEAN, apic : BOOLEAN, lapic : BOOLEAN, ioapics : Nat]

\* External: the registers of an 8259 (the initialisation word it waits for, 0
\* for none, its vector base and its mask) and an IO APIC's redirection entry.
PicState == [icw : {0, 2, 3, 4}, base : Nat, mask : Nat]
Entry == [vector : Nat, masked : BOOLEAN]

ASSUME BootAssumption ==
    /\ Firmwares \subseteq Firmware
    /\ Pins \subseteq Nat /\ 1 \in Pins
    /\ PicsLeft \subseteq PicState /\ PinsLeft \subseteq [Pins -> Entry]
    /\ MaxKeys \in Nat

VARIABLES
    firmware,   \* the machine this is
    pc,         \* the call of kernel_main that comes next
    k,          \* how far a call made of several steps has come
    cs,         \* the GDT that CS belongs to: "bootloader" or "kernel"
    ist,        \* the entries of the loaded TSS's interrupt stack table
    idt,        \* the GDT the gates' code selector belongs to, or "none"
    pic,        \* the 8259s
    lapic,      \* LAPIC: "uninit", "none" (not built), "built" or "enabled"
    ioapics,    \* IOAPIC: the list, by the number of the controller
    redirection,\* controller -> pin -> its redirection entry
    scheduler,  \* number of threads in SCHEDULER
    IF_flag,    \* the CPU's interrupt flag
    irr,        \* vectors requested of the local APIC
    buffer,     \* the byte at port 0x60, or "empty"
    typed,      \* the keyboard's bytes that wait for the buffer
    keys,       \* keys pressed so far
    power       \* "on" or "off"

cpuVars == <<cs, ist, idt, IF_flag, scheduler>>
apicVars == <<pic, lapic, ioapics, redirection>>
keyVars == <<irr, buffer, typed, keys, power>>
vars == <<firmware, pc, k, cpuVars, apicVars, keyVars>>

\* Vectors with a device interrupt handler in the IDT.
Timer == 32
Keyboard == 33
LapicError == 51
Spurious == 255
Handled == {Timer, Keyboard, LapicError, Spurious}

\* Plausible mistakes; no specification uses them.

IdtFirst ==
    <<"idt_init", "gdt_init", "memory_init", "acpi_init", "read_tables", "pic_write",
      "build_lapic", "push_ioapics", "program_ioapics", "enable_lapic",
      "scheduler_init", "enable_interrupts", "running">>

InterruptsFirst ==
    <<"gdt_init", "idt_init", "memory_init", "acpi_init", "read_tables", "pic_write",
      "build_lapic", "push_ioapics", "program_ioapics", "enable_lapic",
      "enable_interrupts", "scheduler_init", "running">>

\* The calls of kernel_main in order, apic::init in its parts.  pcie::init
\* changes nothing (PciScan.tla).
kernel_main ==
    <<"gdt_init", "idt_init", "memory_init", "acpi_init", "read_tables", "pic_write",
      "build_lapic", "push_ioapics", "program_ioapics", "enable_lapic",
      "scheduler_init", "enable_interrupts", "running">>

After(call) ==
    kernel_main[1 + CHOOSE i \in 1 .. Len(kernel_main) : kernel_main[i] = call]

\* The firmware may have left any of the controllers in any state.
Init ==
    /\ firmware \in Firmwares
    /\ pc = kernel_main[1] /\ k = 1
    /\ cs = "bootloader" /\ ist = {} /\ idt = "none"
    /\ pic \in [{"A", "B"} -> PicsLeft]
    /\ lapic = "uninit" /\ ioapics = <<>>
    /\ redirection \in [1 .. firmware.ioapics -> PinsLeft]
    /\ scheduler = 0
    /\ IF_flag = FALSE
    /\ irr = {} /\ buffer = "empty" /\ typed = <<>> /\ keys = 0
    /\ power = "on"

----------------------------------------------------------------------------
At(call) == pc = call
Goto(call) == pc' = call /\ k' = 1
Return == Goto(After(pc))

\* gdt::init loads the GDT, the segment registers and the TSS, whose first
\* four stack table entries the loop over `frames` has filled.
gdt_init ==
    /\ At("gdt_init")
    /\ cs' = "kernel" /\ ist' = 0 .. 3
    /\ Return
    /\ UNCHANGED <<firmware, idt, IF_flag, scheduler, apicVars, keyVars>>

\* interrupts::init builds the IDT (lazy_static) and loads it.  set_handler_fn
\* puts the CS of that moment into each gate.
DOUBLE_FAULT_IST_INDEX == 0

idt_init ==
    /\ At("idt_init")
    /\ idt' = cs
    /\ Return
    /\ UNCHANGED <<firmware, cs, ist, IF_flag, scheduler, apicVars, keyVars>>

\* memory::init returns with or without a heap (Memory.tla).
memory_init ==
    /\ At("memory_init") /\ Return
    /\ UNCHANGED <<firmware, cpuVars, apicVars, keyVars>>

\* acpi::init and the acpi crate allocate, if they get that far (Acpi.tla); an
\* allocation without a heap halts.
MayHalt == Return \/ (~firmware.heap /\ Goto("halted"))

acpi_init ==
    /\ At("acpi_init") /\ MayHalt
    /\ UNCHANGED <<firmware, cpuVars, apicVars, keyVars>>

\* apic::init: unwrap() on the tables; another interrupt model than the APIC
\* leaves everything as it is.
read_tables ==
    /\ At("read_tables")
    /\ IF ~firmware.tables THEN Goto("panicked")
       ELSE IF firmware.apic THEN MayHalt
       ELSE Goto("scheduler_init")
    /\ UNCHANGED <<firmware, cpuVars, apicVars, keyVars>>

----------------------------------------------------------------------------
(* LApic::init: the 8259s *)

PowersOf2 == <<1, 2, 4, 8, 16, 32, 64, 128>>
Bits(v) == {b \in 0 .. 7 : (v \div PowersOf2[b + 1]) % 2 = 1}

\* Plausible mistake; no specification uses it.
NoIcw4 == <<<<"cmd", "A", 17>>, <<"cmd", "B", 17>>,
            <<"data", "A", 248>>, <<"data", "B", 255>>,
            <<"data", "A", 4>>, <<"data", "B", 2>>,
            <<"data", "A", 255>>, <<"data", "B", 255>>>>

\* The writes to ports 0x20, 0x21 (A), 0xa0 and 0xa1 (B); 0x80 is a delay.
PicWrites == <<<<"cmd", "A", 17>>, <<"cmd", "B", 17>>,
               <<"data", "A", 248>>, <<"data", "B", 255>>,
               <<"data", "A", 4>>, <<"data", "B", 2>>,
               <<"data", "A", 1>>, <<"data", "B", 1>>,
               <<"data", "A", 255>>, <<"data", "B", 255>>>>

\* External: an 8259.  ICW1 clears the mask and starts a sequence of which
\* ICW2 is the vector base (a multiple of 8), ICW3 the cascade, ICW4 the mode;
\* outside it a write to the data port is the mask.
PicAfter(c, reg, v) ==
    IF reg = "cmd" THEN [c EXCEPT !.icw = 2, !.mask = 0]
    ELSE CASE c.icw = 0 -> [c EXCEPT !.mask = v]
           [] c.icw = 2 -> [c EXCEPT !.icw = 3, !.base = v - (v % 8)]
           [] c.icw = 3 -> [c EXCEPT !.icw = 4]
           [] c.icw = 4 -> [c EXCEPT !.icw = 0]

pic_write ==
    /\ At("pic_write")
    /\ LET w == PicWrites[k] IN pic' = [pic EXCEPT ![w[2]] = PicAfter(@, w[1], w[3])]
    /\ IF k < Len(PicWrites) THEN k' = k + 1 /\ UNCHANGED pc ELSE Return
    /\ UNCHANGED <<firmware, cpuVars, lapic, ioapics, redirection, keyVars>>

\* The builder's error is dropped (`.ok()`).
build_lapic ==
    /\ At("build_lapic")
    /\ lapic' = IF firmware.lapic THEN "built" ELSE "none"
    /\ Return
    /\ UNCHANGED <<firmware, cpuVars, pic, ioapics, redirection, keyVars>>

----------------------------------------------------------------------------
(* The IO APICs *)

\* init_ioapic for each of them: the first is put into the list when the list
\* is made, and pushed again.
push_ioapics ==
    /\ At("push_ioapics")
    /\ IF k > firmware.ioapics THEN Return /\ UNCHANGED ioapics
       ELSE IF ~firmware.heap THEN Goto("halted") /\ UNCHANGED ioapics
       ELSE /\ ioapics' = IF ioapics = <<>> THEN <<k, k>> ELSE Append(ioapics, k)
            /\ k' = k + 1 /\ UNCHANGED pc
    /\ UNCHANGED <<firmware, cpuVars, pic, lapic, redirection, keyVars>>

\* External (x2apic): IoApic::init gives each pin a vector of its own, masked.
InitPins == [p \in Pins |-> [vector |-> 32 + p, masked |-> TRUE]]

\* Plausible mistakes; no specification uses them.

EntryThenInit(i) ==
    <<[redirection EXCEPT ![i][1] = [vector |-> Keyboard, masked |-> FALSE]],
      [redirection EXCEPT ![i] = InitPins]>>

NoInit(i) ==
    <<redirection,
      [redirection EXCEPT ![i][1] = [vector |-> Keyboard, masked |-> FALSE]]>>

\* IOApic::enable: init(32), then pin 1 goes to the keyboard's vector; a
\* default entry is not masked, and enable_irq(1) unmasks it once more.
enable_ioapic(i) ==
    <<[redirection EXCEPT ![i] = InitPins],
      [redirection EXCEPT ![i][1] = [vector |-> Keyboard, masked |-> FALSE]]>>

\* IOAPIC.get().unwrap() fails when no IO APIC was pushed; otherwise every
\* entry of the list is programmed, the first controller twice.
program_ioapics ==
    /\ At("program_ioapics")
    /\ IF ioapics = <<>> THEN Goto("panicked") /\ UNCHANGED redirection
       ELSE LET controller == ioapics[(k + 1) \div 2]
                part == 1 + ((k + 1) % 2)
            IN  /\ redirection' = enable_ioapic(controller)[part]
                /\ IF k < 2 * Len(ioapics) THEN k' = k + 1 /\ UNCHANGED pc ELSE Return
    /\ UNCHANGED <<firmware, cpuVars, pic, lapic, ioapics, keyVars>>

\* LApic::enable unwraps the Option that LApic::init left.
enable_lapic ==
    /\ At("enable_lapic")
    /\ IF lapic = "none" THEN Goto("panicked") /\ UNCHANGED lapic
                         ELSE lapic' = "enabled" /\ Return
    /\ UNCHANGED <<firmware, cpuVars, pic, ioapics, redirection, keyVars>>

\* scheduler::init allocates the process table and the threads.
scheduler_init ==
    /\ At("scheduler_init")
    /\ IF firmware.heap THEN scheduler' = 3 /\ Return
                        ELSE Goto("halted") /\ UNCHANGED scheduler
    /\ UNCHANGED <<firmware, cs, ist, idt, IF_flag, apicVars, keyVars>>

enable_interrupts ==
    /\ At("enable_interrupts")
    /\ IF_flag' = TRUE
    /\ Return
    /\ UNCHANGED <<firmware, cs, ist, idt, scheduler, apicVars, keyVars>>

----------------------------------------------------------------------------
(* The keyboard (external) and its handler *)

\* A byte that enters the empty buffer gives one edge on pin 1.  It becomes a
\* request if the pin is unmasked and the local APIC enabled; else it is lost.
Edge == IF lapic = "enabled" /\ ~redirection[1][1].masked
        THEN {redirection[1][1].vector} ELSE {}

key_pressed(key) ==
    /\ power = "on" /\ keys < MaxKeys
    /\ keys' = keys + 1
    /\ IF buffer = "empty"
       THEN buffer' = key /\ irr' = irr \cup Edge /\ UNCHANGED typed
       ELSE typed' = Append(typed, key) /\ UNCHANGED <<buffer, irr>>
    /\ UNCHANGED <<firmware, pc, k, cpuVars, apicVars, power>>

\* The handler reads the buffer, which lets the next byte in, and shuts down
\* on Enter.
keyboard_interrupt_handler ==
    /\ power = "on" /\ IF_flag /\ Keyboard \in irr
    /\ buffer' = IF typed = <<>> THEN "empty" ELSE Head(typed)
    /\ typed' = IF typed = <<>> THEN <<>> ELSE Tail(typed)
    /\ irr' = IF typed = <<>> THEN irr \ {Keyboard} ELSE irr \cup Edge
    /\ power' = IF buffer = "enter" THEN "off" ELSE power
    /\ UNCHANGED <<firmware, pc, k, cpuVars, apicVars, keys>>

Init_call ==
    \/ gdt_init \/ idt_init \/ memory_init \/ acpi_init \/ read_tables \/ pic_write
    \/ build_lapic \/ push_ioapics \/ program_ioapics \/ enable_lapic
    \/ scheduler_init \/ enable_interrupts

Next ==
    \/ Init_call
    \/ keyboard_interrupt_handler
    \/ \E key \in {"enter", "other"} : key_pressed(key)

\* The CPU executes, and takes the interrupts that are pending.
Spec == Init /\ [][Next]_vars /\ WF_vars(Init_call) /\ WF_vars(keyboard_interrupt_handler)

----------------------------------------------------------------------------
\* Once the IDT is loaded, its gates lead into the GDT that is loaded and the
\* double fault handler's stack exists: gdt::init must come first, because the
\* gates copy the CS of the moment they are built.
GatesValid == idt # "none" => idt = cs /\ cs = "kernel" /\ DOUBLE_FAULT_IST_INDEX \in ist

\* Interrupts are enabled only with everything the handlers and threads use in
\* place: a heap, threads to switch between and, on a machine with an APIC,
\* the local APIC that each handler unwraps.
ReadyBeforeInterrupts ==
    IF_flag => /\ firmware.heap /\ scheduler > 0
               /\ firmware.apic => lapic = "enabled" /\ idt = "kernel"

\* Vectors a controller may send: the 8259s those of their unmasked lines and
\* the one of a spurious interrupt, the local APIC its own, the IO APICs those
\* of their unmasked pins.
PicVectors ==
    UNION {{pic[p].base + l : l \in ((0 .. 7) \ Bits(pic[p].mask)) \cup {7}} : p \in {"A", "B"}}
IoApicVectors ==
    UNION {{redirection[i][p].vector : p \in {q \in Pins : ~redirection[i][q].masked}} :
              i \in 1 .. firmware.ioapics}

\* On a machine with an APIC no interrupt ever arrives at a vector without a
\* device handler, however the firmware left the controllers: nothing from the
\* 8259s, spurious ones included, hits an exception's gate or an empty one, and
\* no pin the firmware left unmasked is still so.  Programming the first IO APIC
\* twice does no harm either: in the end each has the keyboard on pin 1 and
\* nothing else.
OnlyHandledVectors ==
    IF_flag /\ firmware.apic =>
        /\ PicVectors \cup IoApicVectors \cup {Timer, LapicError, Spurious} \subseteq Handled
        /\ \A i \in 1 .. firmware.ioapics : \A p \in Pins :
              ~redirection[i][p].masked <=> p = 1

\* "Press Enter to poweroff." (main.rs:81): Enter does, behind any keys before
\* it, if no key is pressed before the local APIC is enabled.  The byte of such
\* a key stays at port 0x60, its edge lost, and no later key gives an edge.
\* This is about the boot: the fairness of the handler takes for granted that
\* the CPU goes on taking interrupts, which it does not for ever once a timer
\* interrupt has come while the current thread held SCHEDULER (HangsOnOwnLock of
\* Kernel.tla; its runs check what becomes of Enter with that hang).
EnterHeard ==
    [](lapic # "enabled" => buffer = "empty")
        => ((pc = "running" /\ (buffer = "enter" \/ \E i \in 1 .. Len(typed) : typed[i] = "enter"))
            ~> (power = "off"))
=============================================================================
