----------------------------- MODULE BootProofs -----------------------------
(***************************************************************************)
(* Proofs about Boot.tla, for any machine it may boot on, any number of IO *)
(* APICs with any pins, whatever the firmware left in them and in the      *)
(* 8259s, and any number of keys.                                          *)
(***************************************************************************)
EXTENDS Boot, SequenceTheorems, TLAPS

PCs == {"gdt_init", "idt_init", "memory_init", "acpi_init", "read_tables", "pic_write",
        "build_lapic", "push_ioapics", "program_ioapics", "enable_lapic",
        "scheduler_init", "enable_interrupts", "running", "halted", "panicked"}

\* Before apic::init reaches the 8259s, while it is at work, and behind it.
BeforeApic == {"gdt_init", "idt_init", "memory_init", "acpi_init", "read_tables"}
BehindPic == {"build_lapic", "push_ioapics", "program_ioapics", "enable_lapic"}
BehindApic == {"scheduler_init", "enable_interrupts", "running"}

----------------------------------------------------------------------------
(* The order of the calls *)

LEMMA AfterIndex ==
    ASSUME NEW i \in 1 .. 12
    PROVE  After(kernel_main[i]) = kernel_main[1 + i]
<1>1. \A j \in 1 .. Len(kernel_main) : kernel_main[j] = kernel_main[i] => j = i
  BY DEF kernel_main
<1>2. i \in 1 .. Len(kernel_main)
  BY DEF kernel_main
<1>3. (CHOOSE j \in 1 .. Len(kernel_main) : kernel_main[j] = kernel_main[i]) = i
  BY <1>1, <1>2
<1> QED BY <1>3 DEF After

LEMMA AfterCall ==
    /\ After("gdt_init") = "idt_init" /\ After("idt_init") = "memory_init"
    /\ After("memory_init") = "acpi_init" /\ After("acpi_init") = "read_tables"
    /\ After("read_tables") = "pic_write" /\ After("pic_write") = "build_lapic"
    /\ After("build_lapic") = "push_ioapics" /\ After("push_ioapics") = "program_ioapics"
    /\ After("program_ioapics") = "enable_lapic" /\ After("enable_lapic") = "scheduler_init"
    /\ After("scheduler_init") = "enable_interrupts" /\ After("enable_interrupts") = "running"
<1> DEFINE c == kernel_main
<1>1. /\ c[1] = "gdt_init" /\ c[2] = "idt_init" /\ c[3] = "memory_init" /\ c[4] = "acpi_init"
      /\ c[5] = "read_tables" /\ c[6] = "pic_write" /\ c[7] = "build_lapic"
      /\ c[8] = "push_ioapics" /\ c[9] = "program_ioapics" /\ c[10] = "enable_lapic"
      /\ c[11] = "scheduler_init" /\ c[12] = "enable_interrupts" /\ c[13] = "running"
  BY DEF kernel_main
<1>2. /\ After(c[1]) = c[2] /\ After(c[2]) = c[3] /\ After(c[3]) = c[4] /\ After(c[4]) = c[5]
      /\ After(c[5]) = c[6] /\ After(c[6]) = c[7] /\ After(c[7]) = c[8] /\ After(c[8]) = c[9]
      /\ After(c[9]) = c[10] /\ After(c[10]) = c[11] /\ After(c[11]) = c[12] /\ After(c[12]) = c[13]
  BY AfterIndex
<1> HIDE DEF c
<1> QED BY <1>1, <1>2

\* Where each call of kernel_main goes on.
From(a, b) == pc = a /\ pc' = b
LEMMA PcMoves ==
    /\ gdt_init => From("gdt_init", "idt_init")
    /\ idt_init => From("idt_init", "memory_init")
    /\ memory_init => From("memory_init", "acpi_init")
    /\ acpi_init => From("acpi_init", "read_tables") \/ From("acpi_init", "halted")
    /\ read_tables => \/ From("read_tables", "panicked") \/ From("read_tables", "halted")
                      \/ From("read_tables", "pic_write") /\ k' = 1
                      \/ From("read_tables", "scheduler_init") /\ ~firmware.apic
    /\ pic_write => \/ From("pic_write", "pic_write") /\ k < Len(PicWrites) /\ k' = k + 1
                    \/ From("pic_write", "build_lapic") /\ ~(k < Len(PicWrites))
    /\ build_lapic => From("build_lapic", "push_ioapics") /\ k' = 1
    /\ push_ioapics => \/ From("push_ioapics", "push_ioapics")
                       \/ From("push_ioapics", "halted")
                       \/ From("push_ioapics", "program_ioapics") /\ k' = 1
    /\ program_ioapics => \/ From("program_ioapics", "panicked")
                          \/ From("program_ioapics", "program_ioapics")
                          \/ From("program_ioapics", "enable_lapic")
    /\ enable_lapic => \/ From("enable_lapic", "panicked")
                       \/ From("enable_lapic", "scheduler_init") /\ lapic' = "enabled"
    /\ scheduler_init => \/ From("scheduler_init", "halted") /\ scheduler' = scheduler
                         \/ /\ From("scheduler_init", "enable_interrupts")
                            /\ firmware.heap /\ scheduler' = 3
    /\ enable_interrupts => From("enable_interrupts", "running")
BY AfterCall
   DEF gdt_init, idt_init, memory_init, acpi_init, read_tables, pic_write, build_lapic,
       push_ioapics, program_ioapics, enable_lapic, scheduler_init, enable_interrupts, At, Goto,
       Return, MayHalt, From

----------------------------------------------------------------------------
(* Gates and the order of initialisation *)

OrderInv ==
    /\ firmware \in Firmware
    /\ pc \in PCs
    /\ idt \in {"none", "kernel"}
    /\ pc = "gdt_init" => idt = "none"
    /\ pc # "gdt_init" => cs = "kernel" /\ DOUBLE_FAULT_IST_INDEX \in ist
    /\ pc \notin {"gdt_init", "idt_init"} => idt = "kernel"
    /\ IF_flag => pc = "running"
    /\ pc \in BehindApic /\ firmware.apic => lapic = "enabled"
    /\ pc \in {"enable_interrupts", "running"} => firmware.heap /\ scheduler = 3

LEMMA InitOrder == Init => OrderInv
BY BootAssumption DEF Init, OrderInv, PCs, BehindApic, kernel_main

\* A key or its handler touches nothing of what the calls set up.
LEMMA KeysApart ==
    ASSUME keyboard_interrupt_handler \/ (\E key \in {"enter", "other"} : key_pressed(key))
              \/ UNCHANGED vars
    PROVE  UNCHANGED <<firmware, pc, k, cs, ist, idt, IF_flag, scheduler, pic, lapic, ioapics,
                       redirection>>
BY DEF keyboard_interrupt_handler, key_pressed, vars, cpuVars, apicVars

LEMMA NextOrder == OrderInv /\ [Next]_vars => OrderInv'
<1> SUFFICES ASSUME OrderInv, [Next]_vars
             PROVE  OrderInv'
  OBVIOUS
<1> USE PcMoves DEF OrderInv, From, PCs, BehindApic
<1>1. CASE gdt_init
  BY <1>1 DEF gdt_init, DOUBLE_FAULT_IST_INDEX
<1>2. CASE idt_init
  BY <1>2 DEF idt_init
<1>3. CASE memory_init \/ acpi_init
  BY <1>3 DEF memory_init, acpi_init, cpuVars, apicVars
<1>4. CASE read_tables
  BY <1>4 DEF read_tables, cpuVars, apicVars
<1>5. CASE pic_write
  BY <1>5 DEF pic_write, cpuVars
<1>6. CASE build_lapic \/ push_ioapics \/ program_ioapics
  BY <1>6 DEF build_lapic, push_ioapics, program_ioapics, cpuVars
<1>7. CASE enable_lapic
  BY <1>7 DEF enable_lapic, cpuVars
<1>8. CASE scheduler_init
  BY <1>8 DEF scheduler_init, apicVars
<1>9. CASE enable_interrupts
  BY <1>9 DEF enable_interrupts, apicVars
<1>10. CASE keyboard_interrupt_handler \/ (\E key \in {"enter", "other"} : key_pressed(key))
              \/ UNCHANGED vars
  BY <1>10, KeysApart
<1> QED BY <1>1, <1>2, <1>3, <1>4, <1>5, <1>6, <1>7, <1>8, <1>9, <1>10 DEF Next, Init_call

\* The gates of the IDT lead into the GDT that is loaded, from the moment the
\* IDT is: gdt::init comes before interrupts::init on every path.
THEOREM GatesAlwaysValid == Spec => []GatesValid
<1>1. OrderInv => GatesValid
  BY DEF OrderInv, GatesValid
<1> QED BY <1>1, InitOrder, NextOrder, PTL DEF Spec

\* Interrupts are enabled behind everything the handlers use, on every machine.
THEOREM ReadyBeforeEnabled == Spec => []ReadyBeforeInterrupts
<1>1. OrderInv => ReadyBeforeInterrupts
  BY DEF OrderInv, ReadyBeforeInterrupts, BehindApic
<1> QED BY <1>1, InitOrder, NextOrder, PTL DEF Spec

----------------------------------------------------------------------------
(* The 8259s *)

\* One of them when n of the five writes to it are done; before the first it is
\* in any state.
Stage(c, n) ==
    /\ c \in PicState
    /\ n = 1 => c.icw = 2
    /\ n = 2 => c.icw = 3 /\ c.base = 248
    /\ n = 3 => c.icw = 4 /\ c.base = 248
    /\ n = 4 => c.icw = 0 /\ c.base = 248
    /\ n = 5 => c.icw = 0 /\ c.base = 248 /\ c.mask = 255

\* What the second write to a controller leaves in it, for any base.
LEMMA ChipBase ==
    ASSUME NEW c \in PicState, NEW i \in {0, 2, 3, 4}, NEW b \in Nat
    PROVE  /\ [c EXCEPT !.icw = i, !.base = b] \in PicState
           /\ [c EXCEPT !.icw = i, !.base = b].icw = i
           /\ [c EXCEPT !.icw = i, !.base = b].base = b
<1> DEFINE e == [c EXCEPT !.icw = i]
<1>1. e \in PicState /\ e.icw = i
  BY ONLY c \in PicState, i \in {0, 2, 3, 4} DEF PicState
<1> HIDE DEF e
<1>2. [e EXCEPT !.base = b] \in PicState /\ [e EXCEPT !.base = b].icw = i /\ [e EXCEPT !.base = b].base = b
  BY ONLY <1>1, b \in Nat DEF PicState
<1> QED BY ONLY <1>2 DEF e

LEMMA ChipWrites ==
    ASSUME NEW c \in PicState
    PROVE  /\ Stage(c, 0) => Stage(PicAfter(c, "cmd", 17), 1)
           /\ Stage(c, 1) => Stage(PicAfter(c, "data", 248), 2)
           /\ Stage(c, 1) => Stage(PicAfter(c, "data", 255), 2)
           /\ Stage(c, 2) => Stage(PicAfter(c, "data", 4), 3)
           /\ Stage(c, 2) => Stage(PicAfter(c, "data", 2), 3)
           /\ Stage(c, 3) => Stage(PicAfter(c, "data", 1), 4)
           /\ Stage(c, 4) => Stage(PicAfter(c, "data", 255), 5)
<1>1. Stage(c, 0) => Stage(PicAfter(c, "cmd", 17), 1)
  <2>1. PicAfter(c, "cmd", 17) = [c EXCEPT !.icw = 2, !.mask = 0]
    BY DEF PicAfter
  <2> DEFINE d == [c EXCEPT !.icw = 2, !.mask = 0]
  <2>2. d \in PicState /\ d.icw = 2
    BY DEF PicState
  <2> HIDE DEF d
  <2>3. PicAfter(c, "cmd", 17) = d
    BY <2>1 DEF d
  <2> QED BY <2>2, <2>3 DEF Stage
<1>2. ASSUME NEW v, v - (v % 8) = 248, Stage(c, 1) PROVE Stage(PicAfter(c, "data", v), 2)
  <2> DEFINE w == v - (v % 8)
             d == [c EXCEPT !.icw = 3, !.base = w]
  <2>0. c.icw = 2 /\ w = 248
    BY <1>2 DEF Stage
  <2>1. PicAfter(c, "data", v) = d
    BY ONLY <2>0 DEF PicAfter
  <2> HIDE DEF w
  <2>2. w \in Nat /\ 3 \in {0, 2, 3, 4}
    BY ONLY <2>0
  <2>3. d \in PicState /\ d.icw = 3 /\ d.base = w
    BY ONLY <2>2, c \in PicState, ChipBase, Zenon DEF d
  <2> HIDE DEF d
  <2> QED BY ONLY <2>0, <2>1, <2>3 DEF Stage
<1>3. ASSUME NEW v, Stage(c, 2) PROVE Stage(PicAfter(c, "data", v), 3)
  <2>1. PicAfter(c, "data", v) = [c EXCEPT !.icw = 4]
    BY <1>3 DEF PicAfter, Stage
  <2> QED BY <1>3, <2>1 DEF Stage, PicState
<1>4. ASSUME NEW v, Stage(c, 3) PROVE Stage(PicAfter(c, "data", v), 4)
  <2>1. PicAfter(c, "data", v) = [c EXCEPT !.icw = 0]
    BY <1>4 DEF PicAfter, Stage
  <2> QED BY <1>4, <2>1 DEF Stage, PicState
<1>5. Stage(c, 4) => Stage(PicAfter(c, "data", 255), 5)
  <2>1. Stage(c, 4) => PicAfter(c, "data", 255) = [c EXCEPT !.mask = 255]
    BY DEF PicAfter, Stage
  <2> QED BY <2>1 DEF Stage, PicState
<1>6. 248 - (248 % 8) = 248 /\ 255 - (255 % 8) = 248
  OBVIOUS
<1> QED BY <1>1, <1>2, <1>3, <1>4, <1>5, <1>6

\* Both of them before the n-th write.
Pics(p, n) ==
    /\ p \in [{"A", "B"} -> PicState]
    /\ Stage(p["A"], n \div 2) /\ Stage(p["B"], (n - 1) \div 2)

LEMMA PicStep ==
    ASSUME NEW p, NEW n \in 1 .. 10, Pics(p, n)
    PROVE  LET w == PicWrites[n]
           IN  Pics([p EXCEPT ![w[2]] = PicAfter(@, w[1], w[3])], n + 1)
<1>0. /\ p \in [{"A", "B"} -> PicState] /\ p["A"] \in PicState /\ p["B"] \in PicState
      /\ Stage(p["A"], n \div 2) /\ Stage(p["B"], (n - 1) \div 2)
  BY DEF Pics
<1> DEFINE q == [p EXCEPT ![PicWrites[n][2]] = PicAfter(@, PicWrites[n][1], PicWrites[n][3])]
<1>1. ASSUME NEW reg, NEW v, PicWrites[n] = <<reg, "A", v>>,
             Stage(PicAfter(p["A"], reg, v), (n + 1) \div 2),
             ((n + 1) - 1) \div 2 = (n - 1) \div 2
      PROVE  Pics(q, n + 1)
  <2>1. q = [p EXCEPT !["A"] = PicAfter(p["A"], reg, v)] /\ PicAfter(p["A"], reg, v) \in PicState
    BY <1>1 DEF Stage
  <2>2. q \in [{"A", "B"} -> PicState] /\ q["A"] = PicAfter(p["A"], reg, v) /\ q["B"] = p["B"]
    BY <1>0, <2>1
  <2> HIDE DEF q
  <2> QED BY <1>0, <1>1, <2>2 DEF Pics
<1>2. ASSUME NEW reg, NEW v, PicWrites[n] = <<reg, "B", v>>,
             Stage(PicAfter(p["B"], reg, v), ((n + 1) - 1) \div 2),
             (n + 1) \div 2 = n \div 2
      PROVE  Pics(q, n + 1)
  <2>1. q = [p EXCEPT !["B"] = PicAfter(p["B"], reg, v)] /\ PicAfter(p["B"], reg, v) \in PicState
    BY <1>2 DEF Stage
  <2>2. q \in [{"A", "B"} -> PicState] /\ q["B"] = PicAfter(p["B"], reg, v) /\ q["A"] = p["A"]
    BY <1>0, <2>1
  <2> HIDE DEF q
  <2> QED BY <1>0, <1>2, <2>2 DEF Pics
<1> SUFFICES Pics(q, n + 1)
  OBVIOUS
<1> HIDE DEF q
<1>3. CASE n = 1
  <2>1. /\ PicWrites[n] = <<"cmd", "A", 17>>
        /\ n \div 2 = 0 /\ (n + 1) \div 2 = 1
        /\ ((n + 1) - 1) \div 2 = (n - 1) \div 2
    BY <1>3 DEF PicWrites
  <2>2. Stage(PicAfter(p["A"], "cmd", 17), (n + 1) \div 2)
    BY <1>0, <2>1, ChipWrites
  <2> QED BY <1>1, <2>1, <2>2
<1>4. CASE n = 2
  <2>1. /\ PicWrites[n] = <<"cmd", "B", 17>>
        /\ (n - 1) \div 2 = 0 /\ ((n + 1) - 1) \div 2 = 1
        /\ (n + 1) \div 2 = n \div 2
    BY <1>4 DEF PicWrites
  <2>2. Stage(PicAfter(p["B"], "cmd", 17), ((n + 1) - 1) \div 2)
    BY <1>0, <2>1, ChipWrites
  <2> QED BY <1>2, <2>1, <2>2
<1>5. CASE n = 3
  <2>1. /\ PicWrites[n] = <<"data", "A", 248>>
        /\ n \div 2 = 1 /\ (n + 1) \div 2 = 2
        /\ ((n + 1) - 1) \div 2 = (n - 1) \div 2
    BY <1>5 DEF PicWrites
  <2>2. Stage(PicAfter(p["A"], "data", 248), (n + 1) \div 2)
    BY <1>0, <2>1, ChipWrites
  <2> QED BY <1>1, <2>1, <2>2
<1>6. CASE n = 4
  <2>1. /\ PicWrites[n] = <<"data", "B", 255>>
        /\ (n - 1) \div 2 = 1 /\ ((n + 1) - 1) \div 2 = 2
        /\ (n + 1) \div 2 = n \div 2
    BY <1>6 DEF PicWrites
  <2>2. Stage(PicAfter(p["B"], "data", 255), ((n + 1) - 1) \div 2)
    BY <1>0, <2>1, ChipWrites
  <2> QED BY <1>2, <2>1, <2>2
<1>7. CASE n = 5
  <2>1. /\ PicWrites[n] = <<"data", "A", 4>>
        /\ n \div 2 = 2 /\ (n + 1) \div 2 = 3
        /\ ((n + 1) - 1) \div 2 = (n - 1) \div 2
    BY <1>7 DEF PicWrites
  <2>2. Stage(PicAfter(p["A"], "data", 4), (n + 1) \div 2)
    BY <1>0, <2>1, ChipWrites
  <2> QED BY <1>1, <2>1, <2>2
<1>8. CASE n = 6
  <2>1. /\ PicWrites[n] = <<"data", "B", 2>>
        /\ (n - 1) \div 2 = 2 /\ ((n + 1) - 1) \div 2 = 3
        /\ (n + 1) \div 2 = n \div 2
    BY <1>8 DEF PicWrites
  <2>2. Stage(PicAfter(p["B"], "data", 2), ((n + 1) - 1) \div 2)
    BY <1>0, <2>1, ChipWrites
  <2> QED BY <1>2, <2>1, <2>2
<1>9. CASE n = 7
  <2>1. /\ PicWrites[n] = <<"data", "A", 1>>
        /\ n \div 2 = 3 /\ (n + 1) \div 2 = 4
        /\ ((n + 1) - 1) \div 2 = (n - 1) \div 2
    BY <1>9 DEF PicWrites
  <2>2. Stage(PicAfter(p["A"], "data", 1), (n + 1) \div 2)
    BY <1>0, <2>1, ChipWrites
  <2> QED BY <1>1, <2>1, <2>2
<1>10. CASE n = 8
  <2>1. /\ PicWrites[n] = <<"data", "B", 1>>
        /\ (n - 1) \div 2 = 3 /\ ((n + 1) - 1) \div 2 = 4
        /\ (n + 1) \div 2 = n \div 2
    BY <1>10 DEF PicWrites
  <2>2. Stage(PicAfter(p["B"], "data", 1), ((n + 1) - 1) \div 2)
    BY <1>0, <2>1, ChipWrites
  <2> QED BY <1>2, <2>1, <2>2
<1>11. CASE n = 9
  <2>1. /\ PicWrites[n] = <<"data", "A", 255>>
        /\ n \div 2 = 4 /\ (n + 1) \div 2 = 5
        /\ ((n + 1) - 1) \div 2 = (n - 1) \div 2
    BY <1>11 DEF PicWrites
  <2>2. Stage(PicAfter(p["A"], "data", 255), (n + 1) \div 2)
    BY <1>0, <2>1, ChipWrites
  <2> QED BY <1>1, <2>1, <2>2
<1>12. CASE n = 10
  <2>1. /\ PicWrites[n] = <<"data", "B", 255>>
        /\ (n - 1) \div 2 = 4 /\ ((n + 1) - 1) \div 2 = 5
        /\ (n + 1) \div 2 = n \div 2
    BY <1>12 DEF PicWrites
  <2>2. Stage(PicAfter(p["B"], "data", 255), ((n + 1) - 1) \div 2)
    BY <1>0, <2>1, ChipWrites
  <2> QED BY <1>2, <2>1, <2>2
<1> QED BY <1>3, <1>4, <1>5, <1>6, <1>7, <1>8, <1>9, <1>10, <1>11, <1>12

PicInv ==
    /\ pc \in BeforeApic => Pics(pic, 1)
    /\ pc = "pic_write" => k \in 1 .. 10 /\ Pics(pic, k)
    /\ pc \in BehindPic => Pics(pic, 11)
    /\ pc \in BehindApic /\ firmware.apic => Pics(pic, 11)

LEMMA InitPic == Init => PicInv
<1> SUFFICES ASSUME Init PROVE PicInv
  OBVIOUS
<1>1. pc = "gdt_init"
  BY DEF Init, kernel_main
<1>2. /\ pic \in [{"A", "B"} -> PicState] /\ pic["A"] \in PicState /\ pic["B"] \in PicState
      /\ 1 \div 2 = 0 /\ (1 - 1) \div 2 = 0
  BY BootAssumption DEF Init
<1>3. Pics(pic, 1)
  BY <1>2 DEF Pics, Stage
<1> QED BY <1>1, <1>3 DEF PicInv, BehindPic, BehindApic

LEMMA NextPic == OrderInv /\ PicInv /\ [Next]_vars => PicInv'
<1> SUFFICES ASSUME OrderInv, PicInv, [Next]_vars
             PROVE  PicInv'
  OBVIOUS
<1> USE DEF BeforeApic, BehindPic, BehindApic
<1>1. CASE pic_write
  <2>1. pc = "pic_write" /\ k \in 1 .. 10 /\ Pics(pic, k) /\ Len(PicWrites) = 10
    BY <1>1, PcMoves DEF PicInv, From, PicWrites
  <2>2. Pics(pic', k + 1)
    <3>1. LET w == PicWrites[k] IN pic' = [pic EXCEPT ![w[2]] = PicAfter(@, w[1], w[3])]
      BY <1>1 DEF pic_write
    <3> QED BY <2>1, <3>1, PicStep
  <2>3. CASE pc' = "pic_write" /\ k < 10 /\ k' = k + 1
    <3>1. k' \in 1 .. 10
      BY <2>1, <2>3
    <3> QED BY <2>2, <2>3, <3>1 DEF PicInv
  <2>4. CASE pc' = "build_lapic" /\ ~(k < 10)
    <3>1. k + 1 = 11
      BY <2>1, <2>4
    <3> QED BY <2>2, <2>4, <3>1 DEF PicInv
  <2> QED BY <1>1, <2>1, <2>3, <2>4, PcMoves DEF From
<1>2. CASE read_tables
  <2>1. pic' = pic /\ firmware' = firmware /\ 1 \in 1 .. 10
    BY <1>2 DEF read_tables, apicVars
  <2> QED BY <1>2, <2>1, PcMoves DEF PicInv, From
<1>3. CASE gdt_init \/ idt_init \/ memory_init \/ acpi_init
  <2>1. pic' = pic
    BY <1>3 DEF gdt_init, idt_init, memory_init, acpi_init, apicVars
  <2> QED BY <1>3, <2>1, PcMoves DEF PicInv, From
<1>4. CASE build_lapic \/ push_ioapics \/ program_ioapics \/ enable_lapic
  <2>1. pic' = pic
    BY <1>4 DEF build_lapic, push_ioapics, program_ioapics, enable_lapic
  <2> QED BY <1>4, <2>1, PcMoves DEF PicInv, From
<1>5. CASE scheduler_init \/ enable_interrupts
  <2>1. pic' = pic /\ firmware' = firmware
    BY <1>5 DEF scheduler_init, enable_interrupts, apicVars
  <2> QED BY <1>5, <2>1, PcMoves DEF PicInv, From
<1>6. CASE keyboard_interrupt_handler \/ (\E key \in {"enter", "other"} : key_pressed(key))
              \/ UNCHANGED vars
  BY <1>6, KeysApart DEF PicInv
<1> QED BY <1>1, <1>2, <1>3, <1>4, <1>5, <1>6 DEF Next, Init_call

\* With every line masked an 8259 has its spurious interrupt left.
LEMMA BitsOf255 == Bits(255) = 0 .. 7
<1>1. \A b \in 0 .. 7 : (255 \div PowersOf2[b + 1]) % 2 = 1
  BY DEF PowersOf2
<1> QED BY <1>1 DEF Bits

LEMMA MaskedPics == Pics(pic, 11) => PicVectors = {Spurious}
<1> SUFFICES ASSUME Pics(pic, 11) PROVE PicVectors = {Spurious}
  OBVIOUS
<1>1. 11 \div 2 = 5 /\ (11 - 1) \div 2 = 5
  OBVIOUS
<1>2. \A p \in {"A", "B"} : pic[p].base = 248 /\ pic[p].mask = 255
  BY <1>1 DEF Pics, Stage
<1>3. ((0 .. 7) \ Bits(255)) \cup {7} = {7}
  BY BitsOf255
<1>4. \A p \in {"A", "B"} : {pic[p].base + l : l \in ((0 .. 7) \ Bits(pic[p].mask)) \cup {7}} = {255}
  BY <1>2, <1>3
<1> QED BY <1>4 DEF PicVectors, Spurious

----------------------------------------------------------------------------
(* The IO APICs.  Each starts with whatever the firmware left in it; from   *)
(* the second part of IOApic::enable on it is Programmed, and being         *)
(* programmed again it is so again.                                         *)

RedirectionInv == redirection \in [1 .. firmware.ioapics -> [Pins -> Entry]]

\* The keyboard is on pin 1, and nothing on the others.
Programmed(table) ==
    /\ \A p \in Pins : ~table[p].masked <=> p = 1
    /\ table[1].vector = Keyboard

\* The list names the controllers 1 .. n, each at least once.
Lists(list, n) ==
    /\ \A j \in 1 .. Len(list) : list[j] \in 1 .. n
    /\ \A i \in 1 .. n : \E j \in 1 .. Len(list) : list[j] = i

\* Before part n of the programming, two parts to each entry of the list: the
\* controllers behind are programmed, but for the one between its two parts,
\* which has its pins masked.
ProgrammedBefore(list, table, n) ==
    /\ \A j \in 1 .. Len(list) :
          2 * j < n /\ (n % 2 = 1 \/ list[j] # list[n \div 2]) => Programmed(table[list[j]])
    /\ n % 2 = 0 => table[list[n \div 2]] = InitPins

ListInv ==
    /\ ioapics \in Seq(Nat)
    /\ pc \in BeforeApic \cup {"pic_write", "build_lapic"} => ioapics = <<>>
    /\ pc = "push_ioapics" => k \in 1 .. (firmware.ioapics + 1) /\ Lists(ioapics, k - 1)
    /\ pc = "program_ioapics" =>
          /\ Lists(ioapics, firmware.ioapics)
          /\ ioapics # <<>> => /\ k \in 1 .. (2 * Len(ioapics))
                               /\ ProgrammedBefore(ioapics, redirection, k)
    /\ pc = "enable_lapic" => \A i \in 1 .. firmware.ioapics : Programmed(redirection[i])
    /\ pc \in BehindApic /\ firmware.apic =>
          \A i \in 1 .. firmware.ioapics : Programmed(redirection[i])

LEMMA InitRedirection == Init => RedirectionInv
BY BootAssumption DEF Init, RedirectionInv

\* The two parts of IOApic::enable on controller i.
LEMMA EnableParts ==
    ASSUME RedirectionInv, NEW i \in 1 .. firmware.ioapics, NEW part \in 1 .. 2,
           NEW new, new = enable_ioapic(i)[part]
    PROVE  /\ new \in [1 .. firmware.ioapics -> [Pins -> Entry]]
           /\ \A j \in (1 .. firmware.ioapics) \ {i} : new[j] = redirection[j]
           /\ part = 1 => new[i] = InitPins
           /\ part = 2 /\ redirection[i] = InitPins => Programmed(new[i])
<1> DEFINE N == 1 .. firmware.ioapics
<1>0. redirection \in [N -> [Pins -> Entry]] /\ 1 \in Pins /\ i \in N
  BY BootAssumption DEF RedirectionInv
<1> HIDE DEF N
<1>1. InitPins \in [Pins -> Entry] /\ \A p \in Pins : InitPins[p].masked
  <2>1. \A p \in Pins : [vector |-> 32 + p, masked |-> TRUE] \in Entry
    BY BootAssumption DEF Entry
  <2> QED BY <2>1 DEF InitPins
<1>2. CASE part = 1
  <2>1. new = [redirection EXCEPT ![i] = InitPins]
    BY <1>2 DEF enable_ioapic
  <2>2. /\ new \in [N -> [Pins -> Entry]] /\ new[i] = InitPins
        /\ \A j \in N \ {i} : new[j] = redirection[j]
    BY <1>0, <1>1, <2>1
  <2> QED BY <1>2, <2>2 DEF N
<1>3. CASE part = 2
  <2> DEFINE e == [vector |-> Keyboard, masked |-> FALSE]
             r == [redirection[i] EXCEPT ![1] = e]
  <2>1. new = [redirection EXCEPT ![i] = r]
    BY <1>3 DEF enable_ioapic
  <2>2. e \in Entry /\ e.vector = Keyboard /\ ~e.masked
    BY DEF Entry, Keyboard
  <2> HIDE DEF e
  <2>3. r \in [Pins -> Entry] /\ r[1] = e /\ \A p \in Pins \ {1} : r[p] = redirection[i][p]
    BY <1>0, <2>2
  <2> HIDE DEF r
  <2>4. /\ new \in [N -> [Pins -> Entry]] /\ new[i] = r
        /\ \A j \in N \ {i} : new[j] = redirection[j]
    BY <1>0, <2>1, <2>3
  <2>5. redirection[i] = InitPins => Programmed(r)
    BY <1>0, <1>1, <2>2, <2>3 DEF Programmed
  <2> QED BY <1>3, <2>4, <2>5 DEF N
<1> QED BY <1>2, <1>3

LEMMA InitList == Init => ListInv
BY DEF Init, ListInv, kernel_main, BehindApic, BeforeApic

\* push: the list gains the controller, the first one twice.
LEMMA PushList ==
    ASSUME ioapics \in Seq(Nat), k \in Nat, k >= 1, Lists(ioapics, k - 1),
           ioapics' = IF ioapics = <<>> THEN <<k, k>> ELSE Append(ioapics, k)
    PROVE  ioapics' \in Seq(Nat) /\ Lists(ioapics', k)
<1>1. CASE ioapics = <<>>
  <2>1. k = 1
    <3>1. ~(1 \in 1 .. (k - 1))
      BY <1>1 DEF Lists
    <3> QED BY <3>1
  <2>2. ioapics' = <<1, 1>>
    BY <1>1, <2>1
  <2>3. ioapics' \in Seq(Nat) /\ Len(ioapics') = 2 /\ ioapics'[1] = 1 /\ ioapics'[2] = 1
    <3>1. <<1, 1>> \in Seq(Nat)
      OBVIOUS
    <3>2. Len(<<1, 1>>) = 2 /\ <<1, 1>>[1] = 1 /\ <<1, 1>>[2] = 1
      OBVIOUS
    <3> QED BY <2>2, <3>1, <3>2
  <2>4. \A j \in 1 .. 2 : j = 1 \/ j = 2
    OBVIOUS
  <2>5. \A i \in 1 .. k : i = 1
    BY <2>1
  <2>6. 1 \in 1 .. k /\ 1 \in 1 .. 2
    BY <2>1
  <2> QED BY <2>3, <2>4, <2>5, <2>6 DEF Lists
<1>2. CASE ioapics # <<>>
  <2> DEFINE n == Len(ioapics)
  <2>1. /\ ioapics' \in Seq(Nat) /\ n \in Nat /\ Len(ioapics') = n + 1
        /\ \A j \in 1 .. n : ioapics'[j] = ioapics[j]
        /\ ioapics'[n + 1] = k
    BY <1>2, AppendProperties, LenProperties
  <2>2. \A j \in 1 .. (n + 1) : j \in 1 .. n \/ j = n + 1
    BY <2>1
  <2>3. n + 1 \in 1 .. (n + 1) /\ \A j \in 1 .. n : j \in 1 .. (n + 1)
    BY <2>1
  <2>4. /\ \A i \in 1 .. k : i \in 1 .. (k - 1) \/ i = k
        /\ k \in 1 .. k /\ \A i \in 1 .. (k - 1) : i \in 1 .. k
    OBVIOUS
  <2>5. \A j \in 1 .. (n + 1) : ioapics'[j] \in 1 .. k
    BY <2>1, <2>2, <2>4 DEF Lists
  <2>6. \A i \in 1 .. k : \E j \in 1 .. (n + 1) : ioapics'[j] = i
    BY <2>1, <2>3, <2>4 DEF Lists
  <2> QED BY <2>1, <2>5, <2>6 DEF Lists
<1> QED BY <1>1, <1>2

\* One part of the programming.
LEMMA ProgramOne ==
    ASSUME RedirectionInv, ioapics \in Seq(Nat), Lists(ioapics, firmware.ioapics),
           k \in 1 .. (2 * Len(ioapics)), ProgrammedBefore(ioapics, redirection, k),
           NEW new, new = enable_ioapic(ioapics[(k + 1) \div 2])[1 + ((k + 1) % 2)]
    PROVE  /\ new \in [1 .. firmware.ioapics -> [Pins -> Entry]]
           /\ ProgrammedBefore(ioapics, new, k + 1)
           /\ ~(k < 2 * Len(ioapics)) =>
                 \A j \in 1 .. Len(ioapics) : Programmed(new[ioapics[j]])
<1> DEFINE m == (k + 1) \div 2
           part == 1 + ((k + 1) % 2)
           n == Len(ioapics)
<1>1. n \in Nat /\ k \in Nat /\ m \in 1 .. n /\ part \in 1 .. 2 /\ k <= 2 * n /\ k >= 1
  BY LenProperties
<1>2. \A j \in 1 .. n : ioapics[j] \in 1 .. firmware.ioapics
  BY DEF Lists
<1>3. /\ new \in [1 .. firmware.ioapics -> [Pins -> Entry]]
      /\ \A i \in (1 .. firmware.ioapics) \ {ioapics[m]} : new[i] = redirection[i]
      /\ part = 1 => new[ioapics[m]] = InitPins
      /\ part = 2 /\ redirection[ioapics[m]] = InitPins => Programmed(new[ioapics[m]])
  <2>1. PICK c \in 1 .. firmware.ioapics : c = ioapics[m]
    BY <1>1, <1>2
  <2>2. PICK q \in 1 .. 2 : q = part
    BY <1>1
  <2>3. new = enable_ioapic(c)[q]
    BY <2>1, <2>2
  <2> HIDE DEF m, part
  <2>4. /\ new \in [1 .. firmware.ioapics -> [Pins -> Entry]]
        /\ \A i \in (1 .. firmware.ioapics) \ {c} : new[i] = redirection[i]
        /\ q = 1 => new[c] = InitPins
        /\ q = 2 /\ redirection[c] = InitPins => Programmed(new[c])
    BY <2>3, EnableParts
  <2> QED BY ONLY <2>1, <2>2, <2>4
<1>4. \A j \in 1 .. n : ioapics[j] # ioapics[m] => new[ioapics[j]] = redirection[ioapics[j]]
  BY <1>2, <1>3
<1>5. CASE k % 2 = 1
  <2>1. /\ k < 2 * n /\ (k + 1) % 2 = 0 /\ part = 1
        /\ \A j \in 1 .. n : 2 * j < k + 1 => 2 * j < k
    BY <1>1, <1>5
  <2>2. \A j \in 1 .. n : 2 * j < k => Programmed(redirection[ioapics[j]])
    BY <1>5 DEF ProgrammedBefore
  <2>3. new[ioapics[m]] = InitPins
    BY <1>3, <2>1
  <2>4. \A j \in 1 .. n : 2 * j < k + 1 /\ ioapics[j] # ioapics[m] => Programmed(new[ioapics[j]])
    BY <1>4, <2>1, <2>2
  <2> QED BY <1>3, <2>1, <2>3, <2>4 DEF ProgrammedBefore
<1>6. CASE k % 2 # 1
  <2>1. /\ k % 2 = 0 /\ part = 2 /\ (k + 1) % 2 = 1 /\ m = k \div 2
        /\ \A j \in 1 .. n : 2 * j < k + 1 => 2 * j < k \/ j = m
        /\ ~(k < 2 * n) => \A j \in 1 .. n : 2 * j < k + 1
    BY <1>1, <1>6
  <2>2. /\ \A j \in 1 .. n : 2 * j < k /\ ioapics[j] # ioapics[m]
                                => Programmed(redirection[ioapics[j]])
        /\ redirection[ioapics[m]] = InitPins
    BY <2>1 DEF ProgrammedBefore
  <2>3. Programmed(new[ioapics[m]])
    BY <1>3, <2>1, <2>2
  <2>4. \A j \in 1 .. n : 2 * j < k + 1 => Programmed(new[ioapics[j]])
    <3> SUFFICES ASSUME NEW j \in 1 .. n, 2 * j < k + 1 PROVE Programmed(new[ioapics[j]])
      OBVIOUS
    <3>1. CASE ioapics[j] = ioapics[m]
      BY <2>3, <3>1
    <3>2. CASE ioapics[j] # ioapics[m]
      BY <1>4, <2>1, <2>2, <3>2
    <3> QED BY <3>1, <3>2
  <2>5. (k + 1) % 2 # 0
    BY <2>1
  <2> QED BY <1>3, <2>1, <2>4, <2>5 DEF ProgrammedBefore
<1> QED BY <1>5, <1>6

LEMMA NextList ==
    OrderInv /\ RedirectionInv /\ ListInv /\ [Next]_vars => RedirectionInv' /\ ListInv'
<1> SUFFICES ASSUME OrderInv, RedirectionInv, ListInv, [Next]_vars
             PROVE  RedirectionInv' /\ ListInv'
  OBVIOUS
<1>0. firmware.ioapics \in Nat /\ ioapics \in Seq(Nat) /\ Len(ioapics) \in Nat
  BY LenProperties DEF OrderInv, Firmware, ListInv
<1>1. CASE program_ioapics
  <2>0. pc = "program_ioapics" /\ firmware' = firmware /\ ioapics' = ioapics
    BY <1>1 DEF program_ioapics, At
  <2>1. CASE ioapics = <<>>
    <3>1. pc' = "panicked" /\ redirection' = redirection
      BY <1>1, <2>1 DEF program_ioapics, Goto
    <3> QED BY <1>0, <2>0, <3>1 DEF RedirectionInv, ListInv, BeforeApic, BehindApic
  <2>2. CASE ioapics # <<>>
    <3>1. /\ k \in 1 .. (2 * Len(ioapics)) /\ Lists(ioapics, firmware.ioapics)
          /\ ProgrammedBefore(ioapics, redirection, k)
      BY <2>0, <2>2 DEF ListInv
    <3>2. redirection' = enable_ioapic(ioapics[(k + 1) \div 2])[1 + ((k + 1) % 2)]
      BY <1>1, <2>2 DEF program_ioapics
    <3>3. \/ k < 2 * Len(ioapics) /\ k' = k + 1 /\ pc' = "program_ioapics"
          \/ ~(k < 2 * Len(ioapics)) /\ pc' = "enable_lapic"
      BY <1>1, <2>0, <2>2, AfterCall DEF program_ioapics, Return, Goto
    <3>4. PICK new : new = redirection'
      OBVIOUS
    <3>5. /\ new \in [1 .. firmware.ioapics -> [Pins -> Entry]]
          /\ ProgrammedBefore(ioapics, new, k + 1)
          /\ ~(k < 2 * Len(ioapics)) =>
                \A j \in 1 .. Len(ioapics) : Programmed(new[ioapics[j]])
      BY <1>0, <3>1, <3>2, <3>4, ProgramOne
    <3>6. RedirectionInv'
      BY <2>0, <3>4, <3>5 DEF RedirectionInv
    <3>7. CASE k < 2 * Len(ioapics) /\ k' = k + 1 /\ pc' = "program_ioapics"
      <4>1. k' \in 1 .. (2 * Len(ioapics))
        BY <1>0, <3>1, <3>7
      <4>2. ProgrammedBefore(ioapics', redirection', k')
        BY <2>0, <3>4, <3>5, <3>7
      <4> QED BY <1>0, <2>0, <3>1, <3>6, <3>7, <4>1, <4>2
              DEF ListInv, ProgrammedBefore, BeforeApic, BehindApic
    <3>8. CASE ~(k < 2 * Len(ioapics)) /\ pc' = "enable_lapic"
      <4>1. \A i \in 1 .. firmware.ioapics : Programmed(new[i])
        BY <3>1, <3>5, <3>8 DEF Lists
      <4>2. \A i \in 1 .. firmware'.ioapics : Programmed(redirection'[i])
        BY <2>0, <3>4, <4>1
      <4> QED BY <1>0, <2>0, <3>6, <3>8, <4>2 DEF ListInv, Programmed, BeforeApic, BehindApic
    <3> QED BY <3>3, <3>7, <3>8
  <2> QED BY <2>1, <2>2
<1>2. CASE push_ioapics
  <2>0. /\ pc = "push_ioapics" /\ firmware' = firmware /\ redirection' = redirection
        /\ k \in 1 .. (firmware.ioapics + 1) /\ Lists(ioapics, k - 1)
    BY <1>2 DEF push_ioapics, At, ListInv
  <2>1. CASE k > firmware.ioapics
    <3>1. pc' = "program_ioapics" /\ k' = 1 /\ ioapics' = ioapics
      BY <1>2, <2>0, <2>1, AfterCall DEF push_ioapics, Return, Goto
    <3>2. k - 1 = firmware.ioapics
      BY <1>0, <2>0, <2>1
    <3>3. ioapics # <<>> => 1 \in 1 .. (2 * Len(ioapics))
      <4>1. ioapics # <<>> => Len(ioapics) # 0
        BY <1>0, EmptySeq
      <4> QED BY <1>0, <4>1
    <3>4. ProgrammedBefore(ioapics, redirection, 1)
      <4>1. \A j \in 1 .. Len(ioapics) : ~(2 * j < 1)
        BY <1>0
      <4>2. 1 % 2 # 0
        OBVIOUS
      <4> QED BY <4>1, <4>2 DEF ProgrammedBefore
    <3> QED BY <1>0, <2>0, <3>1, <3>2, <3>3, <3>4 DEF RedirectionInv, ListInv, BeforeApic, BehindApic
  <2>2. CASE ~(k > firmware.ioapics) /\ ~firmware.heap
    <3>1. pc' = "halted" /\ ioapics' = ioapics
      BY <1>2, <2>2 DEF push_ioapics, Goto
    <3> QED BY <1>0, <2>0, <3>1 DEF RedirectionInv, ListInv, BeforeApic, BehindApic
  <2>3. CASE ~(k > firmware.ioapics) /\ firmware.heap
    <3>1. /\ ioapics' = IF ioapics = <<>> THEN <<k, k>> ELSE Append(ioapics, k)
          /\ k' = k + 1 /\ pc' = pc
      BY <1>2, <2>3 DEF push_ioapics
    <3>2. k \in Nat /\ k >= 1 /\ k' \in 1 .. (firmware.ioapics + 1) /\ k' - 1 = k
      BY <1>0, <2>0, <2>3, <3>1
    <3>3. ioapics' \in Seq(Nat) /\ Lists(ioapics', k)
      BY <1>0, <2>0, <3>1, <3>2, PushList
    <3> QED BY <2>0, <3>1, <3>2, <3>3 DEF RedirectionInv, ListInv, BeforeApic, BehindApic
  <2> QED BY <2>1, <2>2, <2>3
<1>3. CASE gdt_init \/ idt_init \/ memory_init \/ acpi_init \/ read_tables \/ pic_write
  <2>1. UNCHANGED <<firmware, ioapics, redirection>>
    BY <1>3 DEF gdt_init, idt_init, memory_init, acpi_init, read_tables, pic_write, apicVars
  <2>2. /\ pc \in BeforeApic \cup {"pic_write"}
        /\ \/ pc' \in BeforeApic \cup {"pic_write", "build_lapic", "halted", "panicked"}
           \/ pc' = "scheduler_init" /\ ~firmware.apic
    <3>1. CASE read_tables
      BY <3>1, PcMoves DEF From, BeforeApic
    <3>2. CASE pic_write
      BY <3>2, PcMoves DEF From, BeforeApic
    <3> QED BY <1>3, <3>1, <3>2, PcMoves DEF From, BeforeApic
  <2> QED BY <1>0, <2>1, <2>2 DEF RedirectionInv, ListInv, BeforeApic, BehindApic
<1>4. CASE build_lapic
  <2>1. /\ UNCHANGED <<firmware, ioapics, redirection>>
        /\ pc = "build_lapic" /\ pc' = "push_ioapics" /\ k' = 1
    BY <1>4, PcMoves DEF build_lapic, From
  <2>2. ioapics = <<>> /\ 1 \in 1 .. (firmware.ioapics + 1)
    BY <1>0, <2>1 DEF ListInv
  <2>3. Lists(<<>>, 1 - 1)
    BY DEF Lists
  <2> QED BY <1>0, <2>1, <2>2, <2>3 DEF RedirectionInv, ListInv, BeforeApic, BehindApic
<1>5. CASE enable_lapic \/ scheduler_init \/ enable_interrupts
  <2>1. UNCHANGED <<firmware, ioapics, redirection>>
    BY <1>5 DEF enable_lapic, scheduler_init, enable_interrupts, apicVars
  <2>2. /\ pc \in BehindApic \cup {"enable_lapic"}
        /\ pc' \in BehindApic \cup {"halted", "panicked"}
    BY <1>5, PcMoves DEF From, BehindApic
  <2> QED BY <1>0, <2>1, <2>2 DEF RedirectionInv, ListInv, BeforeApic, BehindApic
<1>6. CASE keyboard_interrupt_handler \/ (\E key \in {"enter", "other"} : key_pressed(key))
              \/ UNCHANGED vars
  <2>1. UNCHANGED <<firmware, pc, k, ioapics, redirection>>
    BY <1>6, KeysApart
  <2> QED BY <2>1 DEF RedirectionInv, ListInv
<1> QED BY <1>1, <1>2, <1>3, <1>4, <1>5, <1>6 DEF Next, Init_call

\* With interrupts enabled on a machine with an APIC, no controller can send a
\* vector that no handler is installed for, and the keyboard is on pin 1 of
\* each IO APIC, alone: whatever states PicsLeft and PinsLeft the firmware may
\* have left them in, and however many IO APICs there are.
THEOREM VectorsHandled == Spec => []OnlyHandledVectors
<1> DEFINE Inv == OrderInv /\ PicInv /\ RedirectionInv /\ ListInv
<1>1. Init => Inv
  BY InitOrder, InitPic, InitRedirection, InitList
<1>2. Inv /\ [Next]_vars => Inv'
  BY NextOrder, NextPic, NextList
<1>3. Inv => OnlyHandledVectors
  <2> SUFFICES ASSUME Inv, IF_flag, firmware.apic
               PROVE  /\ PicVectors \cup IoApicVectors \cup {Timer, LapicError, Spurious} \subseteq Handled
                      /\ \A i \in 1 .. firmware.ioapics : \A p \in Pins :
                            ~redirection[i][p].masked <=> p = 1
    BY DEF OnlyHandledVectors
  <2>1. pc = "running"
    BY DEF OrderInv
  <2>2. PicVectors = {Spurious}
    BY <2>1, MaskedPics DEF PicInv, BehindApic
  <2>3. \A i \in 1 .. firmware.ioapics : Programmed(redirection[i])
    BY <2>1 DEF ListInv, BehindApic
  <2>4. IoApicVectors \subseteq {Keyboard}
    BY <2>3 DEF IoApicVectors, Programmed
  <2>5. \A i \in 1 .. firmware.ioapics : \A p \in Pins : ~redirection[i][p].masked <=> p = 1
    BY <2>3 DEF Programmed
  <2> QED BY <2>2, <2>4, <2>5 DEF Handled
<1> QED BY <1>1, <1>2, <1>3, PTL DEF Spec
=============================================================================
