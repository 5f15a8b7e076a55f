------------------------------- MODULE Kernel -------------------------------
(***************************************************************************)
(* The running kernel on its one CPU, from enable_interrupts() on: the     *)
(* boot thread finishing kernel_main, the two demo threads, and the        *)
(* interrupt handlers of kernel/src/interrupts.rs with the interrupt flag, *)
(* the local APIC, the spin locks they share, and the context switch; NMIs *)
(* and machine checks, which no flag holds back, on top of all of it.      *)
(*                                                                         *)
(* All code that runs is a program: a sequence of calls, each taking a     *)
(* lock, doing its work under it and releasing it, possibly inside         *)
(* without_interrupts.  A stack holds the frame of its thread's program    *)
(* and, while that is interrupted, the frames of handlers on top.  A lock  *)
(* is spun for: the step that takes it is disabled while it is held.  With *)
(* interrupts disabled nothing else can run, and the machine hangs.        *)
(*                                                                         *)
(* Abstracted: text printed, repeated prints in a row, heap allocations of *)
(* the boot thread, drawing, and exceptions that the code does not raise.  *)
(***************************************************************************)
EXTENDS ThreadTable, FiniteSets

CONSTANTS
    Logging,    \* LOG_LEVEL admits the messages (BOOLEAN, set at compile time)
    Raised      \* vectors the hardware raises: interrupts, NMI, machine check

\* enum InterruptIndex
Timer == 32
Keyboard == 33
LapicError == 51
Spurious == 255
Vectors == {Timer, Keyboard, LapicError, Spurious}

\* Exceptions raised from outside, whatever the interrupt flag.
NMI == 2
MachineCheck == 18
Exceptions == {NMI, MachineCheck}

ASSUME LoggingAssumption == Logging \in BOOLEAN
ASSUME RaisedAssumption == Raised \subseteq Vectors \cup Exceptions

Tids == 0 .. 2
Pids == 0 .. 2
None == -1     \* no holder, no stack, nothing read yet

Locks == {"SCHEDULER", "SERIAL", "CONSOLE", "LAPIC", "ACPI_SHUTDOWN"}

VARIABLES
    IF_flag,    \* the CPU's interrupt flag
    cpu,        \* the stack the CPU runs on, by the tid of its thread
    stack,      \* tid -> sequence of frames, innermost last
    threads,    \* Scheduler.threads, with the saved contexts
    current,    \* Scheduler.current
    lock,       \* lock -> the stack it was taken on, or None
    irr,        \* vectors requested of the local APIC
    isr,        \* vectors in service: delivered, not yet ended
    key,        \* scancode at port 0x60: "none", "enter" (28) or "other"
    ids,        \* tid -> what its current_pid() and current_tid() returned
    power       \* "on" or "off"

tableVars == <<threads, current>>
apicVars == <<irr, isr, key>>
vars == <<IF_flag, cpu, stack, tableVars, lock, apicVars, ids, power>>

----------------------------------------------------------------------------
(* Programs *)

Messages == IF Logging THEN <<"log">> ELSE <<>>

\* Plausible mistakes in the operators below; no specification uses them.

EoiAfterTick == <<"tick", "end_interrupts">>

NothingMasked(c) == FALSE

\* What the boot thread calls once interrupts are enabled, what a demo thread
\* calls, and what each handler calls, in order.
kernel_main == Messages \o <<"println", "serial_println">> \o Messages

demo_task == <<"current_pid", "current_tid">> \o Messages

timer_interrupt_handler == <<"end_interrupts", "tick">>

shutdown_calls == <<"shutdown_lock">> \o Messages \o <<"shutdown_write">>

keyboard_interrupt_handler(enter) ==
    Messages \o (IF enter THEN shutdown_calls ELSE <<>>) \o <<"end_interrupts">>

lapic_error_handler == Messages \o <<"end_interrupts">>

spurious_interrupt_handler == Messages

non_maskable_interrupt_handler == <<"serial_println">>

machine_check_handler == <<"serial_println", "hlt_loop">>

Code(name) ==
    CASE name = "kernel_main" -> kernel_main
      [] name = "demo_task"   -> demo_task
      [] name = "timer"       -> timer_interrupt_handler
      [] name = "enter_key"   -> keyboard_interrupt_handler(TRUE)
      [] name = "other_key"   -> keyboard_interrupt_handler(FALSE)
      [] name = "lapic_error" -> lapic_error_handler
      [] name = "spurious"    -> spurious_interrupt_handler
      [] name = "nmi"         -> non_maskable_interrupt_handler
      [] name = "machine_check" -> machine_check_handler

\* The lock a call takes, and the one it releases at its end: shutdown() logs
\* and writes the port under ACPI_SHUTDOWN.
Takes(c) ==
    CASE c \in {"current_pid", "current_tid", "tick"} -> {"SCHEDULER"}
      [] c \in {"serial_println", "log"}              -> {"SERIAL"}
      [] c = "println"                                -> {"CONSOLE"}
      [] c = "end_interrupts"                         -> {"LAPIC"}
      [] c = "shutdown_lock"                          -> {"ACPI_SHUTDOWN"}
      [] c \in {"shutdown_write", "hlt_loop"}         -> {}

Releases(c) ==
    CASE c = "shutdown_lock"  -> {}
      [] c = "shutdown_write" -> {"ACPI_SHUTDOWN"}
      [] OTHER                -> Takes(c)

\* Both _print functions run their body in without_interrupts.
Masks(c) == c \in {"println", "serial_println", "log"}

\* A frame: the program, the position in it, the stage of the call there, the
\* interrupt flag without_interrupts found, the flag the handler interrupted
\* (RFLAGS in its InterruptStackFrame), the contexts tick() switches.
\*   "entry"  a thread that has never run, or the boot thread before
\*            enable_interrupts
\*   "call"   before the call      "lock"    spinning for its lock
\*   "work"   under the lock       "unmask"  leaving without_interrupts
\*   "switch" SCHEDULER released, contexts chosen, not yet switched
\*   "away"   inside context_switch, off the CPU
Stages == {"entry", "call", "lock", "work", "unmask", "switch", "away"}

Frame(name, stage, flag) == [code |-> name, pos |-> 1, at |-> stage, was |-> FALSE,
                             flags |-> flag, old |-> 0, new |-> 0]

Ended(f) == f.pos > Len(Code(f.code))

\* The call after this one; a demo task logs forever.
Advance(f) ==
    [f EXCEPT !.at = "call",
              !.pos = IF f.code = "demo_task" /\ demo_task[@] = "log"
                      THEN @ ELSE @ + 1]

Top(t) == stack[t][Len(stack[t])]
Here == Top(cpu)
TheCall == Code(Here.code)[Here.pos]

WithTop(s, f) == [s EXCEPT ![Len(s)] = f]
SetTop(t, f) == [stack EXCEPT ![t] = WithTop(@, f)]

----------------------------------------------------------------------------
\* scheduler::init has run and interrupts are still disabled.  The idle
\* thread's context is TaskContext::empty(); the others' point to the initial
\* frame ThreadControlBlock::new laid out on their own stacks.
Init ==
    /\ IF_flag = FALSE
    /\ cpu = 0
    /\ stack = [t \in Tids |->
                  <<Frame(IF t = 0 THEN "kernel_main" ELSE "demo_task", "entry", FALSE)>>]
    /\ threads = [i \in 1 .. 3 |->
                    [tid |-> BootThreads[i].tid, pid |-> BootThreads[i].pid,
                     state |-> BootThreads[i].state,
                     context |-> IF i = 1 THEN None ELSE i - 1]]
    /\ current = 0
    /\ lock = [l \in Locks |-> None]
    /\ irr = {} /\ isr = {} /\ key = "none"
    /\ ids = [t \in Tids |-> [pid |-> None, tid |-> None]]
    /\ power = "on"

----------------------------------------------------------------------------
(* The local APIC and the devices (external) *)

\* Vectors of a higher priority class (vector / 16) than any in service.
Deliverable == {v \in irr : \A w \in isr : v \div 16 > w \div 16}

Raise(v) ==
    /\ power = "on" /\ v \in Raised /\ v \notin irr
    /\ irr' = irr \cup {v}
    /\ UNCHANGED <<IF_flag, cpu, stack, tableVars, lock, isr, ids, power>>

timer_fires == Raise(Timer) /\ UNCHANGED key
apic_error == Raise(LapicError) /\ UNCHANGED key
spurious_irq == Raise(Spurious) /\ UNCHANGED key
key_pressed(k) == Raise(Keyboard) /\ key = "none" /\ key' = k

Handler(v) ==
    CASE v = Timer      -> "timer"
      [] v = Keyboard   -> IF key = "enter" THEN "enter_key" ELSE "other_key"
      [] v = LapicError -> "lapic_error"
      [] v = Spurious   -> "spurious"

\* The CPU takes the highest pending vector through its gate in the IDT, which
\* clears the interrupt flag.  The keyboard handler reads port 0x60 first.
interrupt(v) ==
    /\ power = "on" /\ IF_flag
    /\ v \in Deliverable /\ \A w \in Deliverable : w <= v
    /\ IF_flag' = FALSE
    /\ irr' = irr \ {v}
    /\ isr' = IF v = Spurious THEN isr ELSE isr \cup {v}
    /\ key' = IF v = Keyboard THEN "none" ELSE key
    /\ stack' = [stack EXCEPT ![cpu] = Append(@, Frame(Handler(v), "call", TRUE))]
    /\ UNCHANGED <<cpu, tableVars, lock, ids, power>>

\* An NMI or a machine check is taken on the stack of the moment (only the
\* double fault has one of its own), masked section or handler alike.  NMIs are
\* blocked until the handler of the last one returns; a second machine check
\* resets the machine.
ExceptionHandler(v) == IF v = NMI THEN "nmi" ELSE "machine_check"

exception(v) ==
    /\ power = "on" /\ v \in Raised
    /\ \A k \in 1 .. Len(stack[cpu]) : stack[cpu][k].code # ExceptionHandler(v)
    /\ IF_flag' = FALSE
    /\ stack' = [stack EXCEPT ![cpu] =
                    Append(@, Frame(ExceptionHandler(v), "call", IF_flag))]
    /\ UNCHANGED <<cpu, tableVars, lock, apicVars, ids, power>>

----------------------------------------------------------------------------
(* Instructions of the code on the CPU.  A pending interrupt is taken       *)
(* between any two of them when the flag is set.                            *)

At(stage) ==
    /\ power = "on"
    /\ ~(IF_flag /\ Deliverable # {})
    /\ Here.at = stage

InCall(stage) == At(stage) /\ ~Ended(Here)

Goto(f) == stack' = SetTop(cpu, f)

enable_interrupts ==
    /\ At("entry") /\ Here.code = "kernel_main"
    /\ IF_flag' = TRUE
    /\ Goto([Here EXCEPT !.at = "call"])
    /\ UNCHANGED <<cpu, tableVars, lock, apicVars, ids, power>>

\* A new thread is entered through `ret` with interrupts disabled.
thread_trampoline ==
    /\ At("entry") /\ Here.code = "demo_task"
    /\ IF_flag' = TRUE
    /\ Goto([Here EXCEPT !.at = "call"])
    /\ UNCHANGED <<cpu, tableVars, lock, apicVars, ids, power>>

without_interrupts ==
    /\ InCall("call") /\ Masks(TheCall)
    /\ IF_flag' = FALSE
    /\ Goto([Here EXCEPT !.at = "lock", !.was = IF_flag])
    /\ UNCHANGED <<cpu, tableVars, lock, apicVars, ids, power>>

acquire ==
    /\ InCall("lock") \/ (InCall("call") /\ ~Masks(TheCall))
    /\ \A l \in Takes(TheCall) : lock[l] = None
    /\ lock' = [l \in Locks |-> IF l \in Takes(TheCall) THEN cpu ELSE lock[l]]
    /\ Goto([Here EXCEPT !.at = "work"])
    /\ UNCHANGED <<IF_flag, cpu, tableVars, apicVars, ids, power>>

\* The end of a call: its locks are released and, out of without_interrupts,
\* the next call follows.
Release ==
    lock' = [l \in Locks |-> IF l \in Releases(TheCall) THEN None ELSE lock[l]]

Done(f) == IF Masks(TheCall) THEN [f EXCEPT !.at = "unmask"] ELSE Advance(f)

Working(calls) == InCall("work") /\ TheCall \in calls

print ==
    /\ Working({"println", "serial_println", "log"})
    /\ Release /\ Goto(Done(Here))
    /\ UNCHANGED <<IF_flag, cpu, tableVars, apicVars, ids, power>>

\* Plausible mistakes; no specification uses them.

RestoreEnables ==
    /\ InCall("unmask")
    /\ IF_flag' = TRUE
    /\ Goto(Advance(Here))
    /\ UNCHANGED <<cpu, tableVars, lock, apicVars, ids, power>>

restore_interrupts ==
    /\ InCall("unmask")
    /\ IF_flag' = Here.was
    /\ Goto(Advance(Here))
    /\ UNCHANGED <<cpu, tableVars, lock, apicVars, ids, power>>

current_pid ==
    /\ Working({"current_pid"})
    /\ ids' = [ids EXCEPT ![cpu].pid = Tcb(threads, current).pid]
    /\ Release /\ Goto(Done(Here))
    /\ UNCHANGED <<IF_flag, cpu, tableVars, apicVars, power>>

current_tid ==
    /\ Working({"current_tid"})
    /\ ids' = [ids EXCEPT ![cpu].tid = Tcb(threads, current).tid]
    /\ Release /\ Goto(Done(Here))
    /\ UNCHANGED <<IF_flag, cpu, tableVars, apicVars, power>>

\* The write to the EOI register ends the highest vector in service.
end_interrupts ==
    /\ Working({"end_interrupts"})
    /\ isr' = {v \in isr : \E w \in isr : v < w}
    /\ Release /\ Goto(Done(Here))
    /\ UNCHANGED <<IF_flag, cpu, tableVars, irr, key, ids, power>>

shutdown ==
    /\ Working({"shutdown_lock", "shutdown_write"})
    /\ power' = IF TheCall = "shutdown_write" THEN "off" ELSE power
    /\ Release /\ Goto(Done(Here))
    /\ UNCHANGED <<IF_flag, cpu, tableVars, apicVars, ids>>

\* Plausible mistakes; no specification uses them.

CurrentNotStored ==
    /\ Working({"tick"})
    /\ LET next == next_ready_thread(threads, current) IN
       \/ /\ next = {}
          /\ Goto(Done(Here))
          /\ UNCHANGED tableVars
       \/ \E nxt \in next :
             /\ threads' = prepare_switch(threads, current, nxt)
             /\ current' = current
             /\ Goto([Here EXCEPT !.at = "switch", !.old = current, !.new = nxt])
    /\ Release
    /\ UNCHANGED <<IF_flag, cpu, apicVars, ids, power>>

CurrentOffByOne ==
    /\ Working({"tick"})
    /\ LET next == next_ready_thread(threads, current) IN
       \/ /\ next = {}
          /\ Goto(Done(Here))
          /\ UNCHANGED tableVars
       \/ \E nxt \in next :
             /\ threads' = prepare_switch(threads, current, nxt)
             /\ current' = nxt + 1
             /\ Goto([Here EXCEPT !.at = "switch", !.old = current, !.new = nxt])
    /\ Release
    /\ UNCHANGED <<IF_flag, cpu, apicVars, ids, power>>

\* tick() calls prepare_switch under SCHEDULER and releases it before the
\* switch; the contexts are pointers into the thread table.
tick ==
    /\ Working({"tick"})
    /\ LET next == next_ready_thread(threads, current) IN
       \/ /\ next = {}
          /\ Goto(Done(Here))
          /\ UNCHANGED tableVars
       \/ \E nxt \in next :
             /\ threads' = prepare_switch(threads, current, nxt)
             /\ current' = nxt
             /\ Goto([Here EXCEPT !.at = "switch", !.old = current, !.new = nxt])
    /\ Release
    /\ UNCHANGED <<IF_flag, cpu, apicVars, ids, power>>

\* The stack left behind is inside context_switch; one left so earlier returns
\* from its tick(), and one that never ran starts at the trampoline.
Resumed(f) == IF f.at = "away" THEN Advance(f) ELSE f

context_switch ==
    /\ At("switch")
    /\ LET target == Tcb(threads, Here.new).context IN
       /\ threads' = [threads EXCEPT ![Here.old + 1].context = cpu]
       /\ cpu' = target
       /\ stack' = [stack EXCEPT
             ![cpu] = WithTop(@, [Here EXCEPT !.at = "away"]),
             ![target] = WithTop(@, Resumed(Top(target)))]
    /\ UNCHANGED <<IF_flag, current, lock, apicVars, ids, power>>

\* A handler returns to what it interrupted and to the flag it found.
iret ==
    /\ At("call") /\ Len(stack[cpu]) > 1 /\ Ended(Here)
    /\ IF_flag' = Here.flags
    /\ stack' = [stack EXCEPT ![cpu] = SubSeq(@, 1, Len(@) - 1)]
    /\ UNCHANGED <<cpu, tableVars, lock, apicVars, ids, power>>

----------------------------------------------------------------------------
Instruction ==
    \/ enable_interrupts \/ thread_trampoline \/ without_interrupts \/ acquire
    \/ print \/ restore_interrupts \/ current_pid \/ current_tid
    \/ end_interrupts \/ shutdown \/ tick \/ context_switch \/ iret

CpuStep == Instruction \/ \E v \in Vectors : interrupt(v)

Next ==
    \/ CpuStep
    \/ \E v \in Exceptions : exception(v)
    \/ timer_fires \/ apic_error \/ spurious_irq
    \/ \E k \in {"enter", "other"} : key_pressed(k)

\* The CPU does not stop executing, and the LAPIC timer is periodic.
Fairness == WF_vars(CpuStep) /\ WF_vars(timer_fires)

SafeSpec == Init /\ [][Next]_vars
Spec == SafeSpec /\ Fairness

----------------------------------------------------------------------------
FrameType == [code : {"kernel_main", "demo_task", "timer", "enter_key",
                      "other_key", "lapic_error", "spurious", "nmi",
                      "machine_check"},
              pos : 1 .. 6, at : Stages, was : BOOLEAN, flags : BOOLEAN, old : 0 .. 2, new : 0 .. 2]

TypeOK ==
    /\ IF_flag \in BOOLEAN
    /\ cpu \in Tids
    /\ stack \in [Tids -> Seq(FrameType)]
    /\ \A t \in Tids : Len(stack[t]) \in 1 .. 4
    /\ threads \in Seq([tid : Tids, pid : Pids, state : ThreadState,
                        context : Tids \cup {None}])
    /\ current \in Slots(threads)
    /\ lock \in [Locks -> Tids \cup {None}]
    /\ irr \subseteq Vectors /\ isr \subseteq Vectors
    /\ key \in {"none", "enter", "other"}
    /\ ids \in [Tids -> [pid : Pids \cup {None}, tid : Tids \cup {None}]]
    /\ power \in {"on", "off"}

\* The CPU spins with interrupts disabled for a lock that is held.
Hung ==
    /\ power = "on" /\ ~IF_flag /\ ~Ended(Here)
    /\ Here.at = "lock" \/ (Here.at = "call" /\ ~Masks(TheCall))
    /\ \E l \in Takes(TheCall) : lock[l] # None

\* The safety contract of context_switch (context.rs:23-30): `old` is the
\* context of the thread on the CPU, and `new` that of another thread whose
\* stack was suspended by an earlier switch or never entered; an NMI may fall
\* in between.  Outside that window the scheduler's current thread is the one
\* whose stack the CPU is on.
SwitchContract ==
    LET switching == {k \in 1 .. Len(stack[cpu]) : stack[cpu][k].at = "switch"} IN
    /\ switching = {} => Tcb(threads, current).tid = cpu
    /\ \A k \in switching :
          LET new == Tcb(threads, stack[cpu][k].new) IN
          /\ Tcb(threads, stack[cpu][k].old).tid = cpu
          /\ new.tid # cpu /\ new.context = new.tid
          /\ Top(new.tid).at \in {"away", "entry"}

\* Every interrupt is ended before interrupts can be enabled again, on
\* whatever stack that happens (the trampoline's sti runs on a new thread
\* while the timer handler of the old one is unfinished).
EndedBeforeEnabled == IF_flag => isr = {}

\* Device interrupts never nest: while they are enabled the CPU is in the
\* program of a thread, outside every masked section, although an NMI or a
\* machine check prints, and so disables and restores the flag, anywhere.
NoReentry ==
    IF_flag => /\ Len(stack[cpu]) = 1
               /\ Here.at \in {"lock", "work"} => ~Masks(TheCall)

\* No handler and no masked section ever waits for CONSOLE, LAPIC or
\* ACPI_SHUTDOWN, nor with interrupts disabled for another thread: the CPU hangs
\* only on SCHEDULER in the timer's handler, taken by the very thread that the
\* timer interrupted, or on SERIAL in the handler of an exception that hit a print.
HangsOnOwnLock ==
    Hung => \/ /\ Here.code = "timer" /\ TheCall = "tick"
               /\ lock["SCHEDULER"] = cpu /\ stack[cpu][1].at = "work"
            \/ /\ Here.code \in {"nmi", "machine_check"}
               /\ lock["SERIAL"] = cpu
               /\ \E k \in 1 .. (Len(stack[cpu]) - 1) : stack[cpu][k].at = "work"

\* current_pid() and current_tid() give a thread its own identifiers, however
\* it is preempted between and inside the calls.
IdsAreOwn == \A t \in Tids : ids[t].pid \in {None, t} /\ ids[t].tid \in {None, t}

Sched == INSTANCE Scheduler WITH
    MaxThreads <- 3,
    threads <- [i \in 1 .. Len(threads) |->
                  [tid |-> threads[i].tid, pid |-> threads[i].pid,
                   state |-> threads[i].state]]

\* Interrupts, locks and switches included, the table behaves as Scheduler.tla
\* says.
ImplementsScheduler == Sched!SafeSpec

\* "Press Enter to poweroff." (main.rs:81)
EnterPowersOff == (key = "enter") ~> (power = "off")

\* The machine stops for good: powered off, hung on a lock, or in the handler of
\* a machine check, which does not return.
Stopped ==
    \/ power = "off" \/ Hung
    \/ \E k \in 1 .. Len(stack[cpu]) : stack[cpu][k].code = "machine_check"

\* Enter is served, whatever other keys, ticks and switches are under way: the
\* machine stops.
EnterStops == (key = "enter") ~> Stopped

\* Once the keyboard, which has the higher priority, falls silent, every Ready
\* thread gets the CPU unless the machine stops.
ReadyGetsCpu ==
    <>[](irr \subseteq {Timer}) =>
        \A t \in Tids :
            (\E i \in 1 .. Len(threads) : threads[i].tid = t /\ threads[i].state = "Ready")
            ~> (cpu = t \/ Stopped)
=============================================================================
