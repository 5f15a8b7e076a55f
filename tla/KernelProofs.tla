---------------------------- MODULE KernelProofs ----------------------------
(***************************************************************************)
(* Proofs about Kernel.tla, with and without logging and for any set of    *)
(* vectors the hardware raises: what the interrupt flag, the stacks, the   *)
(* locks and the thread table have to do with each other at every          *)
(* instruction, and from that the safety of the interrupt handlers and of  *)
(* the context switch.                                                     *)
(***************************************************************************)
EXTENDS Kernel, SequenceTheorems, TLAPS

----------------------------------------------------------------------------
(* The programs *)

ThreadCodes == {"kernel_main", "demo_task"}
DeviceCodes == {"timer", "enter_key", "other_key", "lapic_error", "spurious"}
ExceptionCodes == {"nmi", "machine_check"}
Codes == ThreadCodes \cup DeviceCodes \cup ExceptionCodes

\* The calls of a program, in any order.
CallsIn(name) ==
    CASE name = "kernel_main" -> {"log", "println", "serial_println"}
      [] name = "demo_task"   -> {"log", "current_pid", "current_tid"}
      [] name = "timer"       -> {"end_interrupts", "tick"}
      [] name = "enter_key"   -> {"log", "shutdown_lock", "shutdown_write", "end_interrupts"}
      [] name = "other_key"   -> {"log", "end_interrupts"}
      [] name = "lapic_error" -> {"log", "end_interrupts"}
      [] name = "spurious"    -> {"log"}
      [] name = "nmi"         -> {"serial_println"}
      [] name = "machine_check" -> {"serial_println", "hlt_loop"}

\* Where a handler ends its interrupt: the timer's first of all, since tick()
\* may not return for long, the others at the very end.
EoiPos(name) == IF name = "timer" THEN 1 ELSE Len(Code(name))

Acknowledging == {"timer", "enter_key", "other_key", "lapic_error"}

\* Where the Enter key's handler takes ACPI_SHUTDOWN, and where it releases it.
LockPos == IF Logging THEN 2 ELSE 1
WritePos == IF Logging THEN 4 ELSE 2

LEMMA MainCode ==
    /\ Len(kernel_main) \in Nat /\ Len(kernel_main) <= 5
    /\ \A p \in 1 .. Len(kernel_main) : kernel_main[p] \in {"log", "println", "serial_println"}
<1>1. CASE Logging
  <2>1. /\ Len(kernel_main) = 4 /\ kernel_main[1] = "log" /\ kernel_main[2] = "println"
        /\ kernel_main[3] = "serial_println" /\ kernel_main[4] = "log"
    BY <1>1 DEF Messages, kernel_main
  <2> QED BY <2>1
<1>2. CASE ~Logging
  <2>1. /\ Len(kernel_main) = 2 /\ kernel_main[1] = "println"
        /\ kernel_main[2] = "serial_println"
    BY <1>2 DEF Messages, kernel_main
  <2> QED BY <2>1
<1> QED BY <1>1, <1>2

LEMMA DemoCode ==
    /\ Len(demo_task) \in Nat /\ Len(demo_task) <= 5
    /\ \A p \in 1 .. Len(demo_task) : demo_task[p] \in {"log", "current_pid", "current_tid"}
<1>1. CASE Logging
  <2>1. /\ Len(demo_task) = 3 /\ demo_task[1] = "current_pid" /\ demo_task[2] = "current_tid"
        /\ demo_task[3] = "log"
    BY <1>1 DEF Messages, demo_task
  <2> QED BY <2>1
<1>2. CASE ~Logging
  <2>1. /\ Len(demo_task) = 2 /\ demo_task[1] = "current_pid"
        /\ demo_task[2] = "current_tid"
    BY <1>2 DEF Messages, demo_task
  <2> QED BY <2>1
<1> QED BY <1>1, <1>2

LEMMA EnterCode ==
    ASSUME NEW c, c = Code("enter_key")
    PROVE  /\ Len(c) \in Nat /\ Len(c) <= 5 /\ Len(c) > 0
           /\ LockPos \in Nat /\ WritePos \in Nat /\ 0 < LockPos /\ LockPos < WritePos
           /\ WritePos < Len(c)
           /\ \A p \in 1 .. Len(c) :
                 /\ c[p] \in {"log", "shutdown_lock", "shutdown_write", "end_interrupts"}
                 /\ c[p] = "end_interrupts" <=> p = Len(c)
                 /\ c[p] = "shutdown_lock" <=> p = LockPos
                 /\ c[p] = "shutdown_write" <=> p = WritePos
<1>0. c = keyboard_interrupt_handler(TRUE)
  BY DEF Code
<1>1. CASE Logging
  <2>1. /\ Len(c) = 5 /\ c[1] = "log" /\ c[2] = "shutdown_lock" /\ c[3] = "log"
        /\ c[4] = "shutdown_write" /\ c[5] = "end_interrupts"
    BY <1>0, <1>1 DEF Messages, keyboard_interrupt_handler, shutdown_calls
  <2>2. LockPos = 2 /\ WritePos = 4
    BY <1>1 DEF LockPos, WritePos
  <2>3. ASSUME NEW p \in 1 .. Len(c)
        PROVE  p = 1 \/ p = 2 \/ p = 3 \/ p = 4 \/ p = 5
    <3>1. p \in 1 .. 5
      BY <2>1
    <3> QED BY <3>1
  <2>4. \A p \in 1 .. Len(c) :
          /\ c[p] \in {"log", "shutdown_lock", "shutdown_write", "end_interrupts"}
          /\ c[p] = "end_interrupts" <=> p = Len(c)
          /\ c[p] = "shutdown_lock" <=> p = LockPos
          /\ c[p] = "shutdown_write" <=> p = WritePos
    BY <2>1, <2>2, <2>3
  <2> QED BY <2>1, <2>2, <2>4
<1>2. CASE ~Logging
  <2>1. /\ Len(c) = 3 /\ c[1] = "shutdown_lock" /\ c[2] = "shutdown_write"
        /\ c[3] = "end_interrupts"
    BY <1>0, <1>2 DEF Messages, keyboard_interrupt_handler, shutdown_calls
  <2>2. LockPos = 1 /\ WritePos = 2
    BY <1>2 DEF LockPos, WritePos
  <2>3. ASSUME NEW p \in 1 .. Len(c)
        PROVE  p = 1 \/ p = 2 \/ p = 3
    <3>1. p \in 1 .. 3
      BY <2>1
    <3> QED BY ONLY <3>1
  <2>4. \A p \in 1 .. Len(c) :
          /\ c[p] \in {"log", "shutdown_lock", "shutdown_write", "end_interrupts"}
          /\ c[p] = "end_interrupts" <=> p = Len(c)
          /\ c[p] = "shutdown_lock" <=> p = LockPos
          /\ c[p] = "shutdown_write" <=> p = WritePos
    BY <2>1, <2>2, <2>3
  <2> QED BY <2>1, <2>2, <2>4
<1> QED BY <1>1, <1>2

LEMMA ShortCode ==
    ASSUME NEW c, c = Code("other_key") \/ c = Code("lapic_error")
    PROVE  /\ Len(c) \in Nat /\ Len(c) <= 5 /\ Len(c) > 0
           /\ \A p \in 1 .. Len(c) : /\ c[p] \in {"log", "end_interrupts"}
                                     /\ c[p] = "end_interrupts" <=> p = Len(c)
<1>0. c = Messages \o <<"end_interrupts">>
  BY DEF Code, Messages, keyboard_interrupt_handler, lapic_error_handler
<1>1. CASE Logging
  BY <1>0, <1>1 DEF Messages
<1>2. CASE ~Logging
  BY <1>0, <1>2 DEF Messages
<1> QED BY <1>1, <1>2

LEMMA MessagesCode ==
    /\ Len(Messages) \in Nat /\ Len(Messages) <= 5
    /\ \A p \in 1 .. Len(Messages) : Messages[p] = "log"
BY DEF Messages

LEMMA FixedCodes ==
    /\ Len(timer_interrupt_handler) = 2
    /\ timer_interrupt_handler[1] = "end_interrupts" /\ timer_interrupt_handler[2] = "tick"
    /\ Len(non_maskable_interrupt_handler) = 1
    /\ non_maskable_interrupt_handler[1] = "serial_println"
    /\ Len(machine_check_handler) = 2
    /\ machine_check_handler[1] = "serial_println" /\ machine_check_handler[2] = "hlt_loop"
BY DEF timer_interrupt_handler, non_maskable_interrupt_handler, machine_check_handler

LEMMA CodeFacts ==
    ASSUME NEW n \in Codes
    PROVE  /\ Len(Code(n)) \in Nat /\ Len(Code(n)) <= 5
           /\ \A p \in 1 .. Len(Code(n)) : Code(n)[p] \in CallsIn(n)
<1>1. CASE n = "kernel_main"
  BY <1>1, MainCode DEF CallsIn, Code
<1>2. CASE n = "demo_task"
  BY <1>2, DemoCode DEF CallsIn, Code
<1>3. CASE n = "timer"
  <2>1. Code(n) = timer_interrupt_handler
    BY <1>3 DEF Code
  <2>2. \A p \in 1 .. Len(Code(n)) : Code(n)[p] \in CallsIn(n)
    BY <1>3, <2>1, FixedCodes DEF CallsIn
  <2> QED BY <2>1, <2>2, FixedCodes
<1>4. CASE n = "enter_key"
  BY <1>4, EnterCode DEF CallsIn
<1>5. CASE n = "other_key"
  BY <1>5, ShortCode DEF CallsIn
<1>6. CASE n = "lapic_error"
  BY <1>6, ShortCode DEF CallsIn
<1>7. CASE n = "spurious"
  BY <1>7, MessagesCode DEF CallsIn, Code, spurious_interrupt_handler
<1>8. CASE n = "nmi"
  <2>1. Code(n) = non_maskable_interrupt_handler
    BY <1>8 DEF Code
  <2>2. \A p \in 1 .. Len(Code(n)) : Code(n)[p] \in CallsIn(n)
    BY <1>8, <2>1, FixedCodes DEF CallsIn
  <2> QED BY <2>1, <2>2, FixedCodes
<1>9. CASE n = "machine_check"
  <2>1. Code(n) = machine_check_handler
    BY <1>9 DEF Code
  <2>2. \A p \in 1 .. Len(Code(n)) : Code(n)[p] \in CallsIn(n)
    BY <1>9, <2>1, FixedCodes DEF CallsIn
  <2> QED BY <2>1, <2>2, FixedCodes
<1> QED BY <1>1, <1>2, <1>3, <1>4, <1>5, <1>6, <1>7, <1>8, <1>9
        DEF Codes, ThreadCodes, DeviceCodes, ExceptionCodes

LEMMA TimerFacts ==
    Len(Code("timer")) = 2 /\ Code("timer")[1] = "end_interrupts" /\ Code("timer")[2] = "tick"
BY FixedCodes DEF Code

\* Every handler of an interrupt that needs it ends it once, at EoiPos.
LEMMA EoiFacts ==
    ASSUME NEW n \in Acknowledging
    PROVE  /\ EoiPos(n) \in 1 .. Len(Code(n))
           /\ \A p \in 1 .. Len(Code(n)) : Code(n)[p] = "end_interrupts" <=> p = EoiPos(n)
<1> USE DEF EoiPos
<1>1. CASE n = "timer"
  BY <1>1, TimerFacts
<1>2. CASE n = "enter_key"
  BY <1>2, EnterCode
<1>3. CASE n = "other_key"
  BY <1>3, ShortCode
<1>4. CASE n = "lapic_error"
  BY <1>4, ShortCode
<1> QED BY <1>1, <1>2, <1>3, <1>4 DEF Acknowledging

LEMMA EnterFacts ==
    /\ Len(Code("enter_key")) \in Nat
    /\ LockPos \in Nat /\ WritePos \in Nat /\ 0 < LockPos /\ LockPos < WritePos
    /\ WritePos < Len(Code("enter_key"))
    /\ \A p \in 1 .. Len(Code("enter_key")) :
          /\ Code("enter_key")[p] = "shutdown_lock" <=> p = LockPos
          /\ Code("enter_key")[p] = "shutdown_write" <=> p = WritePos
BY EnterCode

----------------------------------------------------------------------------
(* The inductive invariant *)

CallOf(f) == Code(f.code)[f.pos]

\* The call is one of a masked section, and the section has begun.
InMasked(f) == f.at \in {"lock", "unmask"} \/ (f.at = "work" /\ Masks(CallOf(f)))

\* Interrupts are enabled in the k-th frame of a stack, as the program of a
\* thread enables them: nowhere else, and not in its masked sections.
Enables(f, k) == k = 1 /\ f.at \in {"call", "work"} /\ ~InMasked(f)

FrameOK(f, k) ==
    /\ f \in FrameType
    /\ f.pos <= Len(Code(f.code)) + 1
    /\ f.at \notin {"call", "entry"} => ~Ended(f)
    /\ k = 1 <=> f.code \in ThreadCodes
    /\ k >= 3 => f.code \in ExceptionCodes
    /\ f.at = "entry" => k = 1
    /\ f.at \in {"lock", "unmask"} => Masks(CallOf(f))
    /\ InMasked(f) => f.was = (k = 1)
    /\ f.at \in {"switch", "away"} => f.code = "timer" /\ f.pos = 2

\* The frames of a stack fit on each other: each saved the flag that the one
\* below ran with, and no program is on it twice.
StackOK(s) ==
    /\ s \in Seq(FrameType) /\ Len(s) >= 1 /\ Len(s) <= 4
    /\ \A k \in 1 .. Len(s) : FrameOK(s[k], k)
    /\ \A k \in 2 .. Len(s) : s[k].flags = Enables(s[k - 1], k - 1)
    /\ \A k \in 2 .. Len(s) : s[k].code \in DeviceCodes => s[k].flags
    /\ \A j, k \in 1 .. Len(s) : s[j].code = s[k].code => j = k

StacksInv ==
    /\ IF_flag \in BOOLEAN
    /\ cpu \in Tids
    /\ stack \in [Tids -> Seq(FrameType)]
    /\ \A t \in Tids : StackOK(stack[t])
    /\ IF_flag = Enables(Here, Len(stack[cpu]))

\* The interrupt is not ended yet.
Unended(f) == f.code \in Acknowledging /\ f.pos <= EoiPos(f.code)

\* One interrupt at most is in service, and its handler, above the program of
\* the thread, is the reason.
ServiceInv ==
    /\ irr \subseteq Vectors /\ isr \subseteq Vectors
    /\ \A v, w \in isr : v = w
    /\ isr # {} => Len(stack[cpu]) >= 2 /\ Unended(stack[cpu][2])

\* The handler of the Enter key is under ACPI_SHUTDOWN.
InShutdown(f) == f.code = "enter_key" /\ f.pos > LockPos /\ f.pos <= WritePos

Holds(f, l) ==
    \/ f.at = "work" /\ l \in Takes(CallOf(f))
    \/ l = "ACPI_SHUTDOWN" /\ InShutdown(f)

\* A lock is taken exactly if a frame of the stack on the CPU holds it, and
\* then one frame does: a thread never leaves the CPU with a lock.
LocksInv ==
    /\ lock \in [Locks -> {None, cpu}]
    /\ \A l \in Locks : lock[l] = cpu <=> \E k \in 1 .. Len(stack[cpu]) : Holds(stack[cpu][k], l)
    /\ \A l \in Locks : \A j, k \in 1 .. Len(stack[cpu]) :
          Holds(stack[cpu][j], l) /\ Holds(stack[cpu][k], l) => j = k

\* A stack off the CPU has never run or is in the context_switch of the timer's
\* handler.
Suspended(s) ==
    \/ Len(s) = 1 /\ s[1].at = "entry"
    \/ Len(s) = 2 /\ s[2].at = "away" /\ s[1].at = "call"

Switching(s) == \E k \in 1 .. Len(s) : s[k].at = "switch"

TableInv ==
    /\ threads \in Seq([tid : Tids, pid : Pids, state : ThreadState, context : Tids \cup {None}])
    /\ Len(threads) = 3
    /\ current \in Tids
    /\ \A t \in Tids : threads[t + 1].tid = t /\ threads[t + 1].pid = t

SwitchInv ==
    /\ \A t \in Tids : t # cpu => threads[t + 1].context = t /\ Suspended(stack[t])
    /\ \A k \in 1 .. Len(stack[cpu]) :
          /\ stack[cpu][k].at # "away"
          /\ stack[cpu][k].at = "switch"
                => /\ stack[cpu][k].old = cpu /\ stack[cpu][k].new = current
                   /\ current # cpu /\ stack[cpu][1].at = "call"
    /\ ~Switching(stack[cpu]) => current = cpu

KernelInv == StacksInv /\ ServiceInv /\ LocksInv /\ TableInv /\ SwitchInv

----------------------------------------------------------------------------
(* Frames *)

LEMMA CodesFit == \A f \in FrameType : f.code \in Codes
BY DEF FrameType, Codes, ThreadCodes, DeviceCodes, ExceptionCodes

LEMMA FrameAt ==
    ASSUME NEW f \in FrameType, NEW a \in Stages, NEW g, g = [f EXCEPT !.at = a]
    PROVE  /\ g \in FrameType /\ g.at = a
           /\ g.code = f.code /\ g.pos = f.pos /\ g.was = f.was
           /\ g.flags = f.flags /\ g.old = f.old /\ g.new = f.new
BY DEF FrameType, Stages

LEMMA NewFrame ==
    ASSUME NEW c \in Codes, NEW a \in Stages, NEW b \in BOOLEAN
    PROVE  /\ Frame(c, a, b) \in FrameType
           /\ Frame(c, a, b).code = c /\ Frame(c, a, b).pos = 1
           /\ Frame(c, a, b).at = a /\ Frame(c, a, b).flags = b
BY DEF Frame, FrameType, Stages, Codes, ThreadCodes, DeviceCodes, ExceptionCodes

LEMMA FrameAdvance ==
    ASSUME NEW f \in FrameType, ~Ended(f)
    PROVE  /\ Advance(f) \in FrameType /\ Advance(f).at = "call"
           /\ Advance(f).pos \in {f.pos, f.pos + 1}
           /\ f.code # "demo_task" => Advance(f).pos = f.pos + 1
           /\ Advance(f).pos <= Len(Code(f.code)) + 1
           /\ Advance(f).code = f.code /\ Advance(f).flags = f.flags
<1>1. f.code \in Codes /\ f.pos \in 1 .. 6
  BY CodesFit DEF FrameType
<1>2. Len(Code(f.code)) \in Nat /\ Len(Code(f.code)) <= 5
  BY <1>1, CodeFacts
<1>3. f.pos <= Len(Code(f.code))
  BY <1>1, <1>2 DEF Ended
<1>4. PICK p \in {f.pos, f.pos + 1} :
         /\ Advance(f) = [f EXCEPT !.at = "call", !.pos = p]
         /\ f.code # "demo_task" => p = f.pos + 1
  BY DEF Advance
<1>5. p \in 1 .. 6 /\ p <= Len(Code(f.code)) + 1
  <2>1. f.pos \in Int /\ 1 <= f.pos
    BY <1>1
  <2>2. p \in Int /\ 1 <= p /\ p <= Len(Code(f.code)) + 1
    BY <1>2, <1>3, <2>1
  <2> QED BY <1>2, <2>2
<1>6. /\ Advance(f) \in FrameType /\ Advance(f).at = "call" /\ Advance(f).pos = p
      /\ Advance(f).code = f.code /\ Advance(f).flags = f.flags
  BY <1>4, <1>5 DEF FrameType, Stages
<1> QED BY <1>4, <1>5, <1>6

----------------------------------------------------------------------------
(* Stacks *)

\* The frame g may stand in place of the top one.
MayReplace(g, s) ==
    /\ StackOK(s) /\ FrameOK(g, Len(s))
    /\ g.code = s[Len(s)].code /\ g.flags = s[Len(s)].flags

SameBelow(z, s, g) ==
    /\ Len(z) = Len(s)
    /\ \A k \in 1 .. Len(s) : z[k] = IF k = Len(s) THEN g ELSE s[k]

LEMMA TopReplaced ==
    ASSUME NEW s, NEW g, MayReplace(g, s)
    PROVE  StackOK(WithTop(s, g)) /\ SameBelow(WithTop(s, g), s, g)
<1> DEFINE z == WithTop(s, g)
<1> USE DEF MayReplace
<1> DEFINE n == Len(s)
<1>1. s \in Seq(FrameType) /\ n \in Nat /\ n >= 1 /\ n <= 4 /\ g \in FrameType
  BY DEF StackOK, FrameOK
<1>2. /\ z \in Seq(FrameType) /\ Len(z) = n
      /\ \A k \in 1 .. n : z[k] = IF k = n THEN g ELSE s[k]
  BY <1>1, ExceptSeq DEF WithTop
<1> HIDE DEF z
<1>3. \A k \in 1 .. n : FrameOK(z[k], k)
  BY <1>1, <1>2 DEF StackOK
<1>4. \A k \in 1 .. n : z[k].code = s[k].code /\ z[k].flags = s[k].flags
  BY <1>2
<1>5. ASSUME NEW k \in 2 .. n
      PROVE  z[k].flags = Enables(z[k - 1], k - 1) /\ (z[k].code \in DeviceCodes => z[k].flags)
  <2>1. k \in 1 .. n /\ k - 1 \in 1 .. n /\ k - 1 # n
    BY <1>1
  <2>2. z[k - 1] = s[k - 1] /\ z[k].flags = s[k].flags /\ z[k].code = s[k].code
    BY <1>2, <1>4, <2>1
  <2> QED BY <2>1, <2>2 DEF StackOK
<1>6. \A j, k \in 1 .. n : z[j].code = z[k].code => j = k
  BY <1>4 DEF StackOK
<1> QED BY <1>1, <1>2, <1>3, <1>5, <1>6 DEF StackOK, SameBelow, z

\* The frame of a handler that may be entered on stack s: it saves the flag it
\* found, and it is not on the stack yet.
MayEnter(g, s) ==
    /\ StackOK(s) /\ Len(s) < 4 /\ FrameOK(g, Len(s) + 1)
    /\ g.flags = Enables(s[Len(s)], Len(s))
    /\ g.code \in DeviceCodes => g.flags
    /\ \A k \in 1 .. Len(s) : s[k].code # g.code

Extends(z, s, g) ==
    /\ Len(z) = Len(s) + 1 /\ z[Len(s) + 1] = g
    /\ \A k \in 1 .. Len(s) : z[k] = s[k]

LEMMA Pushed ==
    ASSUME NEW s, NEW g, MayEnter(g, s)
    PROVE  StackOK(Append(s, g)) /\ Extends(Append(s, g), s, g)
<1> DEFINE z == Append(s, g)
<1> USE DEF MayEnter
<1> DEFINE n == Len(s)
<1>1. s \in Seq(FrameType) /\ n \in Nat /\ n >= 1 /\ n <= 4 /\ g \in FrameType
  BY DEF StackOK, FrameOK
<1>2. /\ z \in Seq(FrameType) /\ Len(z) = n + 1 /\ z[n + 1] = g
      /\ \A k \in 1 .. n : z[k] = s[k]
  BY <1>1
<1>3. \A k \in 1 .. (n + 1) : k \in 1 .. n \/ k = n + 1
  BY <1>1
<1>4. \A k \in 1 .. (n + 1) : FrameOK(z[k], k)
  BY <1>2, <1>3 DEF StackOK
<1>5. ASSUME NEW k \in 2 .. (n + 1)
      PROVE  z[k].flags = Enables(z[k - 1], k - 1) /\ (z[k].code \in DeviceCodes => z[k].flags)
  <2>1. CASE k = n + 1
    <3>1. z[k - 1] = s[n] /\ k - 1 = n
      BY <1>1, <1>2, <2>1
    <3> QED BY <1>2, <2>1, <3>1
  <2>2. CASE k # n + 1
    <3>1. k \in 1 .. n /\ k - 1 \in 1 .. n /\ k \in 2 .. n
      BY <1>1, <2>2
    <3>2. z[k] = s[k] /\ z[k - 1] = s[k - 1]
      BY <1>2, <3>1
    <3> QED BY <3>1, <3>2 DEF StackOK
  <2> QED BY <2>1, <2>2
<1>6. \A j, k \in 1 .. (n + 1) : z[j].code = z[k].code => j = k
  BY <1>2, <1>3 DEF StackOK
<1>7. n + 1 >= 1 /\ n + 1 <= 4
  BY <1>1
<1> QED BY <1>2, <1>4, <1>5, <1>6, <1>7 DEF StackOK, Extends

LEMMA Popped ==
    ASSUME NEW s, StackOK(s), Len(s) > 1, NEW z, z = SubSeq(s, 1, Len(s) - 1)
    PROVE  /\ StackOK(z) /\ Len(z) = Len(s) - 1
           /\ \A k \in 1 .. (Len(s) - 1) : z[k] = s[k]
<1> DEFINE n == Len(s)
<1>1. s \in Seq(FrameType) /\ n \in Nat /\ n >= 2 /\ n <= 4
  BY DEF StackOK
<1>2. /\ z \in Seq(FrameType) /\ Len(z) = n - 1
      /\ \A k \in 1 .. (n - 1) : z[k] = s[k]
  BY <1>1, SubSeqProperties
<1>3. /\ \A k \in 1 .. (n - 1) : k \in 1 .. n
      /\ \A k \in 2 .. (n - 1) : k \in 2 .. n /\ k - 1 \in 1 .. (n - 1) /\ k \in 1 .. (n - 1)
  BY <1>1
<1>4. \A k \in 2 .. (n - 1) : z[k] = s[k] /\ z[k - 1] = s[k - 1]
  BY <1>2, <1>3
<1>5. n - 1 >= 1 /\ n - 1 <= 4
  BY <1>1
<1>6. \A k \in 1 .. (n - 1) : FrameOK(z[k], k)
  BY <1>2, <1>3 DEF StackOK
<1>7. \A k \in 2 .. (n - 1) :
        z[k].flags = Enables(z[k - 1], k - 1) /\ (z[k].code \in DeviceCodes => z[k].flags)
  BY <1>3, <1>4 DEF StackOK
<1>8. \A j, k \in 1 .. (n - 1) : z[j].code = z[k].code => j = k
  BY <1>2, <1>3 DEF StackOK
<1> QED BY <1>2, <1>5, <1>6, <1>7, <1>8 DEF StackOK

----------------------------------------------------------------------------
(* Steps that replace the frame on top, which most instructions do *)

Depth == Len(stack[cpu])

LEMMA OnTop ==
    ASSUME StacksInv
    PROVE  /\ cpu \in Tids /\ StackOK(stack[cpu]) /\ stack[cpu] \in Seq(FrameType)
           /\ Depth \in Nat /\ Depth >= 1 /\ Depth <= 4
           /\ Here = stack[cpu][Depth] /\ FrameOK(Here, Depth) /\ Here \in FrameType
           /\ Here.code \in Codes
<1>1. cpu \in Tids /\ StackOK(stack[cpu]) /\ stack[cpu] \in Seq(FrameType)
  BY DEF StacksInv
<1>2. Depth \in Nat /\ Depth >= 1 /\ Depth <= 4
  BY <1>1, LenProperties DEF StackOK, Depth
<1>3. Here = stack[cpu][Depth]
  BY DEF Here, Top, Depth
<1>4. FrameOK(Here, Depth)
  BY <1>1, <1>2, <1>3 DEF StackOK, Depth
<1> QED BY <1>1, <1>2, <1>3, <1>4, CodesFit DEF FrameOK

\* The stack on the CPU has g on top now, and nothing else has changed.
Replaced(g) ==
    /\ cpu' = cpu
    /\ Len(stack'[cpu]) = Depth
    /\ \A k \in 1 .. Depth : stack'[cpu][k] = IF k = Depth THEN g ELSE stack[cpu][k]
    /\ \A t \in Tids : t # cpu => stack'[t] = stack[t]

LEMMA StacksReplaced ==
    ASSUME StacksInv, NEW g, FrameOK(g, Depth), g.code = Here.code, g.flags = Here.flags,
           Goto(g), cpu' = cpu, IF_flag' = Enables(g, Depth)
    PROVE  StacksInv' /\ Replaced(g)
<1> DEFINE z == WithTop(stack[cpu], g)
<1>1. stack \in [Tids -> Seq(FrameType)] /\ cpu \in Tids
  BY DEF StacksInv
<1>2. stack' = [stack EXCEPT ![cpu] = z]
  BY DEF Goto, SetTop
<1>3. stack'[cpu] = z /\ \A t \in Tids : t # cpu => stack'[t] = stack[t]
  BY <1>1, <1>2
<1>4. MayReplace(g, stack[cpu])
  BY OnTop DEF MayReplace, Depth
<1>5. StackOK(z) /\ Len(z) = Depth /\ \A k \in 1 .. Depth : z[k] = IF k = Depth THEN g ELSE stack[cpu][k]
  BY <1>4, TopReplaced DEF SameBelow, Depth
<1> HIDE DEF z
<1>6. stack' \in [Tids -> Seq(FrameType)]
  BY <1>1, <1>2, <1>5 DEF StackOK
<1>7. \A t \in Tids : StackOK(stack'[t])
  BY <1>3, <1>5 DEF StacksInv
<1>8. Replaced(g)
  BY <1>3, <1>5 DEF Replaced
<1>9. Here' = g
  BY <1>3, <1>5, OnTop DEF Here, Top
<1>10. IF_flag' = Enables(Here', Len(stack'[cpu'])) /\ IF_flag' \in BOOLEAN
  BY <1>3, <1>5, <1>9 DEF Enables
<1>11. StacksInv'
  BY <1>1, <1>6, <1>7, <1>10 DEF StacksInv
<1> QED BY <1>8, <1>11

LEMMA ServiceReplaced ==
    ASSUME StacksInv, ServiceInv, NEW g, Replaced(g), irr' = irr, isr' = isr,
           g.code = Here.code,
           Unended(Here) => Unended(g)
    PROVE  ServiceInv'
<1>1. Depth \in Nat /\ Depth >= 1 /\ Here = stack[cpu][Depth]
  BY OnTop
<1>2. ASSUME isr # {}
      PROVE  Len(stack'[cpu']) >= 2 /\ Unended(stack'[cpu'][2])
  <2>1. Depth >= 2 /\ Unended(stack[cpu][2])
    BY <1>2 DEF ServiceInv, Depth
  <2>2. stack'[cpu][2] = IF 2 = Depth THEN g ELSE stack[cpu][2]
    BY <1>1, <2>1 DEF Replaced
  <2> QED BY <1>1, <2>1, <2>2 DEF Replaced
<1> QED BY <1>2 DEF ServiceInv

\* What may happen to a lock in such a step: nothing, it is taken, or it is
\* released.
LEMMA LocksReplaced ==
    ASSUME StacksInv, LocksInv, NEW g, Replaced(g), lock' \in [Locks -> {None, cpu}],
           \A l \in Locks :
              \/ lock'[l] = lock[l] /\ (Holds(g, l) <=> Holds(Here, l))
              \/ lock[l] = None /\ lock'[l] = cpu /\ Holds(g, l)
              \/ lock'[l] = None /\ Holds(Here, l) /\ ~Holds(g, l)
    PROVE  LocksInv'
<1> DEFINE old(k) == stack[cpu][k]
           new(k) == stack'[cpu][k]
<1>1. Depth \in Nat /\ Depth >= 1 /\ Here = old(Depth) /\ Depth \in 1 .. Depth /\ cpu # None
  BY OnTop DEF Tids, None
<1>2. cpu' = cpu /\ \A k \in 1 .. Depth : new(k) = IF k = Depth THEN g ELSE old(k)
  BY DEF Replaced
<1>3. /\ \A l \in Locks : lock[l] = cpu <=> \E k \in 1 .. Depth : Holds(old(k), l)
      /\ \A l \in Locks : \A j, k \in 1 .. Depth : Holds(old(j), l) /\ Holds(old(k), l) => j = k
      /\ \A l \in Locks : lock[l] \in {None, cpu}
  BY DEF LocksInv, Depth
<1> HIDE DEF old, new
<1>4. ASSUME NEW l \in Locks
      PROVE  /\ lock'[l] = cpu <=> \E k \in 1 .. Depth : Holds(new(k), l)
             /\ \A j, k \in 1 .. Depth : Holds(new(j), l) /\ Holds(new(k), l) => j = k
  <2>1. CASE lock'[l] = lock[l] /\ (Holds(g, l) <=> Holds(Here, l))
    <3>1. \A k \in 1 .. Depth : Holds(new(k), l) <=> Holds(old(k), l)
      BY <1>1, <1>2, <2>1
    <3> QED BY <1>3, <2>1, <3>1
  <2>2. CASE lock[l] = None /\ lock'[l] = cpu /\ Holds(g, l)
    <3>1. \A k \in 1 .. Depth : ~Holds(old(k), l)
      BY <1>1, <1>3, <2>2
    <3> QED BY <1>1, <1>2, <2>2, <3>1
  <2>3. CASE lock'[l] = None /\ Holds(Here, l) /\ ~Holds(g, l)
    <3>1. \A k \in 1 .. Depth : k # Depth => ~Holds(old(k), l)
      BY <1>1, <1>3, <2>3
    <3> QED BY <1>1, <1>2, <2>3, <3>1
  <2> QED BY <2>1, <2>2, <2>3
<1>5. LocksInv' <=> /\ lock' \in [Locks -> {None, cpu}]
                    /\ \A l \in Locks : lock'[l] = cpu <=> \E k \in 1 .. Depth : Holds(new(k), l)
                    /\ \A l \in Locks : \A j, k \in 1 .. Depth :
                          Holds(new(j), l) /\ Holds(new(k), l) => j = k
  BY <1>2 DEF LocksInv, Replaced, new
<1> QED BY <1>4, <1>5

LEMMA SwitchReplaced ==
    ASSUME StacksInv, SwitchInv, NEW g, Replaced(g), g.code = Here.code,
           threads' = threads, current' = current,
           Here.at # "switch", g.at \notin {"switch", "away"}
    PROVE  SwitchInv'
<1> DEFINE old(k) == stack[cpu][k]
           new(k) == stack'[cpu][k]
<1>1. Depth \in Nat /\ Depth >= 1 /\ Here = old(Depth) /\ Depth \in 1 .. Depth
  BY OnTop
<1>2. /\ cpu' = cpu /\ Len(stack'[cpu]) = Depth
      /\ \A k \in 1 .. Depth : new(k) = IF k = Depth THEN g ELSE old(k)
      /\ \A t \in Tids : t # cpu => stack'[t] = stack[t]
  BY DEF Replaced
<1>3. /\ \A k \in 1 .. Depth :
            /\ old(k).at # "away"
            /\ old(k).at = "switch" => /\ old(k).old = cpu /\ old(k).new = current
                                       /\ current # cpu /\ old(1).at = "call"
      /\ ~Switching(stack[cpu]) => current = cpu
  BY DEF SwitchInv, Depth
<1>4. \A k \in 1 .. Depth : old(k).at = "switch" => k # 1
  <2>1. \A k \in 1 .. Depth : FrameOK(old(k), k)
    BY OnTop DEF StackOK, Depth
  <2> QED BY <2>1 DEF FrameOK, ThreadCodes
<1>5. \A k \in 1 .. Depth : new(k).at = "switch" <=> old(k).at = "switch"
  BY <1>1, <1>2
<1>6. Switching(stack'[cpu]) <=> Switching(stack[cpu])
  BY <1>2, <1>5 DEF Switching, Depth
<1> HIDE DEF old, new
<1>7. \A k \in 1 .. Depth :
         /\ new(k).at # "away"
         /\ new(k).at = "switch" => /\ new(k).old = cpu /\ new(k).new = current
                                    /\ current # cpu /\ new(1).at = "call"
  <2> SUFFICES ASSUME NEW k \in 1 .. Depth
               PROVE  /\ new(k).at # "away"
                      /\ new(k).at = "switch" => /\ new(k).old = cpu /\ new(k).new = current
                                                 /\ current # cpu /\ new(1).at = "call"
    OBVIOUS
  <2>1. CASE k = Depth
    BY <1>2, <2>1
  <2>2. CASE k # Depth
    <3>1. new(k) = old(k)
      BY <1>2, <2>2
    <3>2. old(k).at = "switch" => new(1) = old(1)
      BY <1>1, <1>2, <1>4, <2>2
    <3> QED BY <1>3, <3>1, <3>2
  <2> QED BY <2>1, <2>2
<1> QED BY <1>2, <1>3, <1>6, <1>7 DEF SwitchInv, new

----------------------------------------------------------------------------
(* Calls *)

Calls == {"log", "println", "serial_println", "current_pid", "current_tid", "end_interrupts",
          "tick", "shutdown_lock", "shutdown_write", "hlt_loop"}

LEMMA LocksOfCalls ==
    ASSUME NEW c \in Calls
    PROVE  /\ Takes(c) \subseteq Locks /\ Releases(c) \subseteq Locks
           /\ "ACPI_SHUTDOWN" \in Takes(c) => c = "shutdown_lock"
           /\ c \notin {"shutdown_lock", "shutdown_write"} => Releases(c) = Takes(c)
           /\ c = "shutdown_lock" => Takes(c) = {"ACPI_SHUTDOWN"} /\ Releases(c) = {}
           /\ c = "shutdown_write" => Takes(c) = {} /\ Releases(c) = {"ACPI_SHUTDOWN"}
BY DEF Calls, Takes, Releases, Locks

LEMMA CallsFit ==
    ASSUME NEW n \in Codes
    PROVE  /\ CallsIn(n) \subseteq Calls
           /\ "tick" \in CallsIn(n) => n = "timer"
           /\ "end_interrupts" \in CallsIn(n) => n \in Acknowledging
           /\ "shutdown_lock" \in CallsIn(n) => n = "enter_key"
           /\ "shutdown_write" \in CallsIn(n) => n = "enter_key"
           /\ "current_pid" \in CallsIn(n) => n = "demo_task"
           /\ "current_tid" \in CallsIn(n) => n = "demo_task"
BY DEF Codes, ThreadCodes, DeviceCodes, ExceptionCodes, CallsIn, Calls, Acknowledging

LEMMA CallThere ==
    ASSUME NEW f \in FrameType, ~Ended(f)
    PROVE  /\ f.pos \in 1 .. Len(Code(f.code))
           /\ CallOf(f) \in CallsIn(f.code) /\ CallOf(f) \in Calls
<1>1. f.code \in Codes /\ f.pos \in Int /\ 1 <= f.pos
  <2>1. f.pos \in 1 .. 6
    BY DEF FrameType
  <2> QED BY <2>1, CodesFit
<1>2. Len(Code(f.code)) \in Nat /\ \A p \in 1 .. Len(Code(f.code)) : Code(f.code)[p] \in CallsIn(f.code)
  BY <1>1, CodeFacts
<1>3. f.pos \in 1 .. Len(Code(f.code))
  BY <1>1, <1>2 DEF Ended
<1> QED BY <1>1, <1>2, <1>3, CallsFit DEF CallOf

\* A call that does not end the interrupt leaves it unended.
LEMMA UnendedAdvance ==
    ASSUME NEW f \in FrameType, ~Ended(f), CallOf(f) # "end_interrupts", Unended(f)
    PROVE  Unended(Advance(f))
<1>1. f.code \in Acknowledging /\ f.pos <= EoiPos(f.code)
  BY DEF Unended
<1>2. f.pos \in 1 .. Len(Code(f.code))
  BY CallThere
<1>3. EoiPos(f.code) \in Int /\ f.pos # EoiPos(f.code)
  BY <1>1, <1>2, EoiFacts DEF CallOf
<1>4. Advance(f).pos = f.pos + 1 /\ Advance(f).code = f.code
  BY <1>1, FrameAdvance DEF Acknowledging
<1>5. f.pos + 1 <= EoiPos(f.code)
  BY <1>1, <1>2, <1>3
<1> QED BY <1>1, <1>4, <1>5 DEF Unended

LEMMA ShutdownAdvance ==
    ASSUME NEW f \in FrameType, ~Ended(f)
    PROVE  /\ CallOf(f) \notin {"shutdown_lock", "shutdown_write"}
                 => (InShutdown(Advance(f)) <=> InShutdown(f))
           /\ CallOf(f) = "shutdown_lock" => ~InShutdown(f) /\ InShutdown(Advance(f))
           /\ CallOf(f) = "shutdown_write" => InShutdown(f) /\ ~InShutdown(Advance(f))
<1>1. CASE f.code # "enter_key"
  <2>1. ~InShutdown(f) /\ ~InShutdown(Advance(f))
    BY <1>1, FrameAdvance DEF InShutdown
  <2>2. CallOf(f) \notin {"shutdown_lock", "shutdown_write"}
    BY <1>1, CallThere, CallsFit, CodesFit
  <2> QED BY <2>1, <2>2
<1>2. CASE f.code = "enter_key"
  <2>1. Advance(f).pos = f.pos + 1 /\ Advance(f).code = "enter_key"
    BY <1>2, FrameAdvance
  <2>2. f.pos \in 1 .. Len(Code("enter_key"))
    BY <1>2, CallThere
  <2>3. /\ CallOf(f) = "shutdown_lock" <=> f.pos = LockPos
        /\ CallOf(f) = "shutdown_write" <=> f.pos = WritePos
    BY <1>2, <2>2, EnterFacts DEF CallOf
  <2>4. /\ LockPos \in Nat /\ WritePos \in Nat /\ LockPos < WritePos
        /\ f.pos \in Nat
    BY <2>2, EnterFacts
  <2>5. /\ InShutdown(f) <=> f.pos > LockPos /\ f.pos <= WritePos
        /\ InShutdown(Advance(f)) <=> f.pos + 1 > LockPos /\ f.pos + 1 <= WritePos
    BY <1>2, <2>1 DEF InShutdown
  <2> QED BY <2>3, <2>4, <2>5
<1> QED BY <1>1, <1>2

----------------------------------------------------------------------------
(* What the instructions do *)

LEMMA CallHere ==
    ASSUME StacksInv, NEW a, InCall(a)
    PROVE  /\ Here \in FrameType /\ ~Ended(Here) /\ Here.at = a
           /\ TheCall = CallOf(Here) /\ TheCall \in Calls /\ TheCall \in CallsIn(Here.code)
           /\ Here.pos \in 1 .. Len(Code(Here.code))
BY OnTop, CallThere DEF InCall, At, TheCall, CallOf

\* After Advance a frame is in order where the frame was.
LEMMA AdvanceOK ==
    ASSUME NEW f \in FrameType, NEW k \in Nat, k >= 1, k <= 4, FrameOK(f, k), ~Ended(f)
    PROVE  /\ FrameOK(Advance(f), k) /\ (Enables(Advance(f), k) <=> k = 1)
           /\ Advance(f).code = f.code /\ Advance(f).flags = f.flags
           /\ Advance(f).at = "call"
<1>1. /\ Advance(f) \in FrameType /\ Advance(f).at = "call"
      /\ Advance(f).pos <= Len(Code(f.code)) + 1
      /\ Advance(f).code = f.code /\ Advance(f).flags = f.flags
  BY FrameAdvance
<1>2. k = 1 <=> f.code \in ThreadCodes
  BY DEF FrameOK
<1>3. k >= 3 => f.code \in ExceptionCodes
  BY DEF FrameOK
<1> QED BY <1>1, <1>2, <1>3 DEF FrameOK, Enables, InMasked

\* The end of a call.
LEMMA CallEnds ==
    ASSUME StacksInv, LocksInv, InCall("work"), Release, Goto(Done(Here)),
           cpu' = cpu, IF_flag' = IF_flag
    PROVE  /\ StacksInv' /\ LocksInv' /\ Replaced(Done(Here))
           /\ Done(Here).code = Here.code
           /\ Done(Here).at \in {"call", "unmask"} /\ Here.at = "work"
           /\ TheCall # "end_interrupts" => (Unended(Here) => Unended(Done(Here)))
<1> DEFINE f == Here
           g == Done(Here)
<1>1. /\ f \in FrameType /\ ~Ended(f) /\ f.at = "work" /\ TheCall = CallOf(f) /\ TheCall \in Calls
      /\ f.pos \in 1 .. Len(Code(f.code))
  BY CallHere
<1>2. FrameOK(f, Depth) /\ Depth \in Nat /\ Depth >= 1 /\ Depth <= 4
  BY OnTop
<1>3. IF_flag = Enables(f, Depth)
  BY DEF StacksInv, Depth
<1>4. /\ FrameOK(g, Depth) /\ g.code = f.code /\ g.flags = f.flags
      /\ Enables(g, Depth) = Enables(f, Depth) /\ g.at \in {"call", "unmask"}
  <2>1. CASE Masks(TheCall)
    <3>1. g = [f EXCEPT !.at = "unmask"]
      BY <2>1 DEF Done
    <3>2. /\ g \in FrameType /\ g.at = "unmask" /\ g.code = f.code /\ g.pos = f.pos
          /\ g.was = f.was /\ g.flags = f.flags
      BY <1>1, <3>1, FrameAt DEF Stages
    <3> HIDE DEF f, g
    <3>3. Masks(CallOf(g)) /\ CallOf(g) = CallOf(f) /\ ~Ended(g) /\ InMasked(f)
      BY <1>1, <2>1, <3>2 DEF CallOf, Ended, InMasked
    <3>4. FrameOK(g, Depth)
      BY <1>1, <1>2, <3>2, <3>3 DEF FrameOK
    <3>5. Enables(g, Depth) = FALSE /\ Enables(f, Depth) = FALSE
      BY <3>2, <3>3 DEF Enables
    <3> QED BY <3>2, <3>4, <3>5
  <2>2. CASE ~Masks(TheCall)
    <3>1. g = Advance(f)
      BY <2>2 DEF Done
    <3> HIDE DEF f, g
    <3>2. /\ FrameOK(g, Depth) /\ (Enables(g, Depth) <=> Depth = 1) /\ g.code = f.code
          /\ g.flags = f.flags /\ g.at = "call"
      BY <1>1, <1>2, <3>1, AdvanceOK
    <3>3. Enables(f, Depth) <=> Depth = 1
      BY <1>1, <2>2 DEF Enables, InMasked
    <3>4. Enables(g, Depth) = Enables(f, Depth)
      BY <3>2, <3>3 DEF Enables
    <3> QED BY <3>2, <3>4
  <2> QED BY <2>1, <2>2
<1>5. StacksInv' /\ Replaced(g)
  <2> HIDE DEF f, g
  <2>1. IF_flag' = Enables(g, Depth)
    BY <1>3, <1>4
  <2> QED BY <1>4, <2>1, StacksReplaced DEF f, g
<1>6. TheCall # "end_interrupts" => (Unended(f) => Unended(g))
  <2>1. CASE Masks(TheCall)
    <3>1. g = [f EXCEPT !.at = "unmask"]
      BY <2>1 DEF Done
    <3>2. g.code = f.code /\ g.pos = f.pos
      BY <1>1, <3>1, FrameAt DEF Stages
    <3> QED BY <3>2 DEF Unended
  <2>2. CASE ~Masks(TheCall)
    <3>1. g = Advance(f)
      BY <2>2 DEF Done
    <3> QED BY <1>1, <3>1, UnendedAdvance
  <2> QED BY <2>1, <2>2
<1>7. lock' \in [Locks -> {None, cpu}]
  BY DEF Release, LocksInv
<1>8. \A l \in Locks : lock'[l] = IF l \in Releases(CallOf(f)) THEN None ELSE lock[l]
  BY <1>1 DEF Release
<1>9. \A l \in Locks :
         \/ lock'[l] = lock[l] /\ (Holds(g, l) <=> Holds(f, l))
         \/ lock'[l] = None /\ Holds(f, l) /\ ~Holds(g, l)
  <2>0. CallOf(f) \in Calls
    BY <1>1
  <2>1. CASE Masks(TheCall)
    <3>1. g = [f EXCEPT !.at = "unmask"]
      BY <2>1 DEF Done
    <3>2. g.code = f.code /\ g.pos = f.pos /\ g.at = "unmask"
      BY <1>1, <3>1, FrameAt DEF Stages
    <3>3. CallOf(f) \notin {"shutdown_lock", "shutdown_write"}
      BY <1>1, <2>1 DEF Masks
    <3>4. Releases(CallOf(f)) = Takes(CallOf(f)) /\ "ACPI_SHUTDOWN" \notin Takes(CallOf(f))
      BY <2>0, <3>3, LocksOfCalls
    <3> HIDE DEF f, g
    <3>5. InShutdown(g) <=> InShutdown(f)
      BY <3>2 DEF InShutdown
    <3>6. \A l \in Locks : /\ Holds(g, l) <=> l = "ACPI_SHUTDOWN" /\ InShutdown(f)
                           /\ Holds(f, l) <=> l \in Takes(CallOf(f))
                                              \/ (l = "ACPI_SHUTDOWN" /\ InShutdown(f))
      BY <1>1, <3>2, <3>5 DEF Holds
    <3> QED BY <1>8, <3>4, <3>6
  <2>2. CASE ~Masks(TheCall)
    <3>1. g = Advance(f)
      BY <2>2 DEF Done
    <3> HIDE DEF f, g
    <3>2. g.at = "call"
      BY <1>1, <3>1, FrameAdvance
    <3>3. \A l \in Locks : /\ Holds(g, l) <=> l = "ACPI_SHUTDOWN" /\ InShutdown(g)
                           /\ Holds(f, l) <=> l \in Takes(CallOf(f))
                                              \/ (l = "ACPI_SHUTDOWN" /\ InShutdown(f))
      BY <1>1, <3>2 DEF Holds
    <3>4. CASE CallOf(f) \notin {"shutdown_lock", "shutdown_write"}
      <4>1. InShutdown(g) <=> InShutdown(f)
        BY <1>1, <3>1, <3>4, ShutdownAdvance
      <4>2. Releases(CallOf(f)) = Takes(CallOf(f)) /\ "ACPI_SHUTDOWN" \notin Takes(CallOf(f))
        BY <2>0, <3>4, LocksOfCalls
      <4> QED BY <1>8, <3>3, <4>1, <4>2
    <3>5. CASE CallOf(f) = "shutdown_lock"
      <4>1. InShutdown(g)
        BY <1>1, <3>1, <3>5, ShutdownAdvance
      <4>2. Releases(CallOf(f)) = {} /\ Takes(CallOf(f)) = {"ACPI_SHUTDOWN"}
        BY <2>0, <3>5, LocksOfCalls
      <4> QED BY <1>8, <3>3, <4>1, <4>2
    <3>6. CASE CallOf(f) = "shutdown_write"
      <4>1. InShutdown(f) /\ ~InShutdown(g)
        BY <1>1, <3>1, <3>6, ShutdownAdvance
      <4>2. Releases(CallOf(f)) = {"ACPI_SHUTDOWN"} /\ Takes(CallOf(f)) = {}
        BY <2>0, <3>6, LocksOfCalls
      <4> QED BY <1>8, <3>3, <4>1, <4>2
    <3> QED BY <3>4, <3>5, <3>6
  <2> QED BY <2>1, <2>2
<1>10. LocksInv'
  <2> HIDE DEF g
  <2> QED BY <1>5, <1>7, <1>9, LocksReplaced
<1> QED BY <1>1, <1>4, <1>5, <1>6, <1>10

LEMMA TableKept == TableInv /\ UNCHANGED tableVars => TableInv'
BY DEF TableInv, tableVars

\* enable_interrupts and thread_trampoline: the first instruction of a thread.
LEMMA EntryStep ==
    ASSUME KernelInv, At("entry"), IF_flag' = TRUE, Goto([Here EXCEPT !.at = "call"]),
           UNCHANGED <<cpu, tableVars, lock, apicVars>>
    PROVE  KernelInv'
<1> DEFINE f == Here
           g == [Here EXCEPT !.at = "call"]
<1>0. StacksInv /\ ServiceInv /\ LocksInv /\ TableInv /\ SwitchInv
  BY DEF KernelInv
<1>1. f \in FrameType /\ FrameOK(f, Depth) /\ f.at = "entry"
  BY <1>0, OnTop DEF At
<1>2. /\ g \in FrameType /\ g.at = "call" /\ g.code = f.code /\ g.pos = f.pos
      /\ g.flags = f.flags
  BY <1>1, FrameAt DEF Stages
<1> HIDE DEF f, g
<1>3. Depth = 1 /\ f.code \in ThreadCodes /\ f.pos <= Len(Code(f.code)) + 1
  BY <1>1 DEF FrameOK
<1>4. FrameOK(g, Depth) /\ Enables(g, Depth)
  BY <1>2, <1>3 DEF FrameOK, Enables, InMasked
<1>5. StacksInv' /\ Replaced(g)
  <2>1. IF_flag' = Enables(g, Depth)
    BY <1>4 DEF Enables
  <2> QED BY <1>0, <1>2, <1>4, <2>1, StacksReplaced DEF f, g
<1>6. ServiceInv'
  <2>1. Unended(f) => Unended(g)
    BY <1>2 DEF Unended
  <2> QED BY <1>0, <1>2, <1>5, <2>1, ServiceReplaced DEF f, apicVars
<1>7. LocksInv'
  <2>1. \A l \in Locks : Holds(g, l) <=> Holds(f, l)
    BY <1>1, <1>2 DEF Holds, InShutdown
  <2>2. lock' \in [Locks -> {None, cpu}] /\ lock' = lock
    BY <1>0 DEF LocksInv
  <2> QED BY <1>0, <1>5, <2>1, <2>2, LocksReplaced DEF f
<1>8. TableInv'
  BY <1>0, TableKept
<1>9. SwitchInv'
  BY <1>0, <1>1, <1>2, <1>5, SwitchReplaced DEF f, tableVars
<1> QED BY <1>5, <1>6, <1>7, <1>8, <1>9 DEF KernelInv

LEMMA MaskStep ==
    ASSUME KernelInv, without_interrupts
    PROVE  KernelInv'
<1> DEFINE f == Here
           g == [Here EXCEPT !.at = "lock", !.was = IF_flag]
<1>0. StacksInv /\ ServiceInv /\ LocksInv /\ TableInv /\ SwitchInv
  BY DEF KernelInv
<1>1. /\ InCall("call") /\ Masks(TheCall) /\ IF_flag' = FALSE /\ Goto(g)
      /\ UNCHANGED <<cpu, tableVars, lock, apicVars>>
  BY DEF without_interrupts
<1>2. f \in FrameType /\ FrameOK(f, Depth) /\ f.at = "call" /\ ~Ended(f) /\ Masks(CallOf(f))
  BY <1>0, <1>1, OnTop, CallHere
<1>3. IF_flag \in BOOLEAN /\ IF_flag = Enables(f, Depth)
  BY <1>0 DEF StacksInv, Depth
<1>4. /\ g \in FrameType /\ g.at = "lock" /\ g.was = IF_flag /\ g.code = f.code /\ g.pos = f.pos
      /\ g.flags = f.flags
  <2>1. "lock" \in Stages /\ f \in FrameType /\ IF_flag \in BOOLEAN
    BY <1>2, <1>3 DEF Stages
  <2>2. g = [f EXCEPT !.at = "lock", !.was = IF_flag]
    OBVIOUS
  <2> HIDE DEF f, g
  <2>3. g \in FrameType
    BY <2>1, <2>2 DEF FrameType
  <2>4. g.at = "lock" /\ g.code = f.code /\ g.pos = f.pos /\ g.flags = f.flags
    BY <2>1, <2>2 DEF FrameType
  <2>5. g.was = IF_flag
    BY <2>1, <2>2 DEF FrameType
  <2> QED BY <2>3, <2>4, <2>5
<1> HIDE DEF f, g
<1>5. IF_flag = (Depth = 1)
  BY <1>2, <1>3 DEF Enables, InMasked
<1>6. FrameOK(g, Depth) /\ ~Enables(g, Depth)
  <2>1. CallOf(g) = CallOf(f) /\ ~Ended(g)
    BY <1>2, <1>4 DEF CallOf, Ended
  <2> QED BY <1>2, <1>4, <1>5, <2>1 DEF FrameOK, Enables, InMasked
<1>7. StacksInv' /\ Replaced(g)
  <2>1. IF_flag' = Enables(g, Depth)
    BY <1>1, <1>6 DEF Enables
  <2> QED BY <1>0, <1>1, <1>4, <1>6, <2>1, StacksReplaced DEF f
<1>8. ServiceInv'
  <2>1. Unended(f) => Unended(g)
    BY <1>4 DEF Unended
  <2> QED BY <1>0, <1>1, <1>4, <1>7, <2>1, ServiceReplaced DEF f, apicVars
<1>9. LocksInv'
  <2>1. \A l \in Locks : Holds(g, l) <=> Holds(f, l)
    BY <1>2, <1>4 DEF Holds, InShutdown
  <2>2. lock' \in [Locks -> {None, cpu}] /\ lock' = lock
    BY <1>0, <1>1 DEF LocksInv
  <2> QED BY <1>0, <1>7, <2>1, <2>2, LocksReplaced DEF f
<1>10. TableInv'
  BY <1>0, <1>1, TableKept
<1>11. SwitchInv'
  BY <1>0, <1>1, <1>2, <1>4, <1>7, SwitchReplaced DEF f, tableVars
<1> QED BY <1>7, <1>8, <1>9, <1>10, <1>11 DEF KernelInv

LEMMA AcquireStep ==
    ASSUME KernelInv, acquire
    PROVE  KernelInv'
<1> DEFINE f == Here
           g == [Here EXCEPT !.at = "work"]
<1>0. StacksInv /\ ServiceInv /\ LocksInv /\ TableInv /\ SwitchInv
  BY DEF KernelInv
<1>1. /\ InCall("lock") \/ (InCall("call") /\ ~Masks(TheCall))
      /\ \A l \in Takes(TheCall) : lock[l] = None
      /\ lock' = [l \in Locks |-> IF l \in Takes(TheCall) THEN cpu ELSE lock[l]]
      /\ Goto(g)
      /\ UNCHANGED <<IF_flag, cpu, tableVars, apicVars>>
  BY DEF acquire
<1>2. /\ f \in FrameType /\ FrameOK(f, Depth) /\ ~Ended(f) /\ TheCall = CallOf(f)
      /\ CallOf(f) \in Calls
      /\ f.at = "lock" \/ (f.at = "call" /\ ~Masks(CallOf(f)))
  BY <1>0, <1>1, OnTop, CallHere
<1>3. /\ g \in FrameType /\ g.at = "work" /\ g.was = f.was /\ g.code = f.code /\ g.pos = f.pos
      /\ g.flags = f.flags
  BY <1>2, FrameAt DEF Stages
<1>4. IF_flag = Enables(f, Depth)
  BY <1>0 DEF StacksInv, Depth
<1> HIDE DEF f, g
<1>5. CallOf(g) = CallOf(f) /\ ~Ended(g)
  BY <1>2, <1>3 DEF CallOf, Ended
<1>6. FrameOK(g, Depth)
  BY <1>2, <1>3, <1>5 DEF FrameOK, InMasked
<1>7. Enables(g, Depth) = Enables(f, Depth)
  <2>1. f.at = "lock" => Masks(CallOf(f))
    BY <1>2 DEF FrameOK
  <2> QED BY <1>2, <1>3, <1>5, <2>1 DEF Enables, InMasked
<1>8. StacksInv' /\ Replaced(g)
  BY <1>0, <1>1, <1>3, <1>4, <1>6, <1>7, StacksReplaced DEF f
<1>9. ServiceInv'
  <2>1. Unended(f) => Unended(g)
    BY <1>3 DEF Unended
  <2> QED BY <1>0, <1>1, <1>3, <1>8, <2>1, ServiceReplaced DEF f, apicVars
<1>10. LocksInv'
  <2>1. lock' \in [Locks -> {None, cpu}]
    BY <1>0, <1>1 DEF LocksInv
  <2>2. \A l \in Locks : lock'[l] = IF l \in Takes(CallOf(f)) THEN cpu ELSE lock[l]
    BY <1>1, <1>2
  <2>3. \A l \in Locks : Holds(g, l) <=> l \in Takes(CallOf(f)) \/ Holds(f, l)
    BY <1>2, <1>3, <1>5 DEF Holds, InShutdown
  <2>4. \A l \in Takes(CallOf(f)) : lock[l] = None
    BY <1>1, <1>2
  <2> QED BY <1>0, <1>8, <2>1, <2>2, <2>3, <2>4, LocksReplaced DEF f
<1>11. TableInv'
  BY <1>0, <1>1, TableKept
<1>12. SwitchInv'
  BY <1>0, <1>1, <1>2, <1>3, <1>8, SwitchReplaced DEF f, tableVars
<1> QED BY <1>8, <1>9, <1>10, <1>11, <1>12 DEF KernelInv

LEMMA RestoreStep ==
    ASSUME KernelInv, restore_interrupts
    PROVE  KernelInv'
<1> DEFINE f == Here
           g == Advance(Here)
<1>0. StacksInv /\ ServiceInv /\ LocksInv /\ TableInv /\ SwitchInv
  BY DEF KernelInv
<1>1. /\ InCall("unmask") /\ IF_flag' = f.was /\ Goto(g)
      /\ UNCHANGED <<cpu, tableVars, lock, apicVars>>
  BY DEF restore_interrupts
<1>2. /\ f \in FrameType /\ FrameOK(f, Depth) /\ ~Ended(f) /\ f.at = "unmask"
      /\ Depth \in Nat /\ Depth >= 1 /\ Depth <= 4
  BY <1>0, <1>1, OnTop, CallHere
<1>3. Masks(CallOf(f)) /\ f.was = (Depth = 1)
  BY <1>2 DEF FrameOK, InMasked
<1>4. CallOf(f) \notin {"shutdown_lock", "shutdown_write", "end_interrupts"}
  BY <1>3 DEF Masks
<1>5. /\ FrameOK(g, Depth) /\ (Enables(g, Depth) <=> Depth = 1) /\ g.code = f.code
      /\ g.flags = f.flags /\ g.at = "call"
  BY <1>2, AdvanceOK
<1>6. Unended(f) => Unended(g)
  BY <1>2, <1>4, UnendedAdvance
<1>7. InShutdown(g) <=> InShutdown(f)
  BY <1>2, <1>4, ShutdownAdvance
<1> HIDE DEF f, g
<1>8. StacksInv' /\ Replaced(g)
  <2>1. IF_flag' = Enables(g, Depth)
    BY <1>1, <1>3, <1>5 DEF Enables
  <2> QED BY <1>0, <1>1, <1>5, <2>1, StacksReplaced DEF f
<1>9. ServiceInv'
  BY <1>0, <1>1, <1>5, <1>6, <1>8, ServiceReplaced DEF f, apicVars
<1>10. LocksInv'
  <2>1. \A l \in Locks : Holds(g, l) <=> Holds(f, l)
    BY <1>2, <1>5, <1>7 DEF Holds
  <2>2. lock' \in [Locks -> {None, cpu}] /\ lock' = lock
    BY <1>0, <1>1 DEF LocksInv
  <2> QED BY <1>0, <1>8, <2>1, <2>2, LocksReplaced DEF f
<1>11. TableInv'
  BY <1>0, <1>1, TableKept
<1>12. SwitchInv'
  BY <1>0, <1>1, <1>2, <1>5, <1>8, SwitchReplaced DEF f, tableVars
<1> QED BY <1>8, <1>9, <1>10, <1>11, <1>12 DEF KernelInv

\* print, current_pid, current_tid and shutdown: only the call ends.
LEMMA EndStep ==
    ASSUME KernelInv, InCall("work"), TheCall # "end_interrupts", Release, Goto(Done(Here)),
           UNCHANGED <<IF_flag, cpu, tableVars, irr, isr>>
    PROVE  KernelInv'
<1> DEFINE g == Done(Here)
<1>0. StacksInv /\ ServiceInv /\ LocksInv /\ TableInv /\ SwitchInv
  BY DEF KernelInv
<1>1. /\ StacksInv' /\ LocksInv' /\ Replaced(g) /\ g.code = Here.code
      /\ g.at \in {"call", "unmask"} /\ Here.at = "work" /\ (Unended(Here) => Unended(g))
  BY <1>0, CallEnds
<1> HIDE DEF g
<1>2. ServiceInv'
  BY <1>0, <1>1, ServiceReplaced
<1>3. TableInv'
  BY <1>0, TableKept
<1>4. SwitchInv'
  BY <1>0, <1>1, SwitchReplaced DEF tableVars
<1> QED BY <1>1, <1>2, <1>3, <1>4 DEF KernelInv

\* The one interrupt in service is ended.
LEMMA EoiStep ==
    ASSUME KernelInv, end_interrupts
    PROVE  KernelInv'
<1> DEFINE g == Done(Here)
<1>0. StacksInv /\ ServiceInv /\ LocksInv /\ TableInv /\ SwitchInv
  BY DEF KernelInv
<1>1. /\ InCall("work") /\ Release /\ Goto(g) /\ isr' = {v \in isr : \E w \in isr : v < w}
      /\ UNCHANGED <<IF_flag, cpu, tableVars, irr>>
  BY DEF end_interrupts, Working
<1>2. /\ StacksInv' /\ LocksInv' /\ Replaced(g) /\ g.code = Here.code
      /\ g.at \in {"call", "unmask"} /\ Here.at = "work"
  BY <1>0, <1>1, CallEnds
<1> HIDE DEF g
<1>3. isr' = {}
  <2>1. \A v, w \in isr : v = w /\ v \in Int
    BY <1>0 DEF ServiceInv, Vectors, Timer, Keyboard, LapicError, Spurious
  <2> QED BY <1>1, <2>1
<1>4. ServiceInv'
  BY <1>0, <1>1, <1>3 DEF ServiceInv
<1>5. TableInv'
  BY <1>0, <1>1, TableKept
<1>6. SwitchInv'
  BY <1>0, <1>1, <1>2, SwitchReplaced DEF tableVars
<1> QED BY <1>2, <1>4, <1>5, <1>6 DEF KernelInv

----------------------------------------------------------------------------
(* Entry to a handler and the return from it *)

LEMMA PushStep ==
    ASSUME KernelInv, NEW c \in DeviceCodes \cup ExceptionCodes, NEW b \in BOOLEAN, b = IF_flag,
           c \in DeviceCodes => b,
           \A k \in 1 .. Depth : stack[cpu][k].code # c,
           stack' = [stack EXCEPT ![cpu] = Append(@, Frame(c, "call", b))],
           IF_flag' = FALSE,
           UNCHANGED <<cpu, tableVars, lock>>
    PROVE  /\ StacksInv' /\ LocksInv' /\ TableInv' /\ SwitchInv'
           /\ Len(stack'[cpu]) = Depth + 1 /\ stack'[cpu][Depth + 1] = Frame(c, "call", b)
           /\ \A k \in 1 .. Depth : stack'[cpu][k] = stack[cpu][k]
<1> DEFINE g == Frame(c, "call", b)
           n == Depth
           s == stack[cpu]
           z == Append(s, g)
<1>0. StacksInv /\ ServiceInv /\ LocksInv /\ TableInv /\ SwitchInv
  BY DEF KernelInv
<1>1. /\ cpu \in Tids /\ StackOK(s) /\ n \in Nat /\ n >= 1 /\ n <= 4 /\ Len(s) = n
      /\ stack \in [Tids -> Seq(FrameType)] /\ Here = s[n]
  BY <1>0, OnTop DEF StacksInv, Depth
<1>2. g \in FrameType /\ g.code = c /\ g.pos = 1 /\ g.at = "call" /\ g.flags = b
  BY NewFrame DEF Codes, Stages
<1>3. stack'[cpu] = z /\ \A t \in Tids : t # cpu => stack'[t] = stack[t]
  BY <1>1
<1>4. b = Enables(s[n], n)
  BY <1>0, <1>1 DEF StacksInv
<1>5. c \in DeviceCodes => n = 1
  BY <1>4 DEF Enables
<1>6. n < 4
  <2> SUFFICES ASSUME n = 4 PROVE FALSE
    BY <1>1
  <2>1. s[3].code \in ExceptionCodes /\ s[4].code \in ExceptionCodes /\ s[3].code # s[4].code
    <3>1. 3 \in 1 .. n /\ 4 \in 1 .. n
      OBVIOUS
    <3>2. FrameOK(s[3], 3) /\ FrameOK(s[4], 4)
      BY <1>1, <3>1 DEF StackOK
    <3>3. s[3].code # s[4].code
      BY <1>1, <3>1 DEF StackOK
    <3> QED BY <3>2, <3>3 DEF FrameOK
  <2>2. c \in ExceptionCodes
    BY <1>5
  <2>3. s[3].code # c /\ s[4].code # c
    OBVIOUS
  <2> QED BY <2>1, <2>2, <2>3 DEF ExceptionCodes
<1>7. c \notin ThreadCodes
  BY DEF ThreadCodes, DeviceCodes, ExceptionCodes
<1>8. FrameOK(g, n + 1) /\ ~Enables(g, n + 1)
  <2> HIDE DEF g, n
  <2>1. n + 1 # 1 /\ (n + 1 >= 3 => c \in ExceptionCodes)
    BY <1>1, <1>5
  <2>2. g.pos <= Len(Code(g.code)) + 1
    <3>1. Len(Code(c)) \in Nat
      BY CodeFacts DEF Codes
    <3> QED BY <1>2, <3>1
  <2> QED BY <1>2, <1>7, <2>1, <2>2 DEF FrameOK, Enables, InMasked
<1>9. MayEnter(g, s)
  BY <1>1, <1>2, <1>4, <1>6, <1>8 DEF MayEnter
<1> HIDE DEF g
<1>10. /\ StackOK(z) /\ Len(z) = n + 1 /\ z[n + 1] = g
       /\ \A k \in 1 .. n : z[k] = s[k]
  BY <1>1, <1>9, Pushed DEF Extends
<1>11. StacksInv'
  <2>1. stack' = [stack EXCEPT ![cpu] = z]
    BY DEF g
  <2> HIDE DEF z, n
  <2>2. stack' \in [Tids -> Seq(FrameType)]
    BY <1>1, <1>10, <2>1 DEF StackOK
  <2>3. \A t \in Tids : StackOK(stack'[t])
    BY <1>0, <1>3, <1>10 DEF StacksInv
  <2>4. Here' = g
    BY <1>3, <1>10 DEF Here, Top
  <2>5. IF_flag' = Enables(Here', Len(stack'[cpu'])) /\ IF_flag' \in BOOLEAN
    BY <1>3, <1>8, <1>10, <2>4 DEF Enables
  <2> QED BY <1>1, <2>2, <2>3, <2>5 DEF StacksInv
<1>12. \A k \in 1 .. (n + 1) : k \in 1 .. n \/ k = n + 1
  BY <1>1
<1>13. LocksInv'
  <2>1. \A l \in Locks : ~Holds(g, l)
    BY <1>2, EnterFacts DEF Holds, InShutdown
  <2>2. \A l \in Locks : /\ lock[l] = cpu <=> \E k \in 1 .. n : Holds(s[k], l)
                         /\ \A j, k \in 1 .. n : Holds(s[j], l) /\ Holds(s[k], l) => j = k
    BY <1>0 DEF LocksInv, Depth
  <2> HIDE DEF z, n, s
  <2>3. \A l \in Locks :
           /\ lock[l] = cpu <=> \E k \in 1 .. (n + 1) : Holds(z[k], l)
           /\ \A j, k \in 1 .. (n + 1) : Holds(z[j], l) /\ Holds(z[k], l) => j = k
    <3>1. \A k \in 1 .. n : k \in 1 .. (n + 1)
      BY <1>1
    <3> QED BY <1>10, <1>12, <2>1, <2>2, <3>1
  <2> QED BY <1>0, <1>3, <1>10, <2>3 DEF LocksInv
<1>14. TableInv'
  BY <1>0, TableKept
<1>15. SwitchInv'
  <2> HIDE DEF z
  <2>1. n + 1 \in 1 .. (n + 1) /\ 1 \in 1 .. n /\ \A k \in 1 .. n : k \in 1 .. (n + 1)
    BY <1>1
  <2>2. Switching(z) <=> Switching(s)
    BY <1>2, <1>10, <1>12, <2>1, <1>1 DEF Switching
  <2>3. \A k \in 1 .. n : /\ s[k].at # "away"
                          /\ s[k].at = "switch" => /\ s[k].old = cpu /\ s[k].new = current
                                                   /\ current # cpu /\ s[1].at = "call"
    BY <1>0 DEF SwitchInv, Depth
  <2>4. \A k \in 1 .. (n + 1) :
           /\ z[k].at # "away"
           /\ z[k].at = "switch" => /\ z[k].old = cpu /\ z[k].new = current
                                    /\ current # cpu /\ z[1].at = "call"
    <3> HIDE DEF n, s
    <3> QED BY <1>2, <1>10, <1>12, <2>1, <2>3
  <2>5. cpu' = cpu /\ threads' = threads /\ current' = current
    BY DEF tableVars
  <2> QED BY <1>0, <1>3, <1>10, <2>2, <2>4, <2>5 DEF SwitchInv
<1> QED BY <1>3, <1>10, <1>11, <1>13, <1>14, <1>15 DEF g

LEMMA InterruptStep ==
    ASSUME KernelInv, NEW v \in Vectors, interrupt(v)
    PROVE  KernelInv'
<1> DEFINE c == Handler(v)
<1>0. StacksInv /\ ServiceInv
  BY DEF KernelInv
<1>1. /\ IF_flag /\ IF_flag' = FALSE
      /\ stack' = [stack EXCEPT ![cpu] = Append(@, Frame(c, "call", TRUE))]
      /\ irr' = irr \ {v} /\ isr' = IF v = Spurious THEN isr ELSE isr \cup {v}
      /\ UNCHANGED <<cpu, tableVars, lock>>
  BY DEF interrupt
<1>2. IF_flag = TRUE
  BY <1>0, <1>1 DEF StacksInv
<1>3. Depth = 1 /\ 1 \in 1 .. Depth
  <2>1. Enables(Here, Depth)
    BY <1>0, <1>1 DEF StacksInv, Depth
  <2>2. Depth = 1
    BY <2>1 DEF Enables
  <2> QED BY <2>2
<1>4. c \in DeviceCodes /\ (v # Spurious => c \in Acknowledging)
  BY DEF Vectors, Timer, Keyboard, LapicError, Spurious, Handler, DeviceCodes, Acknowledging
<1>5. \A k \in 1 .. Depth : stack[cpu][k].code # c
  <2>1. FrameOK(stack[cpu][1], 1)
    BY <1>0, <1>3, OnTop DEF StackOK, Depth
  <2>2. stack[cpu][1].code \in ThreadCodes
    BY <2>1 DEF FrameOK
  <2> QED BY <1>3, <1>4, <2>2 DEF ThreadCodes, DeviceCodes
<1> HIDE DEF c
<1>6. /\ StacksInv' /\ LocksInv' /\ TableInv' /\ SwitchInv'
      /\ Len(stack'[cpu]) = Depth + 1 /\ stack'[cpu][Depth + 1] = Frame(c, "call", TRUE)
  BY <1>1, <1>2, <1>4, <1>5, PushStep
<1>7. isr = {}
  BY <1>0, <1>3 DEF ServiceInv, Depth
<1>8. ServiceInv'
  <2>1. irr' \subseteq Vectors /\ isr' \subseteq Vectors /\ \A x, y \in isr' : x = y
    BY <1>0, <1>1, <1>7 DEF ServiceInv
  <2>2. Len(stack'[cpu']) >= 2 /\ stack'[cpu'][2] = Frame(c, "call", TRUE)
    <3>1. Depth + 1 = 2 /\ cpu' = cpu
      BY <1>1, <1>3
    <3>2. Len(stack'[cpu]) = 2 /\ stack'[cpu][2] = Frame(c, "call", TRUE)
      BY <1>6, <3>1
    <3> QED BY <3>1, <3>2
  <2>3. ASSUME isr' # {}
        PROVE  Unended(stack'[cpu'][2])
    <3>1. c \in Acknowledging
      BY <1>1, <1>4, <1>7, <2>3
    <3>2. EoiPos(c) \in Int /\ 1 <= EoiPos(c)
      BY <3>1, EoiFacts
    <3>3. Frame(c, "call", TRUE).code = c /\ Frame(c, "call", TRUE).pos = 1
      BY DEF Frame
    <3> QED BY <2>2, <3>1, <3>2, <3>3 DEF Unended
  <2> QED BY <2>1, <2>2, <2>3 DEF ServiceInv
<1> QED BY <1>6, <1>8 DEF KernelInv

LEMMA ExceptionStep ==
    ASSUME KernelInv, NEW v \in Exceptions, exception(v)
    PROVE  KernelInv'
<1> DEFINE c == ExceptionHandler(v)
<1>0. StacksInv /\ ServiceInv
  BY DEF KernelInv
<1>1. /\ \A k \in 1 .. Depth : stack[cpu][k].code # c
      /\ IF_flag' = FALSE
      /\ stack' = [stack EXCEPT ![cpu] = Append(@, Frame(c, "call", IF_flag))]
      /\ UNCHANGED <<cpu, tableVars, lock, apicVars>>
  BY DEF exception, Depth
<1>2. IF_flag \in BOOLEAN
  BY <1>0 DEF StacksInv
<1>3. c \in ExceptionCodes
  BY DEF ExceptionHandler, ExceptionCodes
<1>4. c \notin DeviceCodes
  BY <1>3 DEF ExceptionCodes, DeviceCodes
<1> HIDE DEF c
<1>5. /\ StacksInv' /\ LocksInv' /\ TableInv' /\ SwitchInv'
      /\ Len(stack'[cpu]) = Depth + 1
      /\ \A k \in 1 .. Depth : stack'[cpu][k] = stack[cpu][k]
  BY <1>1, <1>2, <1>3, <1>4, PushStep
<1>6. ServiceInv'
  <2>1. isr # {} => 2 \in 1 .. Depth
    BY <1>0, OnTop DEF ServiceInv, Depth
  <2>2. Depth \in Nat
    BY <1>0, OnTop
  <2>3. isr # {} => Len(stack'[cpu]) >= 2 /\ Unended(stack'[cpu][2])
    BY <1>0, <1>5, <2>1, <2>2 DEF ServiceInv
  <2> QED BY <1>0, <1>1, <2>3 DEF ServiceInv, apicVars
<1> QED BY <1>5, <1>6 DEF KernelInv

LEMMA IretStep ==
    ASSUME KernelInv, iret
    PROVE  KernelInv'
<1> DEFINE n == Depth
           s == stack[cpu]
           z == SubSeq(s, 1, n - 1)
<1>0. StacksInv /\ ServiceInv /\ LocksInv /\ TableInv /\ SwitchInv
  BY DEF KernelInv
<1>1. /\ Here.at = "call" /\ n > 1 /\ Ended(Here) /\ IF_flag' = Here.flags
      /\ stack' = [stack EXCEPT ![cpu] = z]
      /\ UNCHANGED <<cpu, tableVars, lock, apicVars>>
  BY DEF iret, At, Depth
<1>2. /\ cpu \in Tids /\ StackOK(s) /\ n \in Nat /\ n <= 4 /\ Len(s) = n
      /\ stack \in [Tids -> Seq(FrameType)] /\ Here = s[n] /\ Here \in FrameType
      /\ Here.code \in Codes
  BY <1>0, OnTop DEF StacksInv, Depth
<1>3. stack'[cpu] = z /\ \A t \in Tids : t # cpu => stack'[t] = stack[t]
  BY <1>1, <1>2
<1>4. StackOK(z) /\ Len(z) = n - 1 /\ \A k \in 1 .. (n - 1) : z[k] = s[k]
  BY <1>1, <1>2, Popped
<1>5. Here.pos \in Int /\ Here.pos > Len(Code(Here.code))
  <2>1. Here.pos \in 1 .. 6
    BY <1>2 DEF FrameType
  <2> QED BY <1>1, <2>1 DEF Ended
<1> HIDE DEF z
<1>6. StacksInv'
  <2>1. stack' \in [Tids -> Seq(FrameType)]
    BY <1>1, <1>2, <1>4 DEF StackOK
  <2>2. \A t \in Tids : StackOK(stack'[t])
    BY <1>0, <1>3, <1>4 DEF StacksInv
  <2>3. n \in 2 .. Len(s) /\ n - 1 \in 1 .. (n - 1)
    BY <1>1, <1>2
  <2>4. Here' = s[n - 1] /\ Len(stack'[cpu']) = n - 1
    BY <1>1, <1>3, <1>4, <2>3 DEF Here, Top
  <2>5. Here.flags = Enables(s[n - 1], n - 1)
    BY <1>2, <2>3 DEF StackOK
  <2>6. IF_flag' = Enables(Here', Len(stack'[cpu'])) /\ IF_flag' \in BOOLEAN
    BY <1>1, <2>4, <2>5 DEF Enables
  <2> QED BY <1>1, <1>2, <2>1, <2>2, <2>6 DEF StacksInv
<1>7. ServiceInv'
  <2>1. ASSUME isr # {}
        PROVE  n > 2
    <3>1. Unended(s[2])
      BY <1>0, <2>1 DEF ServiceInv
    <3>2. n # 2
      <4> SUFFICES ASSUME n = 2 PROVE FALSE
        OBVIOUS
      <4>1. Here.code \in Acknowledging /\ Here.pos <= EoiPos(Here.code)
        BY <1>2, <3>1 DEF Unended
      <4>2. EoiPos(Here.code) \in 1 .. Len(Code(Here.code)) /\ Len(Code(Here.code)) \in Nat
        BY <1>2, <4>1, EoiFacts, CodeFacts
      <4> QED BY <1>5, <4>1, <4>2
    <3> QED BY <1>1, <1>2, <3>2
  <2>2. ASSUME isr # {}
        PROVE  Len(z) >= 2 /\ Unended(z[2])
    <3>1. n > 2 /\ 2 \in 1 .. (n - 1)
      BY <1>2, <2>1, <2>2
    <3> QED BY <1>0, <1>2, <1>4, <2>2, <3>1 DEF ServiceInv
  <2> QED BY <1>0, <1>1, <1>3, <2>2 DEF ServiceInv, apicVars
<1>8. \A k \in 1 .. n : k \in 1 .. (n - 1) \/ k = n
  BY <1>2
<1>9. \A k \in 1 .. (n - 1) : k \in 1 .. n
  BY <1>2
<1>10. LocksInv'
  <2>1. \A l \in Locks : ~Holds(s[n], l)
    <3>1. ~InShutdown(Here)
      <4> SUFFICES ASSUME Here.code = "enter_key", Here.pos <= WritePos PROVE FALSE
        BY DEF InShutdown
      <4> QED BY <1>5, EnterFacts
    <3> QED BY <1>1, <1>2, <3>1 DEF Holds
  <2>2. \A l \in Locks : /\ lock[l] = cpu <=> \E k \in 1 .. n : Holds(s[k], l)
                         /\ \A j, k \in 1 .. n : Holds(s[j], l) /\ Holds(s[k], l) => j = k
    BY <1>0 DEF LocksInv, Depth
  <2> HIDE DEF n, s
  <2>3. \A l \in Locks :
           /\ lock[l] = cpu <=> \E k \in 1 .. (n - 1) : Holds(z[k], l)
           /\ \A j, k \in 1 .. (n - 1) : Holds(z[j], l) /\ Holds(z[k], l) => j = k
    BY <1>4, <1>8, <1>9, <2>1, <2>2
  <2> QED BY <1>0, <1>1, <1>3, <1>4, <2>3 DEF LocksInv
<1>11. TableInv'
  BY <1>0, <1>1, TableKept
<1>12. SwitchInv'
  <2>1. \A k \in 1 .. n : /\ s[k].at # "away"
                          /\ s[k].at = "switch" => /\ s[k].old = cpu /\ s[k].new = current
                                                   /\ current # cpu /\ s[1].at = "call"
    BY <1>0 DEF SwitchInv, Depth
  <2>2. 1 \in 1 .. (n - 1)
    BY <1>1, <1>2
  <2>3. Switching(z) <=> Switching(s)
    BY <1>1, <1>2, <1>4, <1>8, <1>9 DEF Switching
  <2>4. \A k \in 1 .. (n - 1) :
           /\ z[k].at # "away"
           /\ z[k].at = "switch" => /\ z[k].old = cpu /\ z[k].new = current
                                    /\ current # cpu /\ z[1].at = "call"
    <3> HIDE DEF n, s
    <3> QED BY <1>4, <1>9, <2>1, <2>2
  <2>5. cpu' = cpu /\ threads' = threads /\ current' = current
    BY <1>1 DEF tableVars
  <2> QED BY <1>0, <1>3, <1>4, <2>3, <2>4, <2>5 DEF SwitchInv
<1> QED BY <1>6, <1>7, <1>10, <1>11, <1>12 DEF KernelInv

----------------------------------------------------------------------------
(* The switch *)

TcbType == [tid : Tids, pid : Pids, state : ThreadState, context : Tids \cup {None}]

\* What a table of three threads with their contexts is.
IsTable(ths) ==
    /\ ths \in Seq(TcbType) /\ Len(ths) = 3
    /\ \A t \in Tids : ths[t + 1].tid = t /\ ths[t + 1].pid = t

LEMMA TableDef == TableInv <=> IsTable(threads) /\ current \in Tids
BY DEF TableInv, IsTable, TcbType

LEMMA SlotsOfTable == ASSUME NEW t \in Tids PROVE t + 1 \in 1 .. 3 /\ t \in Int
BY DEF Tids

\* tick() goes to another thread and leaves tids, pids and contexts alone.
LEMMA SwitchRows ==
    ASSUME NEW ths, IsTable(ths), NEW cur \in Tids, NEW nxt \in next_ready_thread(ths, cur)
    PROVE  /\ nxt \in Tids /\ nxt # cur
           /\ IsTable(prepare_switch(ths, cur, nxt))
           /\ \A t \in Tids : prepare_switch(ths, cur, nxt)[t + 1].context = ths[t + 1].context
<1> DEFINE old == [ths[cur + 1] EXCEPT !.state = Preempted(@)]
           mid == [ths EXCEPT ![cur + 1] = old]
           run == [mid[nxt + 1] EXCEPT !.state = "Running"]
           new == [mid EXCEPT ![nxt + 1] = run]
<1>0. ths \in Seq(TcbType) /\ Len(ths) = 3
  BY DEF IsTable
<1>1. nxt \in Tids /\ nxt # cur
  <2>1. PICK k \in 1 .. (3 - 1) : nxt = (cur + k) % 3
    BY <1>0 DEF next_ready_thread
  <2>2. k = 1 \/ k = 2
    BY <2>1
  <2>3. cur = 0 \/ cur = 1 \/ cur = 2
    BY DEF Tids
  <2> QED BY <2>1, <2>2, <2>3 DEF Tids
<1>2. cur + 1 \in 1 .. Len(ths) /\ nxt + 1 \in 1 .. Len(ths) /\ nxt + 1 # cur + 1
  BY <1>0, <1>1, SlotsOfTable DEF Tids
<1>3. ths[cur + 1] \in TcbType /\ ths[nxt + 1] \in TcbType
  BY <1>0, <1>2, ElementOfSeq
<1>4. /\ old \in TcbType /\ old.tid = ths[cur + 1].tid /\ old.pid = ths[cur + 1].pid
      /\ old.context = ths[cur + 1].context
  BY <1>3 DEF TcbType, Preempted, ThreadState
<1>5. /\ mid \in Seq(TcbType) /\ Len(mid) = Len(ths)
      /\ \A j \in 1 .. Len(ths) : mid[j] = IF j = cur + 1 THEN old ELSE ths[j]
  BY <1>0, <1>2, <1>4, ExceptSeq
<1>6. mid[nxt + 1] = ths[nxt + 1]
  BY <1>2, <1>5
<1>7. /\ run \in TcbType /\ run.tid = ths[nxt + 1].tid /\ run.pid = ths[nxt + 1].pid
      /\ run.context = ths[nxt + 1].context
  BY <1>3, <1>6 DEF TcbType, ThreadState
<1>8. /\ new \in Seq(TcbType) /\ Len(new) = Len(ths)
      /\ \A j \in 1 .. Len(ths) : new[j] = IF j = nxt + 1 THEN run ELSE mid[j]
  BY <1>2, <1>5, <1>7, ExceptSeq
<1>9. prepare_switch(ths, cur, nxt) = new
  BY DEF prepare_switch
<1> HIDE DEF old, mid, run, new
<1>10. \A j \in 1 .. Len(ths) : /\ new[j].tid = ths[j].tid /\ new[j].pid = ths[j].pid
                                /\ new[j].context = ths[j].context
  BY <1>4, <1>5, <1>7, <1>8
<1>11. \A t \in Tids : t + 1 \in 1 .. Len(ths)
  BY <1>0, SlotsOfTable
<1>12. IsTable(new)
  BY <1>0, <1>8, <1>10, <1>11 DEF IsTable
<1> QED BY <1>1, <1>9, <1>10, <1>11, <1>12

\* With the timer's handler on top of a thread, the thread is between calls or
\* in one under SCHEDULER, so tick() gets the lock only between calls.
LEMMA TickBase ==
    ASSUME StacksInv, LocksInv, InCall("work"), TheCall = "tick"
    PROVE  /\ Depth = 2 /\ Here.code = "timer" /\ Here.pos = 2
           /\ stack[cpu][1].at = "call" /\ stack[cpu][1].code \in ThreadCodes
<1> DEFINE f == Here
           e == stack[cpu][1]
<1>1. /\ f \in FrameType /\ ~Ended(f) /\ f.at = "work" /\ CallOf(f) = "tick"
      /\ "tick" \in CallsIn(f.code) /\ f.pos \in 1 .. Len(Code(f.code))
  BY CallHere
<1>2. /\ FrameOK(f, Depth) /\ Depth \in Nat /\ Depth >= 1 /\ f = stack[cpu][Depth]
      /\ StackOK(stack[cpu]) /\ f.code \in Codes /\ Len(stack[cpu]) = Depth
  BY OnTop DEF Depth
<1>3. f.code = "timer"
  BY <1>1, <1>2, CallsFit
<1>4. f.pos = 2
  <2>1. f.pos \in 1 .. 2 /\ Code("timer")[f.pos] = "tick"
    BY <1>1, <1>3, TimerFacts DEF CallOf
  <2>2. f.pos # 1
    BY <2>1, TimerFacts
  <2> QED BY <2>1, <2>2
<1>5. Depth = 2
  <2>1. f.code \notin ThreadCodes /\ f.code \notin ExceptionCodes
    BY <1>3 DEF ThreadCodes, ExceptionCodes
  <2>2. Depth # 1 /\ ~(Depth >= 3)
    BY <1>2, <2>1 DEF FrameOK
  <2> QED BY <1>2, <2>2
<1>6. FrameOK(e, 1) /\ e \in FrameType /\ e.code \in ThreadCodes
  <2>1. FrameOK(e, 1)
    BY <1>2, <1>5 DEF StackOK
  <2> QED BY <2>1 DEF FrameOK
<1>7. Enables(e, 1)
  <2>1. 2 \in 2 .. Len(stack[cpu]) /\ stack[cpu][2] = f
    BY <1>2, <1>5
  <2>2. f.flags = Enables(stack[cpu][2 - 1], 2 - 1) /\ f.flags
    BY <1>2, <1>3, <2>1 DEF StackOK, DeviceCodes
  <2> QED BY <2>2
<1>8. e.at # "work"
  <2> SUFFICES ASSUME e.at = "work" PROVE FALSE
    OBVIOUS
  <2>1. ~Masks(CallOf(e)) /\ ~Ended(e)
    BY <1>6, <1>7 DEF Enables, InMasked, FrameOK
  <2>2. CallOf(e) \in CallsIn(e.code)
    BY <1>6, <2>1, CallThere
  <2>3. CallOf(e) \in {"current_pid", "current_tid"}
    BY <1>6, <2>1, <2>2 DEF ThreadCodes, CallsIn, Masks
  <2>4. "SCHEDULER" \in Takes(CallOf(e)) /\ "SCHEDULER" \in Takes(CallOf(f))
    BY <1>1, <2>3 DEF Takes
  <2>5. Holds(e, "SCHEDULER") /\ Holds(f, "SCHEDULER")
    BY <1>1, <2>4 DEF Holds
  <2>6. "SCHEDULER" \in Locks /\ 1 \in 1 .. Len(stack[cpu]) /\ 2 \in 1 .. Len(stack[cpu])
    BY <1>2, <1>5 DEF Locks
  <2>7. f = stack[cpu][2]
    BY <1>2, <1>5
  <2> HIDE DEF f
  <2> QED BY <2>5, <2>6, <2>7 DEF LocksInv
<1> QED BY <1>3, <1>4, <1>5, <1>6, <1>7, <1>8 DEF Enables

LEMMA TickStep ==
    ASSUME KernelInv, tick
    PROVE  KernelInv'
<1> DEFINE f == Here
<1>0. StacksInv /\ ServiceInv /\ LocksInv /\ TableInv /\ SwitchInv
  BY DEF KernelInv
<1>1. /\ InCall("work") /\ TheCall = "tick" /\ Release
      /\ UNCHANGED <<IF_flag, cpu, irr, isr>>
  BY DEF tick, Working, apicVars
<1>2. CASE Goto(Done(Here)) /\ UNCHANGED tableVars
  BY <1>1, <1>2, EndStep
<1>3. ASSUME NEW nxt \in next_ready_thread(threads, current),
             threads' = prepare_switch(threads, current, nxt), current' = nxt,
             Goto([Here EXCEPT !.at = "switch", !.old = current, !.new = nxt])
      PROVE  KernelInv'
  <2> DEFINE g == [Here EXCEPT !.at = "switch", !.old = current, !.new = nxt]
  <2>1. /\ Depth = 2 /\ f.code = "timer" /\ f.pos = 2
        /\ stack[cpu][1].at = "call" /\ stack[cpu][1].code \in ThreadCodes
    BY <1>0, <1>1, TickBase
  <2>2. f \in FrameType /\ ~Ended(f) /\ f.at = "work" /\ CallOf(f) = "tick"
    BY <1>0, <1>1, CallHere
  <2>3. FrameOK(f, Depth) /\ f = stack[cpu][Depth]
    BY <1>0, OnTop
  <2>4. IsTable(threads) /\ current \in Tids
    BY <1>0, TableDef
  <2>5. /\ nxt \in Tids /\ nxt # current /\ IsTable(threads')
        /\ \A t \in Tids : threads'[t + 1].context = threads[t + 1].context
    BY <1>3, <2>4, SwitchRows
  <2>6. /\ g \in FrameType /\ g.at = "switch" /\ g.old = current /\ g.new = nxt
        /\ g.code = f.code /\ g.pos = f.pos /\ g.flags = f.flags
    <3>1. f \in FrameType /\ current \in 0 .. 2 /\ nxt \in 0 .. 2 /\ "switch" \in Stages
      BY <2>2, <2>4, <2>5 DEF Tids, Stages
    <3>2. g = [f EXCEPT !.at = "switch", !.old = current, !.new = nxt]
      OBVIOUS
    <3> HIDE DEF f, g
    <3>3. g \in FrameType
      BY <3>1, <3>2 DEF FrameType
    <3>4. g.at = "switch" /\ g.old = current /\ g.new = nxt
      BY <3>1, <3>2 DEF FrameType
    <3>5. g.code = f.code /\ g.pos = f.pos /\ g.flags = f.flags
      BY <3>1, <3>2 DEF FrameType
    <3> QED BY <3>3, <3>4, <3>5
  <2> HIDE DEF f, g
  <2>7. FrameOK(g, Depth) /\ ~Enables(g, Depth)
    <3>1. ~Ended(g) /\ f.pos <= Len(Code(f.code)) + 1
      BY <2>2, <2>3, <2>6 DEF Ended, FrameOK
    <3>2. f.code \notin ThreadCodes
      BY <2>1 DEF ThreadCodes
    <3> QED BY <2>1, <2>6, <3>1, <3>2 DEF FrameOK, Enables, InMasked
  <2>8. StacksInv' /\ Replaced(g)
    <3>1. IF_flag = Enables(f, Depth)
      BY <1>0 DEF StacksInv, f, Depth
    <3>2. IF_flag' = Enables(g, Depth)
      BY <1>1, <2>1, <2>7, <3>1 DEF Enables
    <3> QED BY <1>0, <1>1, <1>3, <2>6, <2>7, <3>2, StacksReplaced DEF f, g
  <2>9. ServiceInv'
    <3>1. Unended(f) => Unended(g)
      BY <2>6 DEF Unended
    <3> QED BY <1>0, <1>1, <2>6, <2>8, <3>1, ServiceReplaced DEF f
  <2>10. LocksInv'
    <3>1. Takes("tick") = {"SCHEDULER"} /\ Releases("tick") = {"SCHEDULER"}
      BY DEF Takes, Releases
    <3>2. \A l \in Locks : /\ Holds(f, l) <=> l = "SCHEDULER"
                           /\ ~Holds(g, l)
      BY <2>1, <2>2, <2>6, <3>1 DEF Holds, InShutdown
    <3>3. \A l \in Locks : lock'[l] = IF l = "SCHEDULER" THEN None ELSE lock[l]
      BY <1>1, <3>1 DEF Release
    <3>4. lock' \in [Locks -> {None, cpu}]
      BY <1>0, <1>1 DEF Release, LocksInv
    <3> QED BY <1>0, <2>8, <3>2, <3>3, <3>4, LocksReplaced DEF f
  <2>11. TableInv'
    BY <1>3, <2>5 DEF IsTable, TableInv, TcbType
  <2>12. current = cpu
    <3>1. ~Switching(stack[cpu])
      <4> SUFFICES ASSUME NEW k \in 1 .. Depth, stack[cpu][k].at = "switch"
                   PROVE  FALSE
        BY DEF Switching, Depth
      <4>1. k = 1 \/ k = Depth
        BY <2>1
      <4> QED BY <2>1, <2>2, <2>3, <4>1
    <3> QED BY <1>0, <3>1 DEF SwitchInv
  <2>13. SwitchInv'
    <3>1. /\ stack'[cpu][1] = stack[cpu][1] /\ stack'[cpu][2] = g
          /\ Len(stack'[cpu]) = 2 /\ cpu' = cpu
          /\ \A t \in Tids : t # cpu => stack'[t] = stack[t]
      BY <2>1, <2>8 DEF Replaced
    <3>2. \A k \in 1 .. Len(stack'[cpu]) : k = 1 \/ k = 2
      BY <3>1
    <3>3. Switching(stack'[cpu])
      BY <2>6, <3>1 DEF Switching
    <3>4. \A k \in 1 .. Len(stack'[cpu]) :
             /\ stack'[cpu][k].at # "away"
             /\ stack'[cpu][k].at = "switch"
                   => /\ stack'[cpu][k].old = cpu /\ stack'[cpu][k].new = current'
                      /\ current' # cpu /\ stack'[cpu][1].at = "call"
      BY <1>3, <2>1, <2>5, <2>6, <2>12, <3>1, <3>2
    <3>5. \A t \in Tids : t # cpu => threads'[t + 1].context = t /\ Suspended(stack'[t])
      BY <1>0, <2>5, <3>1 DEF SwitchInv
    <3> QED BY <3>1, <3>3, <3>4, <3>5 DEF SwitchInv
  <2> QED BY <2>8, <2>9, <2>10, <2>11, <2>13 DEF KernelInv
<1> QED BY <1>2, <1>3 DEF tick

\* A stack off the CPU holds no lock, and none once it is resumed.
LEMMA ResumedStack ==
    ASSUME NEW s, StackOK(s), Suspended(s), NEW z, z = WithTop(s, Resumed(s[Len(s)]))
    PROVE  /\ StackOK(z) /\ Len(z) = Len(s) /\ ~Enables(z[Len(z)], Len(z))
           /\ \A k \in 1 .. Len(z) : z[k].at \notin {"switch", "away"}
           /\ \A k \in 1 .. Len(z), l \in Locks : ~Holds(z[k], l)
<1> DEFINE n == Len(s)
           f == s[n]
           g == Resumed(f)
<1>1. s \in Seq(FrameType) /\ n \in Nat /\ n >= 1 /\ n <= 4 /\ n \in 1 .. n /\ 1 \in 1 .. n
  BY DEF StackOK
<1>2. FrameOK(f, n) /\ f \in FrameType /\ f.code \in Codes
  <2>1. FrameOK(f, n)
    BY <1>1 DEF StackOK
  <2> QED BY <2>1, CodesFit DEF FrameOK
<1>3. FrameOK(s[1], 1)
  BY <1>1 DEF StackOK
<1>4. s[1].code \in ThreadCodes
  BY <1>3 DEF FrameOK
<1>5. /\ FrameOK(g, n) /\ g.code = f.code /\ g.flags = f.flags /\ ~Enables(g, n)
      /\ g.at \in {"entry", "call"} /\ g.code # "enter_key"
      /\ n = 1 \/ (n = 2 /\ s[1].at = "call")
  <2>1. CASE n = 1 /\ f.at = "entry"
    <3>1. g = f
      BY <2>1 DEF Resumed
    <3>2. f.code # "enter_key"
      BY <1>4, <2>1 DEF ThreadCodes
    <3> HIDE DEF f, g
    <3> QED BY <1>2, <2>1, <3>1, <3>2 DEF Enables
  <2>2. CASE n = 2 /\ f.at = "away" /\ s[1].at = "call"
    <3>1. g = Advance(f)
      BY <2>2 DEF Resumed
    <3>2. ~Ended(f) /\ f.code = "timer"
      BY <1>2, <2>2 DEF FrameOK
    <3>3. /\ FrameOK(g, n) /\ (Enables(g, n) <=> n = 1) /\ g.code = f.code
          /\ g.flags = f.flags /\ g.at = "call"
      <4> HIDE DEF f, g, n
      <4> QED BY <1>1, <1>2, <3>1, <3>2, AdvanceOK
    <3> HIDE DEF f, g
    <3> QED BY <2>2, <3>2, <3>3
  <2> QED BY <2>1, <2>2 DEF Suspended
<1> HIDE DEF g
<1>6. /\ StackOK(z) /\ Len(z) = n
      /\ \A k \in 1 .. n : z[k] = IF k = n THEN g ELSE s[k]
  <2>1. z = WithTop(s, g) /\ MayReplace(g, s)
    BY <1>5 DEF g, MayReplace
  <2> QED BY <2>1, TopReplaced DEF SameBelow
<1>7. ASSUME NEW k \in 1 .. n
      PROVE  z[k].at \in {"entry", "call"} /\ z[k].code # "enter_key"
  <2>1. CASE k = n
    BY <1>5, <1>6, <2>1
  <2>2. CASE k # n
    <3>1. n = 2 /\ k = 1 /\ s[1].at = "call"
      BY <1>1, <1>5, <2>2
    <3> QED BY <1>4, <1>6, <2>2, <3>1 DEF ThreadCodes
  <2> QED BY <2>1, <2>2
<1>8. z[n] = g
  BY <1>1, <1>6
<1> QED BY <1>5, <1>6, <1>7, <1>8 DEF Holds, InShutdown

LEMMA SwitchStep ==
    ASSUME KernelInv, context_switch
    PROVE  KernelInv'
<1> DEFINE f == Here
           to == current
           s == stack[cpu]
           r == stack[to]
           g == [f EXCEPT !.at = "away"]
           y == WithTop(s, g)
           z == WithTop(r, Resumed(r[Len(r)]))
           row == [threads[cpu + 1] EXCEPT !.context = cpu]
<1>0. StacksInv /\ ServiceInv /\ LocksInv /\ TableInv /\ SwitchInv
  BY DEF KernelInv
<1>1. /\ cpu \in Tids /\ StackOK(s) /\ Depth \in Nat /\ Depth >= 1 /\ f = s[Depth]
      /\ FrameOK(f, Depth) /\ f \in FrameType /\ Len(s) = Depth
      /\ stack \in [Tids -> Seq(FrameType)]
  BY <1>0, OnTop DEF Depth, StacksInv
<1>2. f.at = "switch" /\ f.code = "timer" /\ f.pos = 2 /\ ~Ended(f)
  <2>1. f.at = "switch"
    BY DEF context_switch, At
  <2> QED BY <1>1, <2>1 DEF FrameOK
<1>3. Depth = 2
  <2>1. f.code \notin ThreadCodes /\ f.code \notin ExceptionCodes
    BY <1>2 DEF ThreadCodes, ExceptionCodes
  <2>2. Depth # 1 /\ ~(Depth >= 3)
    BY <1>1, <2>1 DEF FrameOK
  <2> QED BY <1>1, <2>2
<1>4. f.old = cpu /\ f.new = to /\ to # cpu /\ s[1].at = "call" /\ to \in Tids
  <2>1. Depth \in 1 .. Len(s)
    BY <1>1
  <2> QED BY <1>0, <1>1, <1>2, <2>1 DEF SwitchInv, TableInv
<1>5. Tcb(threads, to).context = to /\ Suspended(r) /\ StackOK(r)
  BY <1>0, <1>4 DEF SwitchInv, StacksInv, Tcb
<1>6. /\ threads' = [threads EXCEPT ![cpu + 1] = row] /\ cpu' = to
      /\ stack' = [stack EXCEPT ![cpu] = y, ![to] = z]
      /\ UNCHANGED <<IF_flag, current, lock, irr, isr>>
  <2>1. /\ threads' = [threads EXCEPT ![f.old + 1].context = cpu]
        /\ cpu' = Tcb(threads, f.new).context
        /\ stack' = [stack EXCEPT
              ![cpu] = WithTop(@, [f EXCEPT !.at = "away"]),
              ![Tcb(threads, f.new).context] = WithTop(@, Resumed(Top(Tcb(threads, f.new).context)))]
        /\ UNCHANGED <<IF_flag, current, lock, irr, isr>>
    BY DEF context_switch, apicVars
  <2>2. stack' = [stack EXCEPT ![cpu] = WithTop(@, g), ![to] = WithTop(@, Resumed(Top(to)))]
    BY <1>4, <1>5, <2>1
  <2>3. Top(to) = r[Len(r)]
    BY DEF Top
  <2>4. stack' = [stack EXCEPT ![cpu] = y, ![to] = z]
    BY <1>1, <1>4, <2>2, <2>3
  <2> QED BY <1>4, <1>5, <2>1, <2>4
<1>7. stack'[cpu] = y /\ stack'[to] = z /\ \A t \in Tids : t # cpu /\ t # to => stack'[t] = stack[t]
  BY <1>1, <1>4, <1>6
<1>8. StackOK(y) /\ Len(y) = 2 /\ y[1] = s[1] /\ y[2].at = "away"
  <2>1. /\ g \in FrameType /\ g.at = "away" /\ g.code = f.code /\ g.pos = f.pos
        /\ g.flags = f.flags
    BY <1>1, FrameAt DEF Stages
  <2> HIDE DEF g, f
  <2>2. ~Ended(g) /\ g.pos <= Len(Code(g.code)) + 1
    BY <1>1, <1>2, <2>1 DEF Ended, FrameOK
  <2>3. FrameOK(g, Depth)
    <3>1. g.code \notin ThreadCodes
      BY <1>2, <2>1 DEF ThreadCodes
    <3> QED BY <1>2, <1>3, <2>1, <2>2, <3>1 DEF FrameOK, InMasked
  <2>4. /\ StackOK(y) /\ Len(y) = Len(s)
        /\ \A k \in 1 .. Len(s) : y[k] = IF k = Len(s) THEN g ELSE s[k]
    <3>1. MayReplace(g, s)
      BY <1>1, <2>1, <2>3 DEF MayReplace
    <3> QED BY <3>1, TopReplaced DEF SameBelow
  <2> HIDE DEF y
  <2>5. Len(s) = 2
    BY <1>1, <1>3
  <2> QED BY <2>1, <2>4, <2>5
<1>9. /\ StackOK(z) /\ ~Enables(z[Len(z)], Len(z))
      /\ \A k \in 1 .. Len(z) : z[k].at \notin {"switch", "away"}
      /\ \A k \in 1 .. Len(z), l \in Locks : ~Holds(z[k], l)
  <2>1. z = WithTop(r, Resumed(r[Len(r)]))
    OBVIOUS
  <2> HIDE DEF z, r
  <2> QED BY <1>5, <2>1, ResumedStack
<1> HIDE DEF y, z
<1>10. StacksInv'
  <2>1. stack' \in [Tids -> Seq(FrameType)]
    BY <1>1, <1>4, <1>6, <1>8, <1>9 DEF StackOK
  <2>2. \A t \in Tids : StackOK(stack'[t])
    BY <1>0, <1>7, <1>8, <1>9 DEF StacksInv
  <2>3. Here' = z[Len(z)] /\ Len(stack'[cpu']) = Len(z)
    BY <1>6, <1>7 DEF Here, Top
  <2>4. IF_flag = Enables(f, Depth) /\ ~Enables(f, Depth)
    BY <1>0, <1>2 DEF StacksInv, Enables, Depth
  <2>5. IF_flag' = Enables(Here', Len(stack'[cpu'])) /\ IF_flag' \in BOOLEAN
    BY <1>6, <1>9, <2>3, <2>4 DEF Enables
  <2> QED BY <1>4, <1>6, <2>1, <2>2, <2>5 DEF StacksInv
<1>11. ServiceInv'
  <2>1. isr = {}
    <3> SUFFICES ASSUME isr # {} PROVE FALSE
      OBVIOUS
    <3>1. Unended(f)
      BY <1>0, <1>1, <1>3 DEF ServiceInv
    <3> QED BY <1>2, <3>1 DEF Unended, EoiPos
  <2> QED BY <1>0, <1>6, <2>1 DEF ServiceInv
<1>12. LocksInv'
  <2>1. \A l \in Locks : lock[l] = None
    <3> SUFFICES ASSUME NEW l \in Locks, NEW k \in 1 .. Len(s), Holds(s[k], l) PROVE FALSE
      BY <1>0 DEF LocksInv
    <3>1. k = 1 \/ k = 2
      BY <1>1, <1>3
    <3>2. ~Holds(f, l)
      BY <1>2 DEF Holds, InShutdown
    <3>3. s[1].code \in ThreadCodes
      <4>1. FrameOK(s[1], 1)
        BY <1>1, <1>3 DEF StackOK
      <4> QED BY <4>1 DEF FrameOK
    <3>4. ~Holds(s[1], l)
      BY <1>4, <3>3 DEF Holds, InShutdown, ThreadCodes
    <3> QED BY <1>1, <1>3, <3>1, <3>2, <3>4
  <2>2. None # to
    BY <1>4 DEF Tids, None
  <2>3. lock' = lock /\ DOMAIN lock = Locks /\ lock = [l \in Locks |-> lock[l]]
    BY <1>0, <1>6 DEF LocksInv
  <2>4. lock' \in [Locks -> {None, to}]
    BY <2>1, <2>3
  <2> QED BY <1>6, <1>7, <1>9, <2>1, <2>2, <2>3, <2>4 DEF LocksInv
<1>13. /\ IsTable(threads') /\ threads'[cpu + 1].context = cpu
       /\ \A t \in Tids : t # cpu => threads'[t + 1].context = threads[t + 1].context
  <2>1. IsTable(threads)
    BY <1>0, TableDef
  <2>2. threads \in Seq(TcbType) /\ Len(threads) = 3 /\ cpu + 1 \in 1 .. Len(threads)
    BY <1>1, <2>1, SlotsOfTable DEF IsTable
  <2>3. threads[cpu + 1] \in TcbType
    BY <2>2, ElementOfSeq
  <2>4. /\ row \in TcbType /\ row.context = cpu /\ row.tid = threads[cpu + 1].tid
        /\ row.pid = threads[cpu + 1].pid
    BY <1>1, <2>3 DEF TcbType
  <2> HIDE DEF row
  <2>5. /\ threads' \in Seq(TcbType) /\ Len(threads') = Len(threads)
        /\ \A j \in 1 .. Len(threads) : threads'[j] = IF j = cpu + 1 THEN row ELSE threads[j]
    <3> DEFINE i == cpu + 1
               new == [threads EXCEPT ![i] = row]
    <3>1. threads' = new /\ i \in 1 .. Len(threads)
      BY <1>6, <2>2
    <3> HIDE DEF i
    <3>2. threads \in Seq(TcbType) /\ row \in TcbType
      BY <2>2, <2>4
    <3>3. /\ new \in Seq(TcbType) /\ Len(new) = Len(threads)
          /\ \A j \in 1 .. Len(threads) : new[j] = IF j = i THEN row ELSE threads[j]
      BY ONLY <3>1, <3>2, ExceptSeq
    <3> QED BY <3>1, <3>3 DEF i
  <2>6. \A t \in Tids : t + 1 \in 1 .. Len(threads) /\ (t + 1 = cpu + 1 <=> t = cpu)
    BY <1>1, <2>2, SlotsOfTable
  <2> QED BY <1>1, <2>1, <2>2, <2>4, <2>5, <2>6 DEF IsTable
<1>14. TableInv'
  BY <1>4, <1>6, <1>13 DEF IsTable, TableInv, TcbType
<1>15. SwitchInv'
  <2>1. Suspended(y)
    BY <1>4, <1>8 DEF Suspended
  <2>2. \A t \in Tids : t # to => threads'[t + 1].context = t /\ Suspended(stack'[t])
    BY <1>0, <1>7, <1>13, <2>1 DEF SwitchInv
  <2> QED BY <1>6, <1>7, <1>9, <2>2 DEF SwitchInv
<1> QED BY <1>10, <1>11, <1>12, <1>14, <1>15 DEF KernelInv

----------------------------------------------------------------------------
(* The invariant *)

LEMMA InitKernel == Init => KernelInv
<1> SUFFICES ASSUME Init PROVE KernelInv
  OBVIOUS
<1> DEFINE name(t) == IF t = 0 THEN "kernel_main" ELSE "demo_task"
           f(t) == Frame(name(t), "entry", FALSE)
           e(i) == [tid |-> BootThreads[i].tid, pid |-> BootThreads[i].pid,
                    state |-> BootThreads[i].state, context |-> IF i = 1 THEN None ELSE i - 1]
<1>1. /\ IF_flag = FALSE /\ cpu = 0 /\ current = 0 /\ irr = {} /\ isr = {}
      /\ stack = [t \in Tids |-> <<f(t)>>] /\ threads = [i \in 1 .. 3 |-> e(i)]
      /\ lock = [l \in Locks |-> None] /\ cpu \in Tids
  BY DEF Init, Tids
<1>2. \A t \in Tids : /\ f(t) \in FrameType /\ f(t).code \in ThreadCodes /\ f(t).pos = 1
                      /\ f(t).at = "entry"
  BY DEF Frame, FrameType, ThreadCodes, Stages
<1> HIDE DEF f
<1>3. \A t \in Tids : /\ stack[t] = <<f(t)>> /\ stack[t] \in Seq(FrameType)
                      /\ Len(stack[t]) = 1 /\ stack[t][1] = f(t)
  BY <1>1, <1>2
<1>4. ASSUME NEW t \in Tids
      PROVE  FrameOK(f(t), 1) /\ ~Enables(f(t), 1) /\ \A l \in Locks : ~Holds(f(t), l)
  <2>1. Len(Code(f(t).code)) \in Nat
    BY <1>2, CodeFacts DEF Codes
  <2>2. f(t).pos <= Len(Code(f(t).code)) + 1
    BY <1>2, <2>1
  <2>3. FrameOK(f(t), 1)
    BY <1>2, <2>2 DEF FrameOK, InMasked
  <2> QED BY <1>2, <2>3 DEF Enables, Holds, InShutdown, ThreadCodes
<1>5. ASSUME NEW t \in Tids
      PROVE  StackOK(stack[t])
  <2>0. Len(stack[t]) = 1 /\ stack[t][1] = f(t) /\ stack[t] \in Seq(FrameType)
    BY <1>3
  <2>1. \A k \in 1 .. Len(stack[t]) : k = 1 /\ stack[t][k] = f(t)
    BY <2>0
  <2>2. \A k \in 2 .. Len(stack[t]) : FALSE
    BY <2>0
  <2>3. \A k \in 1 .. Len(stack[t]) : FrameOK(stack[t][k], k)
    BY <1>4, <2>1
  <2> QED BY <1>3, <2>1, <2>2, <2>3 DEF StackOK
<1>6. StacksInv
  <2>1. Here = f(0) /\ Len(stack[cpu]) = 1
    BY <1>1, <1>3 DEF Here, Top
  <2>2. stack \in [Tids -> Seq(FrameType)]
    BY <1>1, <1>3
  <2>3. IF_flag = Enables(Here, Len(stack[cpu]))
    BY <1>1, <1>4, <2>1 DEF Enables
  <2> QED BY <1>1, <1>5, <2>2, <2>3 DEF StacksInv
<1>7. ServiceInv
  BY <1>1 DEF ServiceInv
<1>8. LocksInv
  <2>1. cpu # None
    BY <1>1 DEF None
  <2> QED BY <1>1, <1>3, <1>4, <2>1 DEF LocksInv
<1>9. \A i \in 1 .. 3 : e(i) \in TcbType /\ e(i).tid = i - 1 /\ e(i).pid = i - 1
                        /\ (i # 1 => e(i).context = i - 1)
  BY DEF TcbType, BootThreads, Tids, Pids, ThreadState, None
<1> HIDE DEF e
<1>10. threads \in Seq(TcbType) /\ Len(threads) = 3 /\ \A i \in 1 .. 3 : threads[i] = e(i)
  <2>1. threads \in Seq(TcbType)
    BY <1>1, <1>9, IsASeq
  <2> QED BY <1>1, <2>1, LenProperties
<1>11. \A t \in Tids : t + 1 \in 1 .. 3 /\ (t + 1) - 1 = t /\ (t # 0 => t + 1 # 1)
  BY DEF Tids
<1>12. TableInv
  BY <1>1, <1>9, <1>10, <1>11 DEF TableInv, TcbType
<1>13. SwitchInv
  <2>1. \A t \in Tids : t # cpu => threads[t + 1].context = t
    BY <1>1, <1>9, <1>10, <1>11
  <2>2. \A t \in Tids : Suspended(stack[t]) /\ ~Switching(stack[t])
    BY <1>2, <1>3 DEF Suspended, Switching
  <2> QED BY <1>1, <1>2, <1>3, <2>1, <2>2 DEF SwitchInv
<1> QED BY <1>6, <1>7, <1>8, <1>12, <1>13 DEF KernelInv

\* The hardware raises a vector.
LEMMA RaiseStep ==
    ASSUME KernelInv, NEW v \in Vectors, Raise(v)
    PROVE  KernelInv'
<1>1. irr' \subseteq Vectors /\ UNCHANGED <<IF_flag, cpu, stack, tableVars, lock, isr>>
  BY DEF Raise, KernelInv, ServiceInv
<1> QED BY <1>1 DEF KernelInv, StacksInv, ServiceInv, LocksInv, TableInv, SwitchInv, tableVars,
                    Here, Top

LEMMA NextKernel == KernelInv /\ [Next]_vars => KernelInv'
<1> SUFFICES ASSUME KernelInv, [Next]_vars PROVE KernelInv'
  OBVIOUS
<1>1. CASE enable_interrupts
  BY <1>1, EntryStep DEF enable_interrupts
<1>2. CASE thread_trampoline
  BY <1>2, EntryStep DEF thread_trampoline
<1>3. CASE without_interrupts
  BY <1>3, MaskStep
<1>4. CASE acquire
  BY <1>4, AcquireStep
<1>5. CASE print
  BY <1>5, EndStep DEF print, Working, apicVars
<1>6. CASE restore_interrupts
  BY <1>6, RestoreStep
<1>7. CASE current_pid
  BY <1>7, EndStep DEF current_pid, Working, apicVars
<1>8. CASE current_tid
  BY <1>8, EndStep DEF current_tid, Working, apicVars
<1>9. CASE end_interrupts
  BY <1>9, EoiStep
<1>10. CASE shutdown
  BY <1>10, EndStep DEF shutdown, Working, apicVars
<1>11. CASE tick
  BY <1>11, TickStep
<1>12. CASE context_switch
  BY <1>12, SwitchStep
<1>13. CASE iret
  BY <1>13, IretStep
<1>14. ASSUME NEW v \in Vectors, interrupt(v) PROVE KernelInv'
  BY <1>14, InterruptStep
<1>15. ASSUME NEW v \in Exceptions, exception(v) PROVE KernelInv'
  BY <1>15, ExceptionStep
<1>16. CASE timer_fires \/ apic_error \/ spurious_irq \/ \E k \in {"enter", "other"} : key_pressed(k)
  <2>1. PICK v \in Vectors : Raise(v)
    BY <1>16 DEF timer_fires, apic_error, spurious_irq, key_pressed, Vectors
  <2> QED BY <2>1, RaiseStep
<1>17. CASE UNCHANGED vars
  BY <1>17 DEF vars, KernelInv, StacksInv, ServiceInv, LocksInv, TableInv, SwitchInv, tableVars,
               apicVars, Here, Top
<1> QED BY <1>1, <1>2, <1>3, <1>4, <1>5, <1>6, <1>7, <1>8, <1>9, <1>10, <1>11, <1>12, <1>13,
           <1>14, <1>15, <1>16, <1>17 DEF Next, CpuStep, Instruction

LEMMA KernelInvariant == SafeSpec => []KernelInv
<1>1. Init => KernelInv
  BY InitKernel
<1>2. KernelInv /\ [Next]_vars => KernelInv'
  BY NextKernel
<1> QED BY <1>1, <1>2, PTL DEF SafeSpec

----------------------------------------------------------------------------
(* Interrupts *)

\* When interrupts are enabled no interrupt is in service: each handler has
\* written the EOI by then, the timer's before tick() may leave for a thread
\* whose trampoline enables them.
THEOREM InterruptsEnded == SafeSpec => []EndedBeforeEnabled
<1>1. KernelInv => EndedBeforeEnabled
  <2> SUFFICES ASSUME KernelInv, IF_flag, isr # {} PROVE FALSE
    BY DEF EndedBeforeEnabled
  <2>1. Len(stack[cpu]) >= 2
    BY DEF KernelInv, ServiceInv
  <2>2. Len(stack[cpu]) = 1
    BY DEF KernelInv, StacksInv, Enables
  <2> QED BY <2>1, <2>2
<1> QED BY <1>1, KernelInvariant, PTL

\* While interrupts are enabled the CPU is in the program of a thread and not
\* in a masked section, whatever NMIs and machine checks saved and restored the
\* flag in between.
THEOREM HandlersNeverNest == SafeSpec => []NoReentry
<1>1. KernelInv => NoReentry
  <2> SUFFICES ASSUME KernelInv, IF_flag
               PROVE  Len(stack[cpu]) = 1 /\ (Here.at \in {"lock", "work"} => ~Masks(TheCall))
    BY DEF NoReentry
  <2>1. Enables(Here, Len(stack[cpu]))
    BY DEF KernelInv, StacksInv
  <2> QED BY <2>1 DEF Enables, InMasked, CallOf, TheCall
<1> QED BY <1>1, KernelInvariant, PTL

----------------------------------------------------------------------------
(* The context switch *)

\* context_switch is only ever called as its safety comment asks, with the
\* context of the thread on the CPU and that of another one, suspended or new,
\* though SCHEDULER is released before the call; otherwise the scheduler's
\* current thread is the one on the CPU.
THEOREM SwitchesAreSafe == SafeSpec => []SwitchContract
<1>1. KernelInv => SwitchContract
  <2> SUFFICES ASSUME KernelInv PROVE SwitchContract
    OBVIOUS
  <2> DEFINE s == stack[cpu]
             switching == {k \in 1 .. Len(s) : s[k].at = "switch"}
  <2>0. StacksInv /\ TableInv /\ SwitchInv /\ cpu \in Tids /\ current \in Tids
    BY DEF KernelInv, StacksInv, TableInv
  <2>1. switching = {} => Tcb(threads, current).tid = cpu
    <3> SUFFICES ASSUME switching = {} PROVE Tcb(threads, current).tid = cpu
      OBVIOUS
    <3>1. ~Switching(s)
      BY DEF Switching
    <3> QED BY <2>0, <3>1 DEF SwitchInv, TableInv, Tcb
  <2>2. ASSUME NEW k \in switching
        PROVE  LET new == Tcb(threads, s[k].new) IN
               /\ Tcb(threads, s[k].old).tid = cpu
               /\ new.tid # cpu /\ new.context = new.tid
               /\ Top(new.tid).at \in {"away", "entry"}
    <3>1. s[k].old = cpu /\ s[k].new = current /\ current # cpu
      BY <2>0, <2>2 DEF SwitchInv
    <3>2. /\ Tcb(threads, cpu).tid = cpu /\ Tcb(threads, current).tid = current
          /\ Tcb(threads, current).context = current /\ Suspended(stack[current])
      BY <2>0, <3>1 DEF SwitchInv, TableInv, Tcb
    <3>3. Top(current).at \in {"away", "entry"}
      BY <3>2 DEF Suspended, Top
    <3> QED BY <3>1, <3>2, <3>3
  <2> QED BY <2>1, <2>2 DEF SwitchContract
<1> QED BY <1>1, KernelInvariant, PTL

----------------------------------------------------------------------------
(* Locks *)

\* Where the CPU can hang.
LEMMA HangPlaces == KernelInv => HangsOnOwnLock
<1> SUFFICES ASSUME KernelInv, Hung
             PROVE  \/ /\ Here.code = "timer" /\ TheCall = "tick"
                       /\ lock["SCHEDULER"] = cpu /\ stack[cpu][1].at = "work"
                    \/ /\ Here.code \in {"nmi", "machine_check"}
                       /\ lock["SERIAL"] = cpu
                       /\ \E k \in 1 .. (Len(stack[cpu]) - 1) : stack[cpu][k].at = "work"
  BY DEF HangsOnOwnLock
<1> DEFINE f == Here
           s == stack[cpu]
<1>0. StacksInv /\ LocksInv
  BY DEF KernelInv
<1>1. /\ Depth \in Nat /\ Depth >= 1 /\ f = s[Depth] /\ FrameOK(f, Depth) /\ f \in FrameType
      /\ f.code \in Codes /\ StackOK(s) /\ Len(s) = Depth
  BY <1>0, OnTop DEF Depth
<1>2. ~Ended(f) /\ f.at \in {"lock", "call"} /\ TheCall = CallOf(f)
  BY DEF Hung, TheCall, CallOf
<1>3. CallOf(f) \in CallsIn(f.code) /\ CallOf(f) \in Calls
  BY <1>1, <1>2, CallThere
<1>4. PICK l \in Takes(CallOf(f)) : lock[l] # None
  BY <1>2 DEF Hung
<1>5. l \in Locks /\ lock[l] = cpu
  BY <1>0, <1>3, <1>4, LocksOfCalls DEF LocksInv
<1>6. PICK k \in 1 .. Depth : Holds(s[k], l)
  BY <1>0, <1>5 DEF LocksInv, Depth
<1>7. k # Depth
  <2> SUFFICES ASSUME Holds(f, l) PROVE FALSE
    BY <1>1, <1>6
  <2>1. l = "ACPI_SHUTDOWN" /\ InShutdown(f)
    BY <1>2 DEF Holds
  <2>2. CallOf(f) = "shutdown_lock"
    BY <1>3, <1>4, <2>1, LocksOfCalls
  <2> QED BY <1>1, <1>2, <2>1, <2>2, ShutdownAdvance
<1>8. k \in 1 .. (Depth - 1) /\ Depth # 1
  BY <1>1, <1>6, <1>7
<1>9. f.code \notin ThreadCodes
  BY <1>1, <1>8 DEF FrameOK
<1>10. CASE f.code \in DeviceCodes
  <2>1. Depth = 2
    <3>1. f.code \notin ExceptionCodes
      BY <1>10 DEF DeviceCodes, ExceptionCodes
    <3>2. ~(Depth >= 3)
      BY <1>1, <3>1 DEF FrameOK
    <3> QED BY <1>1, <1>8, <3>2
  <2>2. k = 1 /\ FrameOK(s[1], 1) /\ s[1] \in FrameType
    <3>1. k = 1
      BY <1>8, <2>1
    <3>2. FrameOK(s[1], 1)
      BY <1>1, <2>1 DEF StackOK
    <3> QED BY <3>1, <3>2 DEF FrameOK
  <2>3. Enables(s[1], 1)
    <3>1. 2 \in 2 .. Len(s) /\ s[2] = f
      BY <1>1, <2>1
    <3>2. f.flags = Enables(s[2 - 1], 2 - 1) /\ f.flags
      BY <1>1, <1>10, <3>1 DEF StackOK
    <3> QED BY <3>2
  <2>4. s[1].code \in ThreadCodes
    BY <2>2 DEF FrameOK
  <2>5. s[1].at = "work" /\ l \in Takes(CallOf(s[1]))
    BY <1>6, <2>2, <2>4 DEF Holds, InShutdown, ThreadCodes
  <2>6. ~Masks(CallOf(s[1])) /\ ~Ended(s[1])
    BY <2>2, <2>3, <2>5 DEF Enables, InMasked, FrameOK
  <2>7. CallOf(s[1]) \in CallsIn(s[1].code)
    BY <2>2, <2>6, CallThere
  <2>8. CallOf(s[1]) \in {"current_pid", "current_tid"}
    BY <2>4, <2>6, <2>7 DEF ThreadCodes, CallsIn, Masks
  <2>9. l = "SCHEDULER"
    BY <2>5, <2>8 DEF Takes
  <2>10. CallOf(f) \in {"current_pid", "current_tid", "tick"}
    BY <1>3, <1>4, <2>9 DEF Takes, Calls
  <2>11. f.code # "demo_task"
    BY <1>9 DEF ThreadCodes
  <2>12. CallOf(f) = "tick" /\ f.code = "timer"
    BY <1>1, <1>3, <2>10, <2>11, CallsFit
  <2> QED BY <1>2, <1>5, <2>5, <2>9, <2>12
<1>11. CASE f.code \in ExceptionCodes
  <2>1. CallOf(f) \in {"serial_println", "hlt_loop"}
    BY <1>3, <1>11 DEF ExceptionCodes, CallsIn
  <2>2. l = "SERIAL"
    BY <1>4, <2>1 DEF Takes
  <2>3. s[k].at = "work"
    BY <1>6, <2>2 DEF Holds
  <2>4. k \in 1 .. (Len(s) - 1)
    BY <1>1, <1>8
  <2> QED BY <1>5, <1>11, <2>2, <2>3, <2>4 DEF ExceptionCodes
<1> QED BY <1>1, <1>9, <1>10, <1>11 DEF Codes

\* The one lock a handler can wait for in vain is its own thread's SCHEDULER
\* or, in an exception that hit a print, SERIAL: a thread never leaves the CPU
\* with a lock, and the other locks are not taken where an interrupt finds them
\* held.
THEOREM OnlyKnownHangs == SafeSpec => []HangsOnOwnLock
BY HangPlaces, KernelInvariant, PTL

----------------------------------------------------------------------------
(* Types and identifiers *)

RestInv ==
    /\ key \in {"none", "enter", "other"}
    /\ ids \in [Tids -> [pid : Pids \cup {None}, tid : Tids \cup {None}]]
    /\ power \in {"on", "off"}
    /\ IdsAreOwn

LEMMA InitRest == Init => RestInv
BY DEF Init, RestInv, IdsAreOwn, Tids, Pids, None

\* A thread that reads its identifiers is the scheduler's current one.
LEMMA ReaderIsCurrent ==
    ASSUME KernelInv, InCall("work"), TheCall \in {"current_pid", "current_tid"}
    PROVE  Tcb(threads, current).pid = cpu /\ Tcb(threads, current).tid = cpu /\ cpu \in Tids
<1>0. StacksInv /\ TableInv /\ SwitchInv /\ current \in Tids
  BY DEF KernelInv, TableInv
<1>1. Here.at = "work" /\ TheCall \in CallsIn(Here.code)
  BY <1>0, CallHere
<1>2. /\ Here.code \in Codes /\ FrameOK(Here, Depth) /\ Here = stack[cpu][Depth] /\ cpu \in Tids
  BY <1>0, OnTop
<1>3. Here.code = "demo_task"
  BY <1>1, <1>2, CallsFit
<1>4. Depth = 1
  BY <1>2, <1>3 DEF FrameOK, ThreadCodes
<1>5. ~Switching(stack[cpu])
  <2> SUFFICES ASSUME NEW k \in 1 .. Depth, stack[cpu][k].at = "switch" PROVE FALSE
    BY DEF Switching, Depth
  <2>1. k = Depth
    BY <1>4
  <2> QED BY <1>1, <1>2, <2>1
<1>6. current = cpu
  BY <1>0, <1>5 DEF SwitchInv
<1> QED BY <1>0, <1>2, <1>6 DEF TableInv, Tcb

LEMMA NextRest == KernelInv /\ RestInv /\ [Next]_vars => RestInv'
<1> SUFFICES ASSUME KernelInv, RestInv, [Next]_vars PROVE RestInv'
  OBVIOUS
<1> USE DEF RestInv
<1>1. CASE current_pid
  <2>1. InCall("work") /\ TheCall = "current_pid"
    BY <1>1 DEF current_pid, Working
  <2>2. Tcb(threads, current).pid = cpu /\ cpu \in Tids
    BY <2>1, ReaderIsCurrent
  <2>3. ids' = [ids EXCEPT ![cpu] = [ids[cpu] EXCEPT !.pid = cpu]] /\ UNCHANGED <<key, power>>
    BY <1>1, <2>2 DEF current_pid, apicVars
  <2> QED BY <2>2, <2>3 DEF IdsAreOwn, Tids, Pids
<1>2. CASE current_tid
  <2>1. InCall("work") /\ TheCall = "current_tid"
    BY <1>2 DEF current_tid, Working
  <2>2. Tcb(threads, current).tid = cpu /\ cpu \in Tids
    BY <2>1, ReaderIsCurrent
  <2>3. ids' = [ids EXCEPT ![cpu] = [ids[cpu] EXCEPT !.tid = cpu]] /\ UNCHANGED <<key, power>>
    BY <1>2, <2>2 DEF current_tid, apicVars
  <2> QED BY <2>2, <2>3 DEF IdsAreOwn
<1>3. CASE ~current_pid /\ ~current_tid
  <2>1. /\ ids' = ids
        /\ key' \in {key, "none", "enter", "other"}
        /\ power' \in {power, "off"}
    BY <1>3 DEF Next, CpuStep, Instruction, enable_interrupts, thread_trampoline,
                without_interrupts, acquire, print, restore_interrupts, end_interrupts, shutdown,
                tick, context_switch, iret, interrupt, exception, timer_fires, apic_error,
                spurious_irq, key_pressed, Raise, vars, apicVars
  <2> QED BY <2>1 DEF IdsAreOwn
<1> QED BY <1>1, <1>2, <1>3

LEMMA RestInvariant == SafeSpec => []RestInv
<1>1. Init => RestInv
  BY InitRest
<1>2. KernelInv /\ RestInv /\ [Next]_vars => RestInv'
  BY NextRest
<1> QED BY <1>1, <1>2, KernelInvariant, PTL DEF SafeSpec

\* current_pid() and current_tid() return the caller's own identifiers, though
\* a thread that is preempted before it has the lock goes on only after any
\* number of switches.
THEOREM OwnIdentifiers == SafeSpec => []IdsAreOwn
<1>1. RestInv => IdsAreOwn
  BY DEF RestInv
<1> QED BY <1>1, RestInvariant, PTL

LEMMA FourFrames ==
    ASSUME NEW n \in Nat, n >= 1, n <= 4 PROVE n \in 1 .. 4
  OBVIOUS

\* Type correctness of the kernel; in particular no stack ever has more than
\* four frames: the thread's, a device's handler, and the two exceptions.
THEOREM TypeCorrect == SafeSpec => []TypeOK
<1>1. KernelInv /\ RestInv => TypeOK
  <2> SUFFICES ASSUME KernelInv, RestInv PROVE TypeOK
    OBVIOUS
  <2>1. StacksInv /\ ServiceInv /\ LocksInv /\ TableInv
    BY DEF KernelInv
  <2>2. \A t \in Tids : Len(stack[t]) \in 1 .. 4
    <3>1. \A t \in Tids : Len(stack[t]) \in Nat /\ Len(stack[t]) >= 1 /\ Len(stack[t]) <= 4
      BY <2>1, LenProperties DEF StacksInv, StackOK
    <3> QED BY <3>1, FourFrames
  <2>3. current \in Slots(threads)
    BY <2>1 DEF TableInv, Slots, Tids
  <2>4. lock \in [Locks -> Tids \cup {None}]
    BY <2>1 DEF LocksInv, StacksInv
  <2> QED BY <2>1, <2>2, <2>3, <2>4 DEF TypeOK, StacksInv, ServiceInv, TableInv, RestInv
<1> QED BY <1>1, KernelInvariant, RestInvariant, PTL

----------------------------------------------------------------------------
(* The table implements the abstract scheduler *)

\* The table without the contexts, as Scheduler.tla has it.
Row(r) == [tid |-> r.tid, pid |-> r.pid, state |-> r.state]
Rows(ths) == [i \in 1 .. Len(ths) |-> Row(ths[i])]

LEMMA RowsFacts ==
    ASSUME NEW ths, IsTable(ths)
    PROVE  /\ Len(Rows(ths)) = 3 /\ DOMAIN Rows(ths) = 1 .. 3
           /\ Rows(ths) \in Seq([tid : Tids, pid : Pids, state : ThreadState])
           /\ \A j \in 1 .. 3 : Rows(ths)[j] = Row(ths[j])
<1>1. ths \in Seq(TcbType) /\ Len(ths) = 3
  BY DEF IsTable
<1>2. \A j \in 1 .. 3 : Row(ths[j]) \in [tid : Tids, pid : Pids, state : ThreadState]
  <2>1. \A j \in 1 .. 3 : ths[j] \in TcbType
    BY <1>1, ElementOfSeq
  <2> QED BY <2>1 DEF TcbType, Row
<1>3. Rows(ths) = [j \in 1 .. 3 |-> Row(ths[j])]
  BY <1>1 DEF Rows
<1>4. Rows(ths) \in Seq([tid : Tids, pid : Pids, state : ThreadState])
  BY <1>2, <1>3, IsASeq
<1>5. DOMAIN Rows(ths) = 1 .. 3 /\ \A j \in 1 .. 3 : Rows(ths)[j] = Row(ths[j])
  BY <1>3
<1> QED BY <1>4, <1>5, LenProperties

\* The scan reads the states alone, so the contexts do not matter to it.
LEMMA ScanRows ==
    ASSUME NEW ths, IsTable(ths), NEW cur \in Tids
    PROVE  Sched!next_ready_thread(Rows(ths), cur) = next_ready_thread(ths, cur)
<1>1. Len(ths) = 3 /\ Len(Rows(ths)) = 3 /\ \A j \in 1 .. 3 : Rows(ths)[j].state = ths[j].state
  <2>1. Len(Rows(ths)) = 3 /\ \A j \in 1 .. 3 : Rows(ths)[j] = Row(ths[j])
    BY RowsFacts
  <2>2. \A j \in 1 .. 3 : Row(ths[j]).state = ths[j].state
    BY DEF Row
  <2> QED BY <2>1, <2>2 DEF IsTable
<1>2. \A k \in 1 .. 2 : ((cur + k) % 3) + 1 \in 1 .. 3
  BY DEF Tids
<1>3. \A k \in 1 .. 2 : Rows(ths)[((cur + k) % 3) + 1].state = ths[((cur + k) % 3) + 1].state
  BY <1>1, <1>2
<1>4. 3 - 1 = 2 /\ \A k \in 1 .. 2 : 1 .. (k - 1) \subseteq 1 .. 2
  OBVIOUS
<1> QED BY <1>1, <1>3, <1>4 DEF next_ready_thread, Tcb, Sched!next_ready_thread, Sched!Tcb

\* prepare_switch on the table is prepare_switch on its rows.
LEMMA SwitchCommutes ==
    ASSUME NEW ths, IsTable(ths), NEW cur \in Tids, NEW nxt \in Tids, nxt # cur
    PROVE  Rows(prepare_switch(ths, cur, nxt)) = Sched!prepare_switch(Rows(ths), cur, nxt)
<1> DEFINE new == prepare_switch(ths, cur, nxt)
           abs == Sched!prepare_switch(Rows(ths), cur, nxt)
<1>1. ths \in Seq(TcbType) /\ Len(ths) = 3
  BY DEF IsTable
<1>2. cur + 1 \in 1 .. 3 /\ nxt + 1 \in 1 .. 3 /\ nxt + 1 # cur + 1
  BY SlotsOfTable DEF Tids
<1>3. DOMAIN ths = 1 .. 3 /\ \A j \in 1 .. 3 : ths[j] \in TcbType
  BY <1>1, ElementOfSeq, LenProperties
<1>4. /\ DOMAIN new = 1 .. 3
      /\ \A j \in 1 .. 3 : new[j] = CASE j = cur + 1 -> [ths[j] EXCEPT !.state = Preempted(@)]
                                      [] j = nxt + 1 -> [ths[j] EXCEPT !.state = "Running"]
                                      [] OTHER -> ths[j]
  BY <1>2, <1>3 DEF prepare_switch
<1>5. /\ DOMAIN abs = 1 .. 3
      /\ \A j \in 1 .. 3 : abs[j] = CASE j = cur + 1 -> [Rows(ths)[j] EXCEPT !.state = Preempted(@)]
                                      [] j = nxt + 1 -> [Rows(ths)[j] EXCEPT !.state = "Running"]
                                      [] OTHER -> Rows(ths)[j]
  BY <1>2, RowsFacts DEF Sched!prepare_switch, Sched!Preempted, Preempted
<1>6. Len(new) = 3
  BY <1>1, <1>2, <1>4 DEF prepare_switch
<1>7. abs = [j \in 1 .. 3 |-> abs[j]]
  BY <1>5 DEF Sched!prepare_switch, Rows
<1>8. \A j \in 1 .. 3 : abs[j] = Row(new[j])
  <2> HIDE DEF new, abs
  <2> TAKE j \in 1 .. 3
  <2>1. Rows(ths)[j] = Row(ths[j]) /\ ths[j] \in TcbType
    BY <1>3, RowsFacts
  <2> QED BY <1>4, <1>5, <2>1 DEF Row, TcbType
<1> HIDE DEF new, abs
<1>9. Rows(new) = [j \in 1 .. 3 |-> Row(new[j])]
  BY <1>6 DEF Rows
<1> QED BY <1>7, <1>8, <1>9 DEF new, abs

LEMMA InitImplements == Init => Sched!Init
<1> SUFFICES ASSUME Init PROVE Sched!Init
  OBVIOUS
<1>1. IsTable(threads)
  BY InitKernel, TableDef DEF KernelInv
<1>2. Rows(threads) = [j \in 1 .. 3 |-> Row(threads[j])]
  BY <1>1 DEF Rows, IsTable
<1>3. \A j \in 1 .. 3 : Row(threads[j]) = BootThreads[j]
  BY DEF Init, Row, BootThreads
<1>4. Rows(threads) = BootThreads
  BY <1>2, <1>3 DEF BootThreads
<1> QED BY <1>4 DEF Init, Sched!Init, Sched!BootThreads, BootThreads, Rows, Row

LEMMA StepImplements == KernelInv /\ [Next]_vars => [Sched!Next]_Sched!vars
<1> SUFFICES ASSUME KernelInv, [Next]_vars PROVE Sched!Next \/ (Rows(threads)' = Rows(threads) /\ current' = current)
  BY DEF Sched!vars, Rows, Row
<1>0. IsTable(threads) /\ current \in Tids
  BY TableDef DEF KernelInv
<1>1. CASE tick
  <2>1. CASE UNCHANGED tableVars
    BY <2>1 DEF tableVars, Rows
  <2>2. CASE ~UNCHANGED tableVars
    <3>1. PICK nxt \in next_ready_thread(threads, current) :
             threads' = prepare_switch(threads, current, nxt) /\ current' = nxt
      BY <1>1, <2>2 DEF tick
    <3>2. nxt \in Tids /\ nxt # current
      BY <1>0, <3>1, SwitchRows
    <3>3. nxt \in Sched!next_ready_thread(Rows(threads), current)
      BY <1>0, <3>1, ScanRows
    <3>4. Rows(threads') = Sched!prepare_switch(Rows(threads), current, nxt)
      BY <1>0, <3>1, <3>2, SwitchCommutes
    <3>5. Sched!tick
      BY <3>1, <3>3, <3>4 DEF Sched!tick, Rows, Row
    <3> QED BY <3>5 DEF Sched!Next
  <2> QED BY <2>1, <2>2
<1>2. CASE context_switch
  <2>1. current' = current
    BY <1>2 DEF context_switch
  <2>2. Here.old + 1 \in Int
    BY OnTop DEF KernelInv, FrameType
  <2>3. threads' = [threads EXCEPT ![Here.old + 1].context = cpu]
    BY <1>2 DEF context_switch
  <2>4. /\ Len(threads') = Len(threads)
        /\ \A j \in 1 .. Len(threads) : Row(threads'[j]) = Row(threads[j])
    <3>1. threads \in Seq(TcbType)
      BY <1>0 DEF IsTable
    <3>2. DOMAIN threads = 1 .. Len(threads) /\ \A j \in 1 .. Len(threads) : threads[j] \in TcbType
      BY <3>1, ElementOfSeq, LenProperties
    <3>3. DOMAIN threads' = DOMAIN threads /\ Len(threads') = Len(threads)
      BY <2>3, <3>1
    <3>4. \A j \in 1 .. Len(threads) : \/ threads'[j] = threads[j]
                                       \/ threads'[j] = [threads[j] EXCEPT !.context = cpu]
      BY <2>3, <3>2
    <3> QED BY <3>2, <3>3, <3>4 DEF Row, TcbType
  <2> QED BY <2>1, <2>4 DEF Rows
<1>3. CASE ~tick /\ ~context_switch
  <2>1. UNCHANGED tableVars
    BY <1>3 DEF Next, CpuStep, Instruction, enable_interrupts, thread_trampoline,
                without_interrupts, acquire, print, restore_interrupts, current_pid, current_tid,
                end_interrupts, shutdown, iret, interrupt, exception, timer_fires, apic_error,
                spurious_irq, key_pressed, Raise, vars
  <2> QED BY <2>1 DEF tableVars, Rows
<1> QED BY <1>1, <1>2, <1>3

\* Interrupts, locks, nested exceptions and switches included, the thread table
\* behaves as Scheduler.tla says: tick() is its tick, and every other step,
\* the switch that saves a context into the table too, is a stutter.
THEOREM Implementation == SafeSpec => ImplementsScheduler
<1>1. Init => Sched!Init
  BY InitImplements
<1>2. KernelInv /\ [Next]_vars => [Sched!Next]_Sched!vars
  BY StepImplements
<1> QED BY <1>1, <1>2, KernelInvariant, PTL DEF SafeSpec, ImplementsScheduler, Sched!SafeSpec

SP == INSTANCE SchedulerProofs WITH
    MaxThreads <- 3,
    threads <- [i \in 1 .. Len(threads) |->
                  [tid |-> threads[i].tid, pid |-> threads[i].pid,
                   state |-> threads[i].state]]

\* The specification that SchedulerProofs is about is the one implemented.
LEMMA SameScheduler == Sched!SafeSpec => SP!SafeSpec
<1>1. SP!Init <=> Sched!Init
  BY DEF SP!Init, Sched!Init, SP!BootThreads, Sched!BootThreads
<1>2. [SP!Next]_SP!vars <=> [Sched!Next]_Sched!vars
  BY DEF SP!Next, Sched!Next, SP!vars, Sched!vars, SP!add_thread, Sched!add_thread, SP!tick,
         Sched!tick, SP!mark_thread_exited, Sched!mark_thread_exited, SP!TidsOf, Sched!TidsOf,
         SP!next_ready_thread, Sched!next_ready_thread, SP!prepare_switch, Sched!prepare_switch,
         SP!Preempted, Sched!Preempted, SP!mark_exited, Sched!mark_exited, SP!Tcb, Sched!Tcb
<1> QED BY <1>1, <1>2, PTL DEF Sched!SafeSpec, SP!SafeSpec

\* So the scheduler's guarantee holds under interrupts: at every instruction,
\* the window between prepare_switch and the switch included, `current` alone
\* is marked Running.
THEOREM OneOwnerUnderInterrupts == SafeSpec => []Sched!CpuOwner
<1>0. 0 .. 2 \subseteq Tids /\ 0 .. 2 \subseteq Pids /\ 3 \in Nat
  BY DEF Tids, Pids
<1>1. SP!SafeSpec => []SP!CpuOwner
  BY SP!OneOwner, <1>0
<1>2. SP!CpuOwner <=> Sched!CpuOwner
  BY DEF SP!CpuOwner, Sched!CpuOwner, SP!Slots, Sched!Slots, SP!Tcb, Sched!Tcb
<1> QED BY <1>1, <1>2, SameScheduler, Implementation, PTL DEF ImplementsScheduler

\* And so does the order: however timer interrupts fall between instructions and
\* exceptions, a switch passes over no Ready thread.
THEOREM RoundRobinUnderInterrupts == SafeSpec => Sched!NoOvertaking
<1>0. 0 .. 2 \subseteq Tids /\ 0 .. 2 \subseteq Pids /\ 3 \in Nat
  BY DEF Tids, Pids
<1>1. SP!SafeSpec => SP!NoOvertaking
  BY SP!RoundRobin, <1>0
<1>2. [SP!NonePassed]_SP!vars <=> [Sched!NonePassed]_Sched!vars
  BY DEF SP!NonePassed, Sched!NonePassed, SP!Distance, Sched!Distance, SP!Slots, Sched!Slots,
         SP!Tcb, Sched!Tcb, SP!vars, Sched!vars
<1> QED BY <1>1, <1>2, SameScheduler, Implementation, PTL
        DEF ImplementsScheduler, SP!NoOvertaking, Sched!NoOvertaking
=============================================================================
