----------------------------- MODULE Scheduler -----------------------------
(***************************************************************************)
(* What the thread scheduler promises: SCHEDULER of kernel/src/scheduler.rs*)
(* as an object whose operations are atomic, which is what its spin lock   *)
(* is for.  Processes.tla and Kernel.tla, where the lock, the interrupts   *)
(* and the callers are explicit, are shown to implement it.                *)
(***************************************************************************)
EXTENDS ThreadTable

CONSTANTS
    Tids,       \* thread identifiers
    Pids,       \* process identifiers
    MaxThreads  \* bound on the number of threads ever created

ASSUME TidsAssumption == 0 .. 2 \subseteq Tids
ASSUME PidsAssumption == 0 .. 2 \subseteq Pids
ASSUME MaxThreadsAssumption == MaxThreads \in Nat

VARIABLES
    threads,    \* Scheduler.threads, without contexts and stacks
    current     \* Scheduler.current

vars == <<threads, current>>

TCB == [tid : Tids, pid : Pids, state : ThreadState]

Init ==
    /\ threads = BootThreads
    /\ current = 0

\* A new thread enters Ready at the end of the table.  NEXT_TID.fetch_add
\* hands out each tid once, so the tid is fresh.
add_thread(tid, pid) ==
    /\ Len(threads) < MaxThreads
    /\ tid \notin TidsOf(threads)
    /\ threads' = Append(threads, [tid |-> tid, pid |-> pid, state |-> "Ready"])
    /\ UNCHANGED current

\* Plausible mistake; no specification uses it.
TickOffByOne ==
    \E nxt \in next_ready_thread(threads, current) :
        /\ threads' = prepare_switch(threads, current, nxt)
        /\ current' = nxt + 1

\* tick: with no Ready thread the interrupted one keeps the CPU.
tick ==
    \E nxt \in next_ready_thread(threads, current) :
        /\ threads' = prepare_switch(threads, current, nxt)
        /\ current' = nxt

mark_thread_exited(tid) ==
    /\ threads' = mark_exited(threads, tid)
    /\ UNCHANGED current

Next ==
    \/ \E tid \in Tids, pid \in Pids : add_thread(tid, pid)
    \/ tick
    \/ \E tid \in Tids : mark_thread_exited(tid)

SafeSpec == Init /\ [][Next]_vars

\* The LAPIC timer is periodic: ticks never stop.
Spec == SafeSpec /\ WF_vars(tick)

----------------------------------------------------------------------------
TypeOK ==
    /\ threads \in Seq(TCB)
    /\ Len(threads) > 0
    /\ current \in Slots(threads)

\* `current` is the CPU's owner: no other thread is marked Running, and the
\* owner is Running unless it has been exited and not yet switched away
\* from.  prepare_switch and mark_exited together keep this.
CpuOwner ==
    /\ \A idx \in Slots(threads) :
          Tcb(threads, idx).state = "Running" => idx = current
    /\ Tcb(threads, current).state \in {"Running", "Exited"}

SlotsKept ==
    \A idx \in Slots(threads) :
        /\ idx \in Slots(threads')
        /\ Tcb(threads', idx).tid = Tcb(threads, idx).tid
        /\ Tcb(threads, idx).state = "Exited"
              => Tcb(threads', idx).state = "Exited"

\* A slot of the table keeps its thread: tick() hands out pointers into the
\* table and mark_exited searches it, and no operation moves or drops a TCB
\* or brings an Exited thread back.
ExitedForever == [][SlotsKept]_vars

\* How many slots the round-robin scan passes to reach idx from cur.
Distance(idx, cur) == (idx - cur + Len(threads)) % Len(threads)

NonePassed ==
    current' # current =>
        \A idx \in Slots(threads) :
           Tcb(threads, idx).state = "Ready" /\ idx # current'
              => Distance(idx, current') < Distance(idx, current)

\* Round robin: a switch never passes over a Ready thread, so every thread
\* that stays Ready gets strictly closer to the CPU with every switch.
NoOvertaking == [][NonePassed]_vars

\* An Exited thread keeps the CPU only while nothing else can run: with a
\* Ready thread in the table the CPU is eventually taken from it.
ExitedYields ==
    (Tcb(threads, current).state = "Exited"
        /\ \E idx \in Slots(threads) : Tcb(threads, idx).state = "Ready")
    ~> (\/ Tcb(threads, current).state = "Running"
        \/ \A idx \in Slots(threads) : Tcb(threads, idx).state = "Exited")

\* No starvation: a Ready thread gets the CPU unless it is exited first.
ReadyRuns ==
    \A tid \in Tids :
        (\E idx \in Slots(threads) : /\ Tcb(threads, idx).tid = tid
                                     /\ Tcb(threads, idx).state = "Ready")
        ~> (\E idx \in Slots(threads) :
                /\ Tcb(threads, idx).tid = tid
                /\ Tcb(threads, idx).state \in {"Running", "Exited"})
=============================================================================
