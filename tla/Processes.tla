----------------------------- MODULE Processes -----------------------------
(***************************************************************************)
(* create_process, exit_process (kernel/src/process.rs) and spawn_thread   *)
(* (kernel/src/scheduler.rs) called by preemptible kernel threads on the   *)
(* one CPU, each call cut where a timer interrupt can fall between two of  *)
(* its lock operations.                                                    *)
(*                                                                         *)
(* Both locks are spin locks taken with interrupts enabled.  A thread that *)
(* finds PROCESS_TABLE taken spins until the timer preempts it; but tick() *)
(* itself takes SCHEDULER, with interrupts disabled, so a tick that finds  *)
(* it taken spins forever: the machine is wedged.                          *)
(*                                                                         *)
(* What a thread does between two calls is not modelled: a caller makes    *)
(* any sequence of its Calls.  Names, exit codes, page tables and log      *)
(* lines are left out, and the heap's lock is in Locks.tla.                *)
(***************************************************************************)
EXTENDS ThreadTable, FiniteSets

CONSTANTS
    MaxThreads,  \* bound: threads (and tids) ever created
    MaxProcs,    \* bound: processes (and pids) ever created
    Calls        \* tid -> the calls its thread makes

Tids == 0 .. (MaxThreads - 1)
Callers == Tids \ {0}   \* the idle thread only halts

ASSUME BoundsAssumption ==
    /\ MaxThreads \in Nat /\ MaxThreads > 2
    /\ MaxProcs \in Nat /\ MaxProcs > 2
ASSUME CallsAssumption ==
    Calls \in [Callers -> SUBSET {"create_process", "exit_process", "spawn_thread"}]

Pids == 0 .. (MaxProcs - 1)
Free == -1              \* an unlocked lock

VARIABLES
    threads,     \* SCHEDULER: Scheduler.threads
    current,     \* SCHEDULER: Scheduler.current
    next_tid,    \* NEXT_TID
    processes,   \* PROCESS_TABLE: ProcessTable.processes
    next_pid,    \* PROCESS_TABLE: ProcessTable.next_pid
    sched_lock,  \* tid that holds SCHEDULER, or Free
    pt_lock,     \* tid that holds PROCESS_TABLE, or Free
    call,        \* tid -> the call its thread is in
    wedged       \* tick() spins on SCHEDULER with interrupts disabled

schedVars == <<threads, current, next_tid>>
tableVars == <<processes, next_pid>>
vars == <<schedVars, tableVars, sched_lock, pt_lock, call, wedged>>

\* A PCB: its state and the tids recorded in it.  "Absent" is a pid that is
\* not in the map.
PCB == [state : {"Absent", "Running", "Zombie"}, threads : Seq(Tids)]

\* Where a call stands: its program counter, the process it is about, the tid
\* it took, the tids exit_process has left to mark, and whether spawn_thread
\* was called from create_process.  The pcs come in pairs: spinning for a
\* lock, then inside the section it protects; new_thread holds no lock.
NoCall == [pc |-> "none", pid |-> 0, tid |-> 0, todo |-> <<>>, main |-> FALSE]

TableSections == {"insert", "push_tid", "zombie"}
SchedSections == {"add_thread", "mark_exited"}
CallPC == {"none", "lock_insert", "new_thread", "lock_add", "lock_push",
           "lock_zombie", "lock_mark"} \cup TableSections \cup SchedSections

CallState == [pc : CallPC, pid : Pids, tid : Tids, todo : Seq(Tids),
              main : BOOLEAN]

\* scheduler::init has run: PID 0 with the idle thread and the two demo
\* processes, each with its main thread recorded.
Init ==
    /\ threads = BootThreads
    /\ current = 0
    /\ next_tid = 3
    /\ processes = [pid \in Pids |-> IF pid < 3
                                     THEN [state |-> "Running", threads |-> <<pid>>]
                                     ELSE [state |-> "Absent", threads |-> <<>>]]
    /\ next_pid = 3
    /\ sched_lock = Free
    /\ pt_lock = Free
    /\ call = [t \in Tids |-> NoCall]
    /\ wedged = FALSE

\* The thread the CPU executes.
Cpu == Tcb(threads, current).tid

At(t, pc) == ~wedged /\ t = Cpu /\ call[t].pc = pc

GoTo(t, pc) == call' = [call EXCEPT ![t].pc = pc]

Lock_PT(t, from, to) ==
    /\ At(t, from) /\ pt_lock = Free
    /\ pt_lock' = t
    /\ GoTo(t, to)
    /\ UNCHANGED <<schedVars, tableVars, sched_lock, wedged>>

Lock_SCHED(t, from, to) ==
    /\ At(t, from) /\ sched_lock = Free
    /\ sched_lock' = t
    /\ GoTo(t, to)
    /\ UNCHANGED <<schedVars, tableVars, pt_lock, wedged>>

Started(pcs) == Cardinality({t \in Tids : call[t].pc \in pcs})

\* Bounds: a call is started only if its pid and tid fit.
PidLeft == next_pid + Started({"lock_insert", "insert"}) < MaxProcs
TidLeft == next_tid + Started({"lock_insert", "insert", "new_thread"}) < MaxThreads

----------------------------------------------------------------------------
\* Plausible mistakes; no specification uses them.

TidNotAdvanced(t) ==
    /\ At(t, "new_thread")
    /\ call' = [call EXCEPT ![t].pc = "lock_add", ![t].tid = next_tid]
    /\ UNCHANGED <<schedVars, tableVars, sched_lock, pt_lock, wedged>>

TidAfterAdd(t) ==
    /\ At(t, "new_thread")
    /\ next_tid' = next_tid + 1
    /\ call' = [call EXCEPT ![t].pc = "lock_add", ![t].tid = next_tid + 1]
    /\ UNCHANGED <<threads, current, tableVars, sched_lock, pt_lock, wedged>>

PushIntoCallersPcb(t) ==
    /\ At(t, "push_tid")
    /\ processes' = [processes EXCEPT ![Tcb(threads, current).pid].threads =
                        Append(@, call[t].tid)]
    /\ pt_lock' = Free
    /\ call' = [call EXCEPT ![t] = NoCall]
    /\ UNCHANGED <<schedVars, next_pid, sched_lock, wedged>>

PushOnlyIfRunning(t) ==
    /\ At(t, "push_tid")
    /\ processes' = IF processes[call[t].pid].state = "Running"
                    THEN [processes EXCEPT ![call[t].pid].threads =
                             Append(@, call[t].tid)]
                    ELSE processes
    /\ pt_lock' = Free
    /\ call' = [call EXCEPT ![t] = NoCall]
    /\ UNCHANGED <<schedVars, next_pid, sched_lock, wedged>>

TickIgnoresLock ==
    /\ ~wedged
    /\ \E nxt \in next_ready_thread(threads, current) :
          /\ threads' = prepare_switch(threads, current, nxt)
          /\ current' = nxt
    /\ UNCHANGED <<next_tid, tableVars, sched_lock, pt_lock, call, wedged>>

----------------------------------------------------------------------------
\* create_process: the PCB is inserted under PROCESS_TABLE, ...
create_process(t) ==
    /\ "create_process" \in Calls[t]
    /\ At(t, "none") /\ PidLeft /\ TidLeft
    /\ GoTo(t, "lock_insert")
    /\ UNCHANGED <<schedVars, tableVars, sched_lock, pt_lock, wedged>>

lock_insert(t) == Lock_PT(t, "lock_insert", "insert")

insert(t) ==
    /\ At(t, "insert")
    /\ processes' = [processes EXCEPT ![next_pid] =
                        [state |-> "Running", threads |-> <<>>]]
    /\ next_pid' = next_pid + 1
    /\ pt_lock' = Free
    /\ call' = [call EXCEPT ![t] = [@ EXCEPT !.pc = "new_thread", !.pid = next_pid,
                                             !.main = TRUE]]
    /\ UNCHANGED <<schedVars, sched_lock, wedged>>

\* ... spawn_thread builds the TCB (the tid comes from NEXT_TID) and adds it
\* under SCHEDULER, Ready to run from this moment, ...
spawn_thread(t, pid) ==
    /\ "spawn_thread" \in Calls[t]
    /\ At(t, "none") /\ TidLeft
    /\ call' = [call EXCEPT ![t] = [@ EXCEPT !.pc = "new_thread", !.pid = pid]]
    /\ UNCHANGED <<schedVars, tableVars, sched_lock, pt_lock, wedged>>

new_thread(t) ==
    /\ At(t, "new_thread")
    /\ next_tid' = next_tid + 1
    /\ call' = [call EXCEPT ![t] = [@ EXCEPT !.pc = "lock_add", !.tid = next_tid]]
    /\ UNCHANGED <<threads, current, tableVars, sched_lock, pt_lock, wedged>>

lock_add(t) == Lock_SCHED(t, "lock_add", "add_thread")

add_thread(t) ==
    /\ At(t, "add_thread")
    /\ threads' = Append(threads, [tid |-> call[t].tid, pid |-> call[t].pid,
                                   state |-> "Ready"])
    /\ sched_lock' = Free
    /\ call' = [call EXCEPT ![t] = IF @.main THEN [@ EXCEPT !.pc = "lock_push"]
                                             ELSE NoCall]
    /\ UNCHANGED <<current, next_tid, tableVars, pt_lock, wedged>>

\* ... and only then is the tid recorded in the PCB.
lock_push(t) == Lock_PT(t, "lock_push", "push_tid")

push_tid(t) ==
    /\ At(t, "push_tid")
    /\ processes' = [processes EXCEPT ![call[t].pid].threads =
                        Append(@, call[t].tid)]
    /\ pt_lock' = Free
    /\ call' = [call EXCEPT ![t] = NoCall]
    /\ UNCHANGED <<schedVars, next_pid, sched_lock, wedged>>

\* exit_process: Zombie and a copy of the recorded tids under PROCESS_TABLE
\* (nothing for an unknown pid), then one mark_thread_exited per tid.
exit_process(t, pid) ==
    /\ "exit_process" \in Calls[t]
    /\ At(t, "none")
    /\ call' = [call EXCEPT ![t] = [@ EXCEPT !.pc = "lock_zombie", !.pid = pid]]
    /\ UNCHANGED <<schedVars, tableVars, sched_lock, pt_lock, wedged>>

lock_zombie(t) == Lock_PT(t, "lock_zombie", "zombie")

Marking(c, tids) ==
    IF tids = <<>> THEN NoCall ELSE [c EXCEPT !.pc = "lock_mark", !.todo = tids]

zombie(t) ==
    LET pcb == processes[call[t].pid] IN
    /\ At(t, "zombie")
    /\ processes' = IF pcb.state = "Absent" THEN processes
                    ELSE [processes EXCEPT ![call[t].pid].state = "Zombie"]
    /\ pt_lock' = Free
    /\ call' = [call EXCEPT ![t] = Marking(@, pcb.threads)]
    /\ UNCHANGED <<schedVars, next_pid, sched_lock, wedged>>

lock_mark(t) == Lock_SCHED(t, "lock_mark", "mark_exited")

mark_thread_exited(t) ==
    /\ At(t, "mark_exited")
    /\ threads' = mark_exited(threads, Head(call[t].todo))
    /\ sched_lock' = Free
    /\ call' = [call EXCEPT ![t] = Marking(@, Tail(@.todo))]
    /\ UNCHANGED <<current, next_tid, tableVars, pt_lock, wedged>>

----------------------------------------------------------------------------
\* The timer interrupt.
tick ==
    /\ ~wedged /\ sched_lock = Free
    /\ \E nxt \in next_ready_thread(threads, current) :
          /\ threads' = prepare_switch(threads, current, nxt)
          /\ current' = nxt
    /\ UNCHANGED <<next_tid, tableVars, sched_lock, pt_lock, call, wedged>>

tick_spins ==
    /\ ~wedged /\ sched_lock # Free
    /\ wedged' = TRUE
    /\ UNCHANGED <<schedVars, tableVars, sched_lock, pt_lock, call>>

\* A step inside a call, and the start of one.
CallStep(t) ==
    \/ lock_insert(t) \/ insert(t)
    \/ new_thread(t) \/ lock_add(t) \/ add_thread(t)
    \/ lock_push(t) \/ push_tid(t)
    \/ lock_zombie(t) \/ zombie(t)
    \/ lock_mark(t) \/ mark_thread_exited(t)

StartCall(t) ==
    \/ create_process(t)
    \/ \E pid \in Pids : spawn_thread(t, pid)
    \/ \E pid \in Pids : exit_process(t, pid)

Next ==
    \/ tick
    \/ tick_spins
    \/ \E t \in Callers : CallStep(t) \/ StartCall(t)

SafeSpec == Init /\ [][Next]_vars

----------------------------------------------------------------------------
TypeOK ==
    /\ threads \in Seq([tid : Tids, pid : Pids, state : ThreadState])
    /\ current \in Slots(threads)
    /\ next_tid \in 0 .. MaxThreads
    /\ processes \in [Pids -> PCB]
    /\ next_pid \in 0 .. MaxProcs
    /\ sched_lock \in Tids \cup {Free}
    /\ pt_lock \in Tids \cup {Free}
    /\ call \in [Tids -> CallState]
    /\ wedged \in BOOLEAN

\* Every tid a PCB records names a thread of that very process and no other,
\* and is recorded once: exit_process can only ever mark threads of its own process.
PcbNamesItsThreads ==
    \A pid \in Pids :
        LET tids == processes[pid].threads IN
        /\ \A i \in 1 .. Len(tids) :
              /\ tids[i] \in TidsOf(threads)
              /\ \A k \in 1 .. Len(threads) :
                    threads[k].tid = tids[i] => threads[k].pid = pid
        /\ \A i, j \in 1 .. Len(tids) : tids[i] = tids[j] => i = j

\* A process is without threads exactly while one create_process has inserted
\* it and not yet recorded its main thread, whatever becomes of the process or
\* of the caller meanwhile; a thread that is added by then belongs to it.
UnrecordedHasCreator ==
    \A pid \in Pids :
        LET creators == {t \in Tids : call[t].main /\ call[t].pid = pid} IN
        /\ creators # {} <=> processes[pid].state # "Absent" /\ processes[pid].threads = <<>>
        /\ Cardinality(creators) <= 1
        /\ \A t \in creators : call[t].pc \in {"lock_push", "push_tid"}
              => \E i \in 1 .. Len(threads) : threads[i].tid = call[t].tid /\ threads[i].pid = pid

\* A thread is inside a section exactly while it holds that section's lock,
\* and SCHEDULER is never held by a thread that is off the CPU: whatever a
\* tick switches to, the thread table is consistent and unlocked.
LocksProtectSections ==
    /\ \A t \in Tids : call[t].pc \in TableSections <=> pt_lock = t
    /\ \A t \in Tids : call[t].pc \in SchedSections <=> sched_lock = t
    /\ sched_lock # Free => sched_lock = Cpu

\* The thread table behaves as Scheduler.tla says, calls and ticks included;
\* in particular NEXT_TID never gives two threads one tid.
Sched == INSTANCE Scheduler
ImplementsScheduler == Sched!SafeSpec

\* "Mark a process as Zombie and all its threads as Exited." (process.rs:108):
\* when exit_process returns, every thread of the process is Exited.
ExitProcessExitsThreads ==
    [][\A t \in Callers :
          LET pid == call[t].pid
              returns == /\ call[t].pc \in {"zombie", "mark_exited"}
                         /\ call'[t].pc = "none"
          IN  returns /\ processes'[pid].state = "Zombie"
                => \A i \in 1 .. Len(threads') :
                      threads'[i].pid = pid => threads'[i].state = "Exited"]_vars
=============================================================================
