------------------------------- MODULE Locks --------------------------------
(***************************************************************************)
(* The three spin locks that kernel threads take with interrupts enabled:  *)
(* PROCESS_TABLE, SCHEDULER and, inside every allocation, the one of       *)
(* ALLOCATOR (a LockedHeap).  A call of process.rs, scheduler.rs or the    *)
(* allocator is the sequence of its lock operations; Processes.tla has     *)
(* what the calls do, without the heap.                                    *)
(***************************************************************************)
EXTENDS ThreadTable

CONSTANT LastTid    \* the threads are 0 (the boot context) .. LastTid

ASSUME LastTidAssumption == LastTid \in Nat \ {0}

Tids == 0 .. LastTid
LockNames == {"PT", "SCHED", "HEAP"}
Free == -1

VARIABLES
    threads, current,   \* SCHEDULER
    owner,      \* lock -> the tid that holds it, or Free
    todo,       \* tid -> the operations its call has left
    wedged      \* tick() spins for SCHEDULER with interrupts disabled

vars == <<threads, current, owner, todo, wedged>>

\* Operations.  may_lock is a lock that is taken only if the collection has to
\* grow or is not empty; without it the matching unlock is skipped as well.
Lock(l) == [op |-> "lock", lock |-> l]
MayLock(l) == [op |-> "may_lock", lock |-> l]
Unlock(l) == [op |-> "unlock", lock |-> l]
Mark == [op |-> "mark", lock |-> "SCHED"]

alloc == <<Lock("HEAP"), Unlock("HEAP")>>
may_alloc == <<MayLock("HEAP"), Unlock("HEAP")>>

\* ThreadControlBlock::new allocates the stack; threads.push may allocate.
spawn_thread == alloc \o <<Lock("SCHED")>> \o may_alloc \o <<Unlock("SCHED")>>

\* Plausible mistake; no specification uses it.
TableKeptOverSpawn ==
    <<Lock("PT")>> \o may_alloc \o spawn_thread
    \o <<Lock("PT")>> \o may_alloc \o <<Unlock("PT"), Unlock("PT")>>

\* BTreeMap::insert and the PCB's threads.push may allocate.
create_process ==
    <<Lock("PT")>> \o may_alloc \o <<Unlock("PT")>> \o spawn_thread
    \o <<Lock("PT")>> \o may_alloc \o <<Unlock("PT")>>

\* The list is cloned under PROCESS_TABLE and freed after the loop, in which
\* two threads stand for any number.
exit_process ==
    LET mark_thread_exited == <<Lock("SCHED"), Mark, Unlock("SCHED")>>
    IN  <<Lock("PT")>> \o may_alloc \o <<Unlock("PT")>>
        \o mark_thread_exited \o mark_thread_exited \o may_alloc

current_pid == <<Lock("SCHED"), Unlock("SCHED")>>

\* The boot context only allocates and frees (vec!, String, alloc_test).
CallsOf(t) ==
    IF t = 0 THEN {alloc}
    ELSE {create_process, exit_process, spawn_thread, current_pid, alloc}

Init ==
    /\ threads = [i \in 1 .. LastTid + 1 |->
                    [tid |-> i - 1, pid |-> i - 1, state |-> IF i = 1 THEN "Running" ELSE "Ready"]]
    /\ current = 0
    /\ owner = [l \in LockNames |-> Free]
    /\ todo = [t \in Tids |-> <<>>]
    /\ wedged = FALSE

----------------------------------------------------------------------------
Cpu == Tcb(threads, current).tid
Runs(t) == ~wedged /\ t = Cpu
Operation(t, op) == Runs(t) /\ todo[t] # <<>> /\ Head(todo[t]).op = op
Done(t) == todo' = [todo EXCEPT ![t] = Tail(@)]

begin(t, call) ==
    /\ Runs(t) /\ todo[t] = <<>>
    /\ todo' = [todo EXCEPT ![t] = call]
    /\ UNCHANGED <<threads, current, owner, wedged>>

lock(t) ==
    /\ Operation(t, "lock") \/ Operation(t, "may_lock")
    /\ owner[Head(todo[t]).lock] = Free
    /\ owner' = [owner EXCEPT ![Head(todo[t]).lock] = t]
    /\ Done(t)
    /\ UNCHANGED <<threads, current, wedged>>

no_lock(t) ==
    /\ Operation(t, "may_lock")
    /\ todo' = [todo EXCEPT ![t] = Tail(Tail(@))]
    /\ UNCHANGED <<threads, current, owner, wedged>>

\* Plausible mistake; no specification uses it.
NeverUnlocksHeap(t) ==
    /\ Operation(t, "unlock")
    /\ owner' = IF Head(todo[t]).lock = "HEAP" THEN owner
                ELSE [owner EXCEPT ![Head(todo[t]).lock] = Free]
    /\ Done(t)
    /\ UNCHANGED <<threads, current, wedged>>

unlock(t) ==
    /\ Operation(t, "unlock")
    /\ owner' = [owner EXCEPT ![Head(todo[t]).lock] = Free]
    /\ Done(t)
    /\ UNCHANGED <<threads, current, wedged>>

mark(t, target) ==
    /\ Operation(t, "mark")
    /\ threads' = mark_exited(threads, target)
    /\ Done(t)
    /\ UNCHANGED <<current, owner, wedged>>

tick ==
    /\ ~wedged /\ owner["SCHED"] = Free
    /\ \E nxt \in next_ready_thread(threads, current) :
          /\ threads' = prepare_switch(threads, current, nxt)
          /\ current' = nxt
    /\ UNCHANGED <<owner, todo, wedged>>

tick_spins ==
    /\ ~wedged /\ owner["SCHED"] # Free
    /\ wedged' = TRUE
    /\ UNCHANGED <<threads, current, owner, todo>>

Step(t) == lock(t) \/ no_lock(t) \/ unlock(t) \/ \E target \in Tids : mark(t, target)

Next ==
    \/ tick \/ tick_spins
    \/ \E t \in Tids : Step(t) \/ \E call \in CallsOf(t) : begin(t, call)

\* The timer interrupts in the end, wherever the threads are; and a thread that
\* is given the CPU again and again gets through its next operation.
Spec == Init /\ [][Next]_vars /\ WF_vars(tick \/ tick_spins) /\ \A t \in Tids : SF_vars(Step(t))

----------------------------------------------------------------------------
Exited(t) == \E i \in 1 .. Len(threads) : threads[i].tid = t /\ threads[i].state = "Exited"

\* The lock a thread may have to get before it can go on.
WaitsFor(t) ==
    IF todo[t] # <<>> /\ Head(todo[t]).op \in {"lock", "may_lock"} THEN {Head(todo[t]).lock} ELSE {}

\* No threads ever wait for one another in a circle, nor one for itself: among
\* any threads there is one that waits for no lock that one of them holds.  Yet
\* calls allocate under PROCESS_TABLE and under SCHEDULER: the heap's lock comes
\* last, and the other two are never held together.
NoWaitCycle ==
    \A S \in SUBSET Tids :
        S # {} => \E t \in S : \A l \in WaitsFor(t) : owner[l] \notin S

\* Every lock is released, by its holder's own progress and the timer's, unless
\* a timer interrupt spins for SCHEDULER, or a thread is exited by another in
\* the middle of a section: the holder itself or one that has the heap.
LocksReleased ==
    \A t \in Tids, l \in LockNames :
        (owner[l] = t) ~> \/ owner[l] # t \/ wedged
                          \/ Exited(t) \/ \E u \in Tids : owner["HEAP"] = u /\ Exited(u)
=============================================================================
