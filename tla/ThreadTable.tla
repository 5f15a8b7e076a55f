---------------------------- MODULE ThreadTable ----------------------------
(***************************************************************************)
(* The operations of `impl Scheduler` (kernel/src/scheduler.rs) on its     *)
(* Vec of thread control blocks, as operators on sequences of records with *)
(* at least the fields tid, pid and state.  Indices are the code's, from   *)
(* zero; an Option<usize> is a set with at most one element.               *)
(***************************************************************************)
EXTENDS Integers, Sequences

ThreadState == {"Ready", "Running", "Blocked", "Exited"}

Slots(ths) == 0 .. (Len(ths) - 1)

Tcb(ths, idx) == ths[idx + 1]

TidsOf(ths) == {ths[i].tid : i \in 1 .. Len(ths)}

\* What scheduler::init leaves in the table: the idle thread, which is the
\* boot context and already on the CPU, and the main threads of the two demo
\* processes.
BootThreads ==
    [i \in 1 .. 3 |-> [tid   |-> i - 1,
                       pid   |-> i - 1,
                       state |-> IF i = 1 THEN "Running" ELSE "Ready"]]

----------------------------------------------------------------------------
\* Plausible mistakes in the operators below; no specification uses them.

PreemptedAlways(state) == "Ready"

PreemptedNever(state) == state

ScanFromSlotZero(ths, cur) ==
    LET n == Len(ths)
        ready(i) == Tcb(ths, i % n).state = "Ready"
    IN  {i % n : i \in {k \in 1 .. (n - 1) :
                            ready(k) /\ \A j \in 1 .. (k - 1) : ~ready(j)}}

ScanStopsEarly(ths, cur) ==
    LET n == Len(ths)
        ready(i) == Tcb(ths, (cur + i) % n).state = "Ready"
    IN  {(cur + i) % n : i \in {k \in 1 .. (n - 2) :
                            ready(k) /\ \A j \in 1 .. (k - 1) : ~ready(j)}}

----------------------------------------------------------------------------
\* next_ready_thread: the first Ready slot after cur in cyclic order, cur
\* itself excluded; no slot if there is none (or a single thread).
next_ready_thread(ths, cur) ==
    LET n == Len(ths)
        ready(i) == Tcb(ths, (cur + i) % n).state = "Ready"
    IN  {(cur + i) % n : i \in {k \in 1 .. (n - 1) :
                            ready(k) /\ \A j \in 1 .. (k - 1) : ~ready(j)}}

\* Only a Running thread is put back to Ready: an Exited one stays Exited.
Preempted(state) == IF state = "Running" THEN "Ready" ELSE state

\* prepare_switch once nxt is chosen; the caller also sets current to nxt.
prepare_switch(ths, cur, nxt) ==
    [ths EXCEPT ![cur + 1].state = Preempted(@),
                ![nxt + 1].state = "Running"]

\* mark_exited: the first thread with this tid, whatever its state; no
\* thread if the tid is unknown.
mark_exited(ths, tid) ==
    [i \in 1 .. Len(ths) |->
        IF ths[i].tid = tid /\ \A j \in 1 .. (i - 1) : ths[j].tid # tid
        THEN [ths[i] EXCEPT !.state = "Exited"]
        ELSE ths[i]]
=============================================================================
