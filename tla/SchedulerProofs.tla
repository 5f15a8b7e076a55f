-------------------------- MODULE SchedulerProofs --------------------------
(***************************************************************************)
(* Proofs about Scheduler.tla, for any number of threads and any sets of   *)
(* identifiers: type correctness, the ownership of the CPU, that a slot    *)
(* keeps its thread and an exited thread its state, and that round robin   *)
(* passes over no thread.                                                  *)
(***************************************************************************)
EXTENDS Scheduler, SequenceTheorems, TLAPS

----------------------------------------------------------------------------
(* The operators of ThreadTable *)

\* The scan's index arithmetic, forward and back: it goes around the table at
\* most once.
LEMMA TurnForward ==
    ASSUME NEW n \in Nat \ {0}, NEW cur \in 0 .. (n - 1), NEW k \in 1 .. (n - 1)
    PROVE  (cur + k) % n = IF cur + k < n THEN cur + k ELSE cur + k - n
<1>1. CASE cur + k < n
  BY <1>1
<1>2. CASE cur + k >= n
  BY <1>2
<1> QED BY <1>1, <1>2

LEMMA TurnBack ==
    ASSUME NEW n \in Nat \ {0}, NEW idx \in 0 .. (n - 1), NEW cur \in 0 .. (n - 1)
    PROVE  (idx - cur + n) % n = IF idx < cur THEN idx - cur + n ELSE idx - cur
<1>1. CASE idx < cur
  BY <1>1
<1>2. CASE idx >= cur
  BY <1>2
<1> QED BY <1>1, <1>2

\* What next_ready_thread returns is a Ready thread of the table other than
\* the current one, with no Ready thread between the two.
LEMMA NextReady ==
    ASSUME NEW ths \in Seq(TCB), NEW cur \in Slots(ths),
           NEW nxt \in next_ready_thread(ths, cur)
    PROVE  /\ nxt \in Slots(ths)
           /\ nxt # cur
           /\ Tcb(ths, nxt).state = "Ready"
           /\ \E k \in 1 .. (Len(ths) - 1) :
                 /\ nxt = (cur + k) % Len(ths)
                 /\ \A j \in 1 .. (k - 1) :
                       Tcb(ths, (cur + j) % Len(ths)).state # "Ready"
<1> DEFINE n == Len(ths)
<1>1. n \in Nat \ {0}
  BY LenProperties DEF Slots
<1>2. PICK k \in 1 .. (n - 1) :
        /\ nxt = (cur + k) % n
        /\ Tcb(ths, (cur + k) % n).state = "Ready"
        /\ \A j \in 1 .. (k - 1) : ~(Tcb(ths, (cur + j) % n).state = "Ready")
  BY DEF next_ready_thread
<1>3. (cur + k) % n = IF cur + k < n THEN cur + k ELSE cur + k - n
  <2>1. cur \in 0 .. (n - 1)
    BY DEF Slots
  <2> HIDE DEF n
  <2> QED BY <1>1, <2>1, TurnForward
<1>4. nxt \in Slots(ths) /\ nxt # cur
  BY <1>1, <1>2, <1>3 DEF Slots
<1> QED BY <1>2, <1>4

\* What prepare_switch does to the table, slot by slot.
LEMMA SwitchTable ==
    ASSUME NEW ths \in Seq(TCB), NEW cur \in Slots(ths), NEW nxt \in Slots(ths),
           nxt # cur
    PROVE  LET new == prepare_switch(ths, cur, nxt) IN
           /\ new \in Seq(TCB)
           /\ Len(new) = Len(ths)
           /\ \A idx \in Slots(ths) :
                 /\ Tcb(new, idx).tid = Tcb(ths, idx).tid
                 /\ Tcb(new, idx).pid = Tcb(ths, idx).pid
                 /\ Tcb(new, idx).state =
                       IF idx = nxt THEN "Running"
                       ELSE IF idx = cur THEN Preempted(Tcb(ths, cur).state)
                       ELSE Tcb(ths, idx).state
<1> DEFINE old == [ths[cur + 1] EXCEPT !.state = Preempted(@)]
           mid == [ths EXCEPT ![cur + 1] = old]
           run == [mid[nxt + 1] EXCEPT !.state = "Running"]
           new == [mid EXCEPT ![nxt + 1] = run]
<1>1. cur + 1 \in 1 .. Len(ths) /\ nxt + 1 \in 1 .. Len(ths)
  BY LenProperties DEF Slots
<1>2. ths[cur + 1] \in TCB /\ ths[nxt + 1] \in TCB
  BY <1>1, ElementOfSeq
<1>3. old \in TCB /\ old.state = Preempted(ths[cur + 1].state)
      /\ old.tid = ths[cur + 1].tid /\ old.pid = ths[cur + 1].pid
  BY <1>2 DEF TCB, Preempted, ThreadState
<1>4. /\ mid \in Seq(TCB)
      /\ Len(mid) = Len(ths)
      /\ \A j \in 1 .. Len(ths) : mid[j] = IF j = cur + 1 THEN old ELSE ths[j]
  BY <1>1, <1>3, ExceptSeq
<1>5. mid[nxt + 1] = ths[nxt + 1]
  BY <1>1, <1>4 DEF Slots
<1>6. run \in TCB /\ run.state = "Running" /\ run.tid = ths[nxt + 1].tid
      /\ run.pid = ths[nxt + 1].pid
  BY <1>2, <1>5 DEF TCB, ThreadState
<1>7. /\ new \in Seq(TCB)
      /\ Len(new) = Len(ths)
      /\ \A j \in 1 .. Len(ths) : new[j] = IF j = nxt + 1 THEN run ELSE mid[j]
  BY <1>1, <1>4, <1>6, ExceptSeq
<1>8. prepare_switch(ths, cur, nxt) = new
  BY DEF prepare_switch
<1>9. ASSUME NEW idx \in Slots(ths)
      PROVE  /\ idx + 1 \in 1 .. Len(ths)
             /\ idx + 1 = nxt + 1 <=> idx = nxt
             /\ idx + 1 = cur + 1 <=> idx = cur
  BY LenProperties DEF Slots
<1> HIDE DEF old, mid, run, new
<1> QED BY <1>3, <1>4, <1>6, <1>7, <1>8, <1>9 DEF Tcb

\* What mark_exited does: one slot at most becomes Exited, nothing else
\* changes.
LEMMA MarkTable ==
    ASSUME NEW ths \in Seq(TCB), NEW tid
    PROVE  LET new == mark_exited(ths, tid) IN
           /\ new \in Seq(TCB)
           /\ Len(new) = Len(ths)
           /\ \A idx \in Slots(ths) :
                 /\ Tcb(new, idx).tid = Tcb(ths, idx).tid
                 /\ Tcb(new, idx).pid = Tcb(ths, idx).pid
                 /\ Tcb(new, idx).state \in {Tcb(ths, idx).state, "Exited"}
<1> DEFINE n == Len(ths)
           first(i) == ths[i].tid = tid /\ \A j \in 1 .. (i - 1) : ths[j].tid # tid
           e(i) == IF first(i) THEN [ths[i] EXCEPT !.state = "Exited"] ELSE ths[i]
           new == [i \in 1 .. n |-> e(i)]
<1>1. n \in Nat
  BY LenProperties
<1>2. \A i \in 1 .. n : ths[i] \in TCB
  BY ElementOfSeq
<1>3. \A i \in 1 .. n : /\ e(i) \in TCB
                        /\ e(i).tid = ths[i].tid /\ e(i).pid = ths[i].pid
                        /\ e(i).state \in {ths[i].state, "Exited"}
  BY <1>2 DEF TCB, ThreadState
<1>4. mark_exited(ths, tid) = new
  BY DEF mark_exited
<1> HIDE DEF e
<1>5. new \in Seq(TCB)
  BY <1>1, <1>3, IsASeq
<1>6. Len(new) = n
  BY <1>1, <1>5, LenProperties
<1>7. \A idx \in Slots(ths) : idx + 1 \in 1 .. n
  BY <1>1 DEF Slots
<1> QED BY <1>3, <1>4, <1>5, <1>6, <1>7 DEF Tcb

\* What add_thread does: the old slots are as they were.
LEMMA AddTable ==
    ASSUME NEW ths \in Seq(TCB), NEW tcb \in TCB
    PROVE  LET new == Append(ths, tcb) IN
           /\ new \in Seq(TCB)
           /\ Len(new) = Len(ths) + 1
           /\ Slots(new) = Slots(ths) \cup {Len(ths)}
           /\ \A idx \in Slots(ths) : Tcb(new, idx) = Tcb(ths, idx)
           /\ Tcb(new, Len(ths)) = tcb
BY LenProperties DEF Slots, Tcb

----------------------------------------------------------------------------
(* Invariants.  CpuOwner is inductive together with the types: that current *)
(* is a slot, and that the table is a sequence of TCBs.                     *)

OwnerInv == TypeOK /\ CpuOwner

LEMMA InitOwner == Init => OwnerInv
<1> SUFFICES ASSUME Init PROVE OwnerInv
  OBVIOUS
<1> DEFINE e(i) == [tid |-> i - 1, pid |-> i - 1,
                    state |-> IF i = 1 THEN "Running" ELSE "Ready"]
<1>1. threads = [i \in 1 .. 3 |-> e(i)] /\ current = 0
  BY DEF Init, BootThreads
<1>2. \A i \in 1 .. 3 : e(i) \in TCB
  BY TidsAssumption, PidsAssumption DEF TCB, ThreadState
<1>3. /\ e(1).state = "Running"
      /\ \A i \in 2 .. 3 : e(i).state = "Ready"
  OBVIOUS
<1> HIDE DEF e
<1>4. threads \in Seq(TCB)
  BY <1>1, <1>2, IsASeq
<1>5. Len(threads) = 3
  BY <1>1, <1>4, LenProperties
<1>6. TypeOK
  BY <1>1, <1>4, <1>5 DEF TypeOK, Slots
<1>7. CpuOwner
  BY <1>1, <1>3, <1>5 DEF CpuOwner, Slots, Tcb
<1> QED BY <1>6, <1>7 DEF OwnerInv

LEMMA NextOwner == OwnerInv /\ [Next]_vars => OwnerInv'
<1> SUFFICES ASSUME TypeOK, CpuOwner, [Next]_vars
             PROVE  TypeOK' /\ CpuOwner'
  BY DEF OwnerInv
<1> USE DEF TypeOK
<1>0. Len(threads) \in Nat
  BY LenProperties
<1>1. ASSUME NEW tid \in Tids, NEW pid \in Pids, add_thread(tid, pid)
      PROVE  TypeOK' /\ CpuOwner'
  <2> DEFINE tcb == [tid |-> tid, pid |-> pid, state |-> "Ready"]
  <2>1. tcb \in TCB /\ tcb.state = "Ready"
    BY DEF TCB, ThreadState
  <2>2. threads' = Append(threads, tcb) /\ current' = current
    BY <1>1 DEF add_thread
  <2> HIDE DEF tcb
  <2>3. /\ threads' \in Seq(TCB)
        /\ Len(threads') = Len(threads) + 1
        /\ Slots(threads') = Slots(threads) \cup {Len(threads)}
        /\ \A idx \in Slots(threads) : Tcb(threads', idx) = Tcb(threads, idx)
        /\ Tcb(threads', Len(threads)) = tcb
    BY <2>1, <2>2, AddTable
  <2>4. TypeOK'
    BY <1>0, <2>2, <2>3
  <2>5. CpuOwner'
    BY <2>1, <2>2, <2>3 DEF CpuOwner
  <2> QED BY <2>4, <2>5
<1>2. CASE tick
  <2>1. PICK nxt \in next_ready_thread(threads, current) :
           /\ threads' = prepare_switch(threads, current, nxt)
           /\ current' = nxt
    BY <1>2 DEF tick
  <2>2. nxt \in Slots(threads) /\ nxt # current
    BY NextReady
  <2>3. /\ threads' \in Seq(TCB)
        /\ Len(threads') = Len(threads)
        /\ \A idx \in Slots(threads) :
              Tcb(threads', idx).state =
                 IF idx = nxt THEN "Running"
                 ELSE IF idx = current THEN Preempted(Tcb(threads, current).state)
                 ELSE Tcb(threads, idx).state
    BY <2>1, <2>2, SwitchTable
  <2>4. Slots(threads') = Slots(threads)
    BY <2>3 DEF Slots
  <2>5. TypeOK'
    BY <2>1, <2>2, <2>3, <2>4
  <2>6. Preempted(Tcb(threads, current).state) # "Running"
    BY DEF CpuOwner, Preempted
  <2>7. CpuOwner'
    BY <2>1, <2>2, <2>3, <2>4, <2>6 DEF CpuOwner
  <2> QED BY <2>5, <2>7
<1>3. ASSUME NEW tid \in Tids, mark_thread_exited(tid)
      PROVE  TypeOK' /\ CpuOwner'
  <2>1. threads' = mark_exited(threads, tid) /\ current' = current
    BY <1>3 DEF mark_thread_exited
  <2>2. /\ threads' \in Seq(TCB)
        /\ Len(threads') = Len(threads)
        /\ \A idx \in Slots(threads) :
              Tcb(threads', idx).state \in {Tcb(threads, idx).state, "Exited"}
    BY <2>1, MarkTable
  <2>3. Slots(threads') = Slots(threads)
    BY <2>2 DEF Slots
  <2> QED BY <2>1, <2>2, <2>3 DEF CpuOwner
<1>4. CASE UNCHANGED vars
  BY <1>4 DEF vars, CpuOwner, Slots, Tcb
<1> QED BY <1>1, <1>2, <1>3, <1>4 DEF Next

\* The table stays well formed and `current` one of its slots, so no index of
\* prepare_switch, current_tid or current_pid is ever out of bounds; and
\* `current` owns the CPU.
THEOREM OwnerInvariant == SafeSpec => []OwnerInv
<1>1. Init => OwnerInv
  BY InitOwner
<1>2. OwnerInv /\ [Next]_vars => OwnerInv'
  BY NextOwner
<1> QED BY <1>1, <1>2, PTL DEF SafeSpec

\* Type correctness of the scheduler.
THEOREM TypeCorrect == SafeSpec => []TypeOK
<1>1. OwnerInv => TypeOK
  BY DEF OwnerInv
<1> QED BY <1>1, OwnerInvariant, PTL

\* At every moment exactly the thread at `current` owns the CPU: no second
\* thread is Running, whatever the order of spawns, exits and ticks.
THEOREM OneOwner == SafeSpec => []CpuOwner
<1>1. OwnerInv => CpuOwner
  BY DEF OwnerInv
<1> QED BY <1>1, OwnerInvariant, PTL

----------------------------------------------------------------------------
(* Action properties *)

LEMMA StepKeepsSlots == TypeOK /\ [Next]_vars => [SlotsKept]_vars
<1> SUFFICES ASSUME TypeOK, Next
             PROVE  SlotsKept
  OBVIOUS
<1> USE DEF TypeOK
<1>1. ASSUME NEW tid \in Tids, NEW pid \in Pids, add_thread(tid, pid)
      PROVE  SlotsKept
  <2> DEFINE tcb == [tid |-> tid, pid |-> pid, state |-> "Ready"]
  <2>1. tcb \in TCB
    BY DEF TCB, ThreadState
  <2>2. threads' = Append(threads, tcb)
    BY <1>1 DEF add_thread
  <2> HIDE DEF tcb
  <2> QED BY <2>1, <2>2, AddTable DEF SlotsKept
<1>2. CASE tick
  <2>1. PICK nxt \in next_ready_thread(threads, current) :
           threads' = prepare_switch(threads, current, nxt)
    BY <1>2 DEF tick
  <2>2. nxt \in Slots(threads) /\ nxt # current /\ Tcb(threads, nxt).state = "Ready"
    BY NextReady
  <2>3. /\ Len(threads') = Len(threads)
        /\ \A idx \in Slots(threads) :
              /\ Tcb(threads', idx).tid = Tcb(threads, idx).tid
              /\ Tcb(threads', idx).state =
                    IF idx = nxt THEN "Running"
                    ELSE IF idx = current THEN Preempted(Tcb(threads, current).state)
                    ELSE Tcb(threads, idx).state
    BY <2>1, <2>2, SwitchTable
  <2>4. Slots(threads') = Slots(threads)
    BY <2>3 DEF Slots
  <2> QED BY <2>2, <2>3, <2>4 DEF SlotsKept, Preempted
<1>3. ASSUME NEW tid \in Tids, mark_thread_exited(tid)
      PROVE  SlotsKept
  <2>1. threads' = mark_exited(threads, tid)
    BY <1>3 DEF mark_thread_exited
  <2>2. /\ Len(threads') = Len(threads)
        /\ \A idx \in Slots(threads) :
              /\ Tcb(threads', idx).tid = Tcb(threads, idx).tid
              /\ Tcb(threads', idx).state \in {Tcb(threads, idx).state, "Exited"}
    BY <2>1, MarkTable
  <2>3. Slots(threads') = Slots(threads)
    BY <2>2 DEF Slots
  <2> QED BY <2>2, <2>3 DEF SlotsKept
<1> QED BY <1>1, <1>2, <1>3 DEF Next

\* No step moves or drops a TCB or brings back a thread that mark_exited has
\* marked, though the same table is scanned and rewritten by every tick.
THEOREM ExitIsForever == SafeSpec => ExitedForever
<1>1. TypeOK /\ [Next]_vars => [SlotsKept]_vars
  BY StepKeepsSlots
<1> QED BY <1>1, TypeCorrect, PTL DEF SafeSpec, ExitedForever

LEMMA StepPassesNone == OwnerInv /\ [Next]_vars => [NonePassed]_vars
<1> SUFFICES ASSUME TypeOK, CpuOwner, Next, current' # current,
                    NEW idx \in Slots(threads),
                    Tcb(threads, idx).state = "Ready", idx # current'
             PROVE  Distance(idx, current') < Distance(idx, current)
  BY DEF OwnerInv, NonePassed
<1> DEFINE n == Len(threads)
<1>1. n \in Nat \ {0} /\ current \in 0 .. (n - 1) /\ idx \in 0 .. (n - 1)
  BY LenProperties DEF TypeOK, Slots
<1>2. PICK nxt \in next_ready_thread(threads, current) : current' = nxt
  BY DEF Next, add_thread, mark_thread_exited, tick
<1>3. idx # current
  BY DEF CpuOwner
<1>4. /\ nxt \in 0 .. (n - 1)
      /\ \E k \in 1 .. (n - 1) :
            /\ nxt = (current + k) % n
            /\ \A j \in 1 .. (k - 1) :
                  Tcb(threads, (current + j) % n).state # "Ready"
  BY NextReady DEF TypeOK, Slots
<1>5. PICK k \in 1 .. (n - 1) :
        /\ nxt = (current + k) % n
        /\ \A j \in 1 .. (k - 1) : Tcb(threads, (current + j) % n).state # "Ready"
  BY <1>4
<1> DEFINE d == IF idx < current THEN idx - current + n ELSE idx - current
           e == IF idx < nxt THEN idx - nxt + n ELSE idx - nxt
<1>6. /\ (idx - current + n) % n = d
      /\ (idx - nxt + n) % n = e
      /\ (current + k) % n = IF current + k < n THEN current + k ELSE current + k - n
  <2>1. nxt \in 0 .. (n - 1)
    BY <1>4
  <2> HIDE DEF n
  <2>2. (idx - current + n) % n = d
    BY <1>1, TurnBack
  <2>3. (idx - nxt + n) % n = e
    BY <1>1, <2>1, TurnBack
  <2>4. (current + k) % n = IF current + k < n THEN current + k ELSE current + k - n
    BY <1>1, TurnForward
  <2> QED BY <2>2, <2>3, <2>4
<1>7. nxt = IF current + k < n THEN current + k ELSE current + k - n
  BY <1>5, <1>6
\* d slots to idx and k to nxt: going those k brings idx k closer, unless idx
\* is on the way; but the scan found nothing Ready there.
<1>8. d \in 1 .. (n - 1) /\ d # k
  <2>1. idx # nxt
    BY <1>2
  <2> HIDE DEF n
  <2> QED BY <1>1, <1>3, <1>7, <2>1
<1>9. ~(d < k)
  <2> SUFFICES ASSUME d < k PROVE FALSE
    OBVIOUS
  <2>1. d \in 1 .. (k - 1) /\ idx = IF current + d < n THEN current + d ELSE current + d - n
    <3> HIDE DEF n
    <3> QED BY <1>1, <1>8
  <2>2. idx = (current + d) % n
    <3> HIDE DEF n, d
    <3> QED BY <1>1, <1>8, <2>1, TurnForward
  <2> HIDE DEF d
  <2> QED BY <1>5, <2>1, <2>2
<1>10. e < d
  <2> HIDE DEF n
  <2> QED BY <1>1, <1>7, <1>8, <1>9
<1> HIDE DEF d, e
<1> QED BY <1>2, <1>6, <1>10 DEF Distance

\* Round robin is fair in every single switch: next_ready_thread skips no
\* Ready thread, so the distance of each of them to the CPU strictly falls.
THEOREM RoundRobin == SafeSpec => NoOvertaking
<1>1. OwnerInv /\ [Next]_vars => [NonePassed]_vars
  BY StepPassesNone
<1> QED BY <1>1, OwnerInvariant, PTL DEF SafeSpec, NoOvertaking
=============================================================================
