-------------------------- MODULE ProcessesProofs --------------------------
(***************************************************************************)
(* Proofs about Processes.tla, for any number of threads and processes and *)
(* whatever calls each thread makes.                                       *)
(***************************************************************************)
EXTENDS Processes, SequenceTheorems, FiniteSetTheorems, TLAPS

SP == INSTANCE SchedulerProofs

TCB == [tid : Tids, pid : Pids, state : ThreadState]

----------------------------------------------------------------------------
(* Lemmas *)

\* The bounds as the scheduler's module wants them.
LEMMA ConstantsFit ==
    MaxThreads \in Nat /\ 0 .. 2 \subseteq Tids /\ 0 .. 2 \subseteq Pids
BY BoundsAssumption DEF Tids, Pids

\* SchedulerProofs speaks of the same operators on the same tables.
LEMMA SameTable ==
    /\ SP!TCB = TCB
    /\ \A ths : SP!Slots(ths) = Slots(ths)
    /\ \A ths, i : SP!Tcb(ths, i) = Tcb(ths, i)
    /\ \A ths, cur : SP!next_ready_thread(ths, cur) = next_ready_thread(ths, cur)
    /\ \A ths, cur, nxt : SP!prepare_switch(ths, cur, nxt) = prepare_switch(ths, cur, nxt)
    /\ \A ths, tid : SP!mark_exited(ths, tid) = mark_exited(ths, tid)
BY DEF SP!TCB, TCB, SP!ThreadState, ThreadState, SP!Slots, Slots, SP!Tcb, Tcb,
       SP!next_ready_thread, next_ready_thread, SP!prepare_switch, prepare_switch,
       SP!mark_exited, mark_exited, SP!Preempted, Preempted

\* The three operations on the table leave the threads in it where they are.
LEMMA TickTable ==
    ASSUME NEW ths \in Seq(TCB), NEW cur \in Slots(ths),
           NEW nxt \in next_ready_thread(ths, cur),
           NEW new, new = prepare_switch(ths, cur, nxt)
    PROVE  /\ new \in Seq(TCB) /\ Len(new) = Len(ths) /\ nxt \in Slots(new)
           /\ \A i \in 1 .. Len(ths) : new[i].tid = ths[i].tid /\ new[i].pid = ths[i].pid
<1>1. nxt \in Slots(ths) /\ nxt # cur
  BY SP!NextReady, SameTable, ConstantsFit
<1>2. /\ new \in Seq(TCB) /\ Len(new) = Len(ths)
      /\ \A idx \in Slots(ths) : /\ Tcb(new, idx).tid = Tcb(ths, idx).tid
                                 /\ Tcb(new, idx).pid = Tcb(ths, idx).pid
  BY <1>1, SP!SwitchTable, SameTable, ConstantsFit
<1>3. \A i \in 1 .. Len(ths) : i - 1 \in Slots(ths) /\ (i - 1) + 1 = i
  BY LenProperties DEF Slots
<1> QED BY <1>1, <1>2, <1>3 DEF Slots, Tcb

LEMMA MarkTable ==
    ASSUME NEW ths \in Seq(TCB), NEW tid, NEW new, new = mark_exited(ths, tid)
    PROVE  /\ new \in Seq(TCB) /\ Len(new) = Len(ths)
           /\ \A i \in 1 .. Len(ths) : new[i].tid = ths[i].tid /\ new[i].pid = ths[i].pid
<1>1. /\ new \in Seq(TCB) /\ Len(new) = Len(ths)
      /\ \A idx \in Slots(ths) : /\ Tcb(new, idx).tid = Tcb(ths, idx).tid
                                 /\ Tcb(new, idx).pid = Tcb(ths, idx).pid
  BY SP!MarkTable, SameTable, ConstantsFit
<1>2. \A i \in 1 .. Len(ths) : i - 1 \in Slots(ths) /\ (i - 1) + 1 = i
  BY LenProperties DEF Slots
<1> QED BY <1>1, <1>2 DEF Tcb

LEMMA AddTable ==
    ASSUME NEW ths \in Seq(TCB), NEW tcb \in TCB, NEW new, new = Append(ths, tcb)
    PROVE  /\ new \in Seq(TCB) /\ Len(new) = Len(ths) + 1
           /\ \A i \in 1 .. Len(ths) : new[i] = ths[i]
           /\ new[Len(ths) + 1] = tcb
BY AppendProperties

\* How many of the calls f are at one of some pcs, and how that changes with
\* one of them.
CountAt(f, pcs) == Cardinality({u \in Tids : f[u].pc \in pcs})

Counts(c, pcs) == IF c.pc \in pcs THEN 1 ELSE 0

LEMMA CountAfterOne ==
    ASSUME NEW f \in [Tids -> CallState], NEW t \in Tids, NEW c \in CallState,
           NEW g, \A u \in Tids : g[u] = IF u = t THEN c ELSE f[u], NEW pcs
    PROVE  /\ CountAt(f, pcs) \in Nat /\ CountAt(g, pcs) \in Nat
           /\ CountAt(g, pcs) = CountAt(f, pcs) + Counts(c, pcs) - Counts(f[t], pcs)
<1> DEFINE O == {u \in Tids : f[u].pc \in pcs}
           N == {u \in Tids : g[u].pc \in pcs}
           R == O \ {t}
<1>1. IsFiniteSet(Tids)
  BY FS_Interval, BoundsAssumption DEF Tids
<1>2. IsFiniteSet(O) /\ IsFiniteSet(R) /\ Cardinality(O) \in Nat /\ Cardinality(R) \in Nat
  BY <1>1, FS_Subset, FS_CardinalityType
<1>3. Cardinality(R) = IF t \in O THEN Cardinality(O) - 1 ELSE Cardinality(O)
  BY <1>2, FS_RemoveElement
<1>4. N = IF c.pc \in pcs THEN R \cup {t} ELSE R
  OBVIOUS
<1>5. Cardinality(R \cup {t}) = Cardinality(R) + 1
  BY <1>2, FS_AddElement
<1>6. t \in O <=> f[t].pc \in pcs
  OBVIOUS
<1> HIDE DEF O, N, R
<1>7. /\ Cardinality(O) \in Nat /\ Cardinality(N) \in Nat
      /\ Cardinality(N) = Cardinality(O) + (IF c.pc \in pcs THEN 1 ELSE 0)
                            - (IF f[t].pc \in pcs THEN 1 ELSE 0)
  BY <1>2, <1>3, <1>4, <1>5, <1>6
<1> QED BY <1>7 DEF O, N, CountAt, Counts

LEMMA StartedPositive ==
    ASSUME call \in [Tids -> CallState], NEW t \in Tids, NEW pcs, call[t].pc \in pcs
    PROVE  Started(pcs) \in Nat \ {0}
<1> DEFINE S == {u \in Tids : call[u].pc \in pcs}
<1>1. IsFiniteSet(Tids)
  BY FS_Interval, BoundsAssumption DEF Tids
<1>2. IsFiniteSet(S) /\ S # {}
  BY <1>1, FS_Subset
<1> HIDE DEF S
<1>3. Cardinality(S) \in Nat \ {0}
  BY <1>2, FS_EmptySet, FS_CardinalityType
<1> QED BY <1>3 DEF S, Started

LEMMA StartedAfterOne ==
    ASSUME call \in [Tids -> CallState], NEW t \in Tids, NEW c \in CallState,
           \A u \in Tids : call'[u] = IF u = t THEN c ELSE call[u], NEW pcs
    PROVE  /\ Started(pcs) \in Nat /\ Started(pcs)' \in Nat
           /\ Started(pcs)' = Started(pcs) + Counts(c, pcs) - Counts(call[t], pcs)
<1>1. Started(pcs) = CountAt(call, pcs) /\ Started(pcs)' = CountAt(call', pcs)
  BY DEF Started, CountAt
<1> QED BY <1>1, CountAfterOne

----------------------------------------------------------------------------
(* Types.  TypeOK is inductive with the budget of identifiers: a call that  *)
(* is going to take one has been counted before it started.                 *)

TidTakers == {"lock_insert", "insert", "new_thread"}
PidTakers == {"lock_insert", "insert"}

Budget ==
    /\ next_tid + Started(TidTakers) <= MaxThreads
    /\ next_pid + Started(PidTakers) <= MaxProcs

\* exit_process goes on marking only with a thread left to mark.
MarksLeft ==
    \A t \in Tids : call[t].pc \in {"lock_mark", "mark_exited"} => call[t].todo # <<>>

BaseInv == TypeOK /\ Budget /\ MarksLeft

LEMMA InitBase == Init => BaseInv
<1> SUFFICES ASSUME Init PROVE BaseInv
  OBVIOUS
<1> USE BoundsAssumption
<1>1. NoCall \in CallState
  BY DEF NoCall, CallState, CallPC, Tids, Pids
<1>2. call \in [Tids -> CallState] /\ \A t \in Tids : call[t].pc = "none"
  BY <1>1 DEF Init, NoCall
<1>3. /\ BootThreads \in Seq(TCB) /\ 0 \in Slots(BootThreads)
  <2>1. SP!Init => SP!OwnerInv
    BY SP!InitOwner, ConstantsFit
  <2>2. SP!Init
    BY DEF Init, SP!Init, BootThreads, SP!BootThreads
  <2> QED BY <2>1, <2>2, SameTable DEF SP!OwnerInv, SP!TypeOK, Init
<1>4. processes \in [Pids -> PCB]
  BY DEF Init, PCB, Pids, Tids
<1>5. \A pcs : "none" \notin pcs => Started(pcs) = 0
  <2> TAKE pcs
  <2> HAVE "none" \notin pcs
  <2>1. {t \in Tids : call[t].pc \in pcs} = {}
    BY <1>2
  <2> QED BY <2>1, FS_EmptySet DEF Started
<1>6. TypeOK
  <2>1. /\ threads = BootThreads /\ current = 0 /\ next_tid = 3 /\ next_pid = 3
        /\ sched_lock = Free /\ pt_lock = Free /\ wedged = FALSE
    BY DEF Init
  <2>2. next_tid \in 0 .. MaxThreads /\ next_pid \in 0 .. MaxProcs
    BY <2>1
  <2> QED BY <1>2, <1>3, <1>4, <2>1, <2>2 DEF TypeOK, TCB
<1>7. Budget
  BY <1>5 DEF Init, Budget, TidTakers, PidTakers
<1>8. MarksLeft
  BY <1>2 DEF MarksLeft
<1> QED BY <1>6, <1>7, <1>8 DEF BaseInv

\* The arithmetic of a step: x stands at most at m with s calls to come, and
\* either the call at hand has had its own counted, or there was room.
LEMMA BudgetStep ==
    ASSUME NEW x \in Nat, NEW y \in Nat, NEW s \in Nat, NEW u \in Nat, NEW m \in Nat,
           NEW a \in 0 .. 1, NEW b \in 0 .. 1, NEW left \in BOOLEAN,
           u = s + a - b, x + s <= m, left => x + s < m,
           y + a <= x + b \/ (left /\ y = x)
    PROVE  y + u <= m
OBVIOUS

\* What one step of one call has to respect.
LEMMA OneCallMoves ==
    ASSUME BaseInv, NEW t \in Tids, NEW c \in CallState,
           call' = [call EXCEPT ![t] = c],
           next_tid' \in Nat, next_pid' \in Nat,
           \/ next_tid' + Counts(c, TidTakers) <= next_tid + Counts(call[t], TidTakers)
           \/ TidLeft /\ next_tid' = next_tid,
           \/ next_pid' + Counts(c, PidTakers) <= next_pid + Counts(call[t], PidTakers)
           \/ PidLeft /\ next_pid' = next_pid,
           c.pc \in {"lock_mark", "mark_exited"} => c.todo # <<>>
    PROVE  /\ call' \in [Tids -> CallState]
           /\ next_tid' \in 0 .. MaxThreads /\ next_pid' \in 0 .. MaxProcs
           /\ Budget' /\ MarksLeft'
<1>0. TypeOK /\ Budget /\ MarksLeft
  BY DEF BaseInv
<1>1. call \in [Tids -> CallState] /\ call' \in [Tids -> CallState]
  BY <1>0 DEF TypeOK
<1>2. ASSUME NEW pcs
      PROVE  /\ Started(pcs) \in Nat /\ Started(pcs)' \in Nat
             /\ Started(pcs)' = Started(pcs) + Counts(c, pcs) - Counts(call[t], pcs)
  <2>1. \A u \in Tids : call'[u] = IF u = t THEN c ELSE call[u]
    BY <1>1
  <2> QED BY <1>1, <2>1, StartedAfterOne
<1>3. \A pcs : Counts(c, pcs) \in 0 .. 1 /\ Counts(call[t], pcs) \in 0 .. 1
  BY DEF Counts
<1>4. next_tid \in Nat /\ next_pid \in Nat
  BY <1>0, BoundsAssumption DEF TypeOK
<1>5. next_tid' + Started(TidTakers)' <= MaxThreads
  <2>1. next_tid + Started(TidTakers) <= MaxThreads
    BY <1>0 DEF Budget
  <2>2. TidLeft => next_tid + Started(TidTakers) < MaxThreads
    BY DEF TidLeft, TidTakers
  <2> DEFINE s == Started(TidTakers)
             u == Started(TidTakers)'
             a == Counts(c, TidTakers)
             b == Counts(call[t], TidTakers)
             left == TidLeft
             y == next_tid'
  <2>3. /\ s \in Nat /\ u \in Nat /\ u = s + a - b /\ a \in 0 .. 1 /\ b \in 0 .. 1
        /\ left \in BOOLEAN /\ y \in Nat /\ MaxThreads \in Nat
    BY <1>2, <1>3, BoundsAssumption DEF TidLeft
  <2>4. next_tid + s <= MaxThreads /\ (left => next_tid + s < MaxThreads)
    BY <2>1, <2>2
  <2>5. y + a <= next_tid + b \/ (left /\ y = next_tid)
    OBVIOUS
  <2> HIDE DEF s, u, a, b, left, y
  <2>6. y + u <= MaxThreads
    BY ONLY <1>4, <2>3, <2>4, <2>5, BudgetStep
  <2> QED BY <2>6 DEF y, u
<1>6. next_pid' + Started(PidTakers)' <= MaxProcs
  <2>1. next_pid + Started(PidTakers) <= MaxProcs
    BY <1>0 DEF Budget
  <2>2. PidLeft => next_pid + Started(PidTakers) < MaxProcs
    BY DEF PidLeft, PidTakers
  <2> DEFINE s == Started(PidTakers)
             u == Started(PidTakers)'
             a == Counts(c, PidTakers)
             b == Counts(call[t], PidTakers)
             left == PidLeft
             y == next_pid'
  <2>3. /\ s \in Nat /\ u \in Nat /\ u = s + a - b /\ a \in 0 .. 1 /\ b \in 0 .. 1
        /\ left \in BOOLEAN /\ y \in Nat /\ MaxProcs \in Nat
    BY <1>2, <1>3, BoundsAssumption DEF PidLeft
  <2>4. next_pid + s <= MaxProcs /\ (left => next_pid + s < MaxProcs)
    BY <2>1, <2>2
  <2>5. y + a <= next_pid + b \/ (left /\ y = next_pid)
    OBVIOUS
  <2> HIDE DEF s, u, a, b, left, y
  <2>6. y + u <= MaxProcs
    BY ONLY <1>4, <2>3, <2>4, <2>5, BudgetStep
  <2> QED BY <2>6 DEF y, u
<1>7. /\ next_tid' \in 0 .. MaxThreads /\ next_pid' \in 0 .. MaxProcs
  BY <1>2, <1>5, <1>6, BoundsAssumption
<1>8. Budget'
  BY <1>5, <1>6 DEF Budget
<1>9. MarksLeft'
  BY <1>0, <1>1 DEF MarksLeft
<1> QED BY <1>1, <1>7, <1>8, <1>9

\* NEXT_TID and next_pid name an identifier within the bounds when it is taken.
LEMMA IdsLeft ==
    ASSUME BaseInv, NEW t \in Tids
    PROVE  /\ call[t].pc \in TidTakers => next_tid \in Tids
           /\ call[t].pc \in PidTakers => next_pid \in Pids
<1>1. /\ call \in [Tids -> CallState] /\ next_tid \in Nat /\ next_pid \in Nat
      /\ next_tid + Started(TidTakers) <= MaxThreads
      /\ next_pid + Started(PidTakers) <= MaxProcs
  BY BoundsAssumption DEF BaseInv, TypeOK, Budget
<1>2. ASSUME call[t].pc \in TidTakers PROVE next_tid \in Tids
  <2>1. Started(TidTakers) \in Nat \ {0}
    BY <1>1, <1>2, StartedPositive
  <2> QED BY <1>1, <2>1, BoundsAssumption DEF Tids
<1>3. ASSUME call[t].pc \in PidTakers PROVE next_pid \in Pids
  <2>1. Started(PidTakers) \in Nat \ {0}
    BY <1>1, <1>3, StartedPositive
  <2> QED BY <1>1, <2>1, BoundsAssumption DEF Pids
<1> QED BY <1>2, <1>3

\* What is left to mark goes into the call, or the call is over.
LEMMA MarkingType ==
    ASSUME NEW c \in CallState, NEW tids \in Seq(Tids)
    PROVE  /\ Marking(c, tids) \in CallState
           /\ Marking(c, tids).pc \in {"none", "lock_mark"}
           /\ Marking(c, tids).pc = "lock_mark" => Marking(c, tids).todo # <<>>
<1>1. CASE tids = <<>>
  <2>1. Marking(c, tids) = NoCall
    BY <1>1 DEF Marking
  <2> QED BY <2>1, BoundsAssumption DEF CallState, CallPC, NoCall, Tids, Pids
<1>2. CASE tids # <<>>
  <2>1. Marking(c, tids) = [c EXCEPT !.pc = "lock_mark", !.todo = tids]
    BY <1>2 DEF Marking
  <2> QED BY <1>2, <2>1 DEF CallState, CallPC
<1> QED BY <1>1, <1>2

\* A step of a call that takes no identifier, neither before nor after it.
LEMMA MoveWithoutIds ==
    ASSUME BaseInv, NEW t \in Tids, NEW c \in CallState,
           call' = [call EXCEPT ![t] = c],
           UNCHANGED <<next_tid, next_pid>>,
           call[t].pc \notin TidTakers \cup PidTakers, c.pc \notin TidTakers \cup PidTakers,
           c.pc \in {"lock_mark", "mark_exited"} => c.todo # <<>>
    PROVE  /\ call' \in [Tids -> CallState]
           /\ next_tid' \in 0 .. MaxThreads /\ next_pid' \in 0 .. MaxProcs
           /\ Budget' /\ MarksLeft'
<1>1. next_tid \in Nat /\ next_pid \in Nat
  BY BoundsAssumption DEF BaseInv, TypeOK
<1>2. /\ next_tid' \in Nat /\ next_pid' \in Nat
      /\ next_tid' + Counts(c, TidTakers) <= next_tid + Counts(call[t], TidTakers)
      /\ next_pid' + Counts(c, PidTakers) <= next_pid + Counts(call[t], PidTakers)
  BY <1>1 DEF Counts
<1> QED BY <1>2, OneCallMoves

\* A call that takes a lock: nothing but its pc and the lock changes.
LEMMA LockMoves ==
    ASSUME BaseInv, NEW t \in Tids, NEW to \in CallPC,
           GoTo(t, to),
           UNCHANGED <<next_tid, next_pid>>,
           call[t].pc \in TidTakers <=> to \in TidTakers,
           call[t].pc \in PidTakers <=> to \in PidTakers,
           to \in {"lock_mark", "mark_exited"} => call[t].pc \in {"lock_mark", "mark_exited"}
    PROVE  /\ call' \in [Tids -> CallState]
           /\ next_tid' \in 0 .. MaxThreads /\ next_pid' \in 0 .. MaxProcs
           /\ Budget' /\ MarksLeft'
<1> DEFINE c == [call[t] EXCEPT !.pc = to]
<1>1. call[t] \in CallState /\ call' = [call EXCEPT ![t] = c]
  BY DEF BaseInv, TypeOK, GoTo
<1>2. c \in CallState /\ c.pc = to /\ c.todo = call[t].todo
  BY <1>1 DEF CallState
<1>3. /\ Counts(c, TidTakers) = Counts(call[t], TidTakers)
      /\ Counts(c, PidTakers) = Counts(call[t], PidTakers)
  BY <1>2 DEF Counts
<1>4. next_tid \in Nat /\ next_pid \in Nat
  BY BoundsAssumption DEF BaseInv, TypeOK
<1>5. c.pc \in {"lock_mark", "mark_exited"} => c.todo # <<>>
  BY <1>2 DEF BaseInv, MarksLeft
<1> HIDE DEF c
<1>6. /\ next_tid' \in Nat /\ next_pid' \in Nat
      /\ next_tid' + Counts(c, TidTakers) <= next_tid + Counts(call[t], TidTakers)
      /\ next_pid' + Counts(c, PidTakers) <= next_pid + Counts(call[t], PidTakers)
  BY <1>3, <1>4 DEF Counts
<1> QED BY <1>1, <1>2, <1>5, <1>6, OneCallMoves

LEMMA NextBase == BaseInv /\ [Next]_vars => BaseInv'
<1> SUFFICES ASSUME BaseInv, [Next]_vars
             PROVE  BaseInv'
  OBVIOUS
<1>0. /\ TypeOK /\ Budget /\ MarksLeft
      /\ Callers \subseteq Tids /\ threads \in Seq(TCB)
  BY DEF BaseInv, Callers, TypeOK, TCB
<1>1. ASSUME NEW t \in Callers, NEW from, NEW to,
             <<from, to>> \in {<<"lock_insert", "insert">>, <<"lock_push", "push_tid">>,
                               <<"lock_zombie", "zombie">>},
             Lock_PT(t, from, to)
      PROVE  BaseInv'
  <2>1. /\ call' \in [Tids -> CallState]
        /\ next_tid' \in 0 .. MaxThreads /\ next_pid' \in 0 .. MaxProcs
        /\ Budget' /\ MarksLeft'
    <3>1. to \in CallPC
      BY <1>1 DEF CallPC, TableSections
    <3> QED BY <1>0, <1>1, <3>1, LockMoves
            DEF Lock_PT, At, TidTakers, PidTakers, schedVars, tableVars
  <2> QED BY <1>0, <1>1, <2>1 DEF BaseInv, TypeOK, Lock_PT, schedVars, tableVars
<1>2. ASSUME NEW t \in Callers, NEW from, NEW to,
             <<from, to>> \in {<<"lock_add", "add_thread">>, <<"lock_mark", "mark_exited">>},
             Lock_SCHED(t, from, to)
      PROVE  BaseInv'
  <2>1. /\ call' \in [Tids -> CallState]
        /\ next_tid' \in 0 .. MaxThreads /\ next_pid' \in 0 .. MaxProcs
        /\ Budget' /\ MarksLeft'
    <3>1. to \in CallPC
      BY <1>2 DEF CallPC, SchedSections
    <3> QED BY <1>0, <1>2, <3>1, LockMoves
            DEF Lock_SCHED, At, TidTakers, PidTakers, schedVars, tableVars
  <2> QED BY <1>0, <1>2, <2>1 DEF BaseInv, TypeOK, Lock_SCHED, schedVars, tableVars
<1>3. ASSUME NEW t \in Callers, create_process(t)
      PROVE  BaseInv'
  <2> DEFINE c == [call[t] EXCEPT !.pc = "lock_insert"]
  <2>1. t \in Tids /\ call[t] \in CallState /\ TidLeft /\ PidLeft
        /\ call' = [call EXCEPT ![t] = c]
        /\ next_tid' = next_tid /\ next_pid' = next_pid
    BY <1>0, <1>3 DEF TypeOK, create_process, GoTo, schedVars, tableVars
  <2>2. c \in CallState /\ c.pc = "lock_insert"
    BY <2>1 DEF CallState, CallPC
  <2> HIDE DEF c
  <2>3. /\ call' \in [Tids -> CallState]
        /\ next_tid' \in 0 .. MaxThreads /\ next_pid' \in 0 .. MaxProcs
        /\ Budget' /\ MarksLeft'
    <3>1. next_tid' \in Nat /\ next_pid' \in Nat
      BY <1>0, <2>1, BoundsAssumption DEF TypeOK
    <3> QED BY <2>1, <2>2, <3>1, OneCallMoves
  <2> QED BY <1>0, <1>3, <2>3 DEF BaseInv, TypeOK, create_process, schedVars, tableVars
<1>4. ASSUME NEW t \in Callers, insert(t)
      PROVE  BaseInv'
  <2> DEFINE c == [call[t] EXCEPT !.pc = "new_thread", !.pid = next_pid, !.main = TRUE]
             pcb == [state |-> "Running", threads |-> <<>>]
  <2>1. t \in Tids /\ call[t] \in CallState /\ call[t].pc = "insert"
        /\ call' = [call EXCEPT ![t] = c]
        /\ next_tid' = next_tid /\ next_pid' = next_pid + 1
        /\ next_tid \in Nat /\ next_pid \in Nat
    BY <1>0, <1>4, BoundsAssumption DEF TypeOK, insert, At, schedVars
  <2>2. next_pid \in Pids
    BY <2>1, IdsLeft DEF PidTakers
  <2>3. c \in CallState /\ c.pc = "new_thread"
    BY <2>1, <2>2 DEF CallState, CallPC
  <2>4. processes' \in [Pids -> PCB]
    <3>1. pcb \in PCB
      BY DEF PCB
    <3>2. processes \in [Pids -> PCB] /\ processes' = [processes EXCEPT ![next_pid] = pcb]
      BY <1>0, <1>4 DEF TypeOK, insert
    <3> HIDE DEF pcb
    <3> QED BY <3>1, <3>2
  <2> HIDE DEF c
  <2>5. /\ call' \in [Tids -> CallState]
        /\ next_tid' \in 0 .. MaxThreads /\ next_pid' \in 0 .. MaxProcs
        /\ Budget' /\ MarksLeft'
    <3>1. /\ Counts(call[t], TidTakers) = 1 /\ Counts(call[t], PidTakers) = 1
          /\ Counts(c, TidTakers) = 1 /\ Counts(c, PidTakers) = 0
      BY <2>1, <2>3 DEF Counts, TidTakers, PidTakers
    <3>2. /\ next_tid' \in Nat /\ next_pid' \in Nat
          /\ next_tid' + Counts(c, TidTakers) <= next_tid + Counts(call[t], TidTakers)
          /\ next_pid' + Counts(c, PidTakers) <= next_pid + Counts(call[t], PidTakers)
      BY <2>1, <3>1
    <3> QED BY <2>1, <2>3, <3>2, OneCallMoves
  <2> QED BY <1>0, <1>4, <2>4, <2>5 DEF BaseInv, TypeOK, insert, schedVars
<1>5. ASSUME NEW t \in Callers, NEW pid \in Pids, spawn_thread(t, pid)
      PROVE  BaseInv'
  <2> DEFINE c == [call[t] EXCEPT !.pc = "new_thread", !.pid = pid]
  <2>1. t \in Tids /\ call[t] \in CallState /\ call[t].pc = "none" /\ TidLeft
        /\ call' = [call EXCEPT ![t] = c]
        /\ next_tid' = next_tid /\ next_pid' = next_pid
        /\ next_tid \in Nat /\ next_pid \in Nat
    BY <1>0, <1>5, BoundsAssumption DEF TypeOK, spawn_thread, At, schedVars, tableVars
  <2>2. c \in CallState /\ c.pc = "new_thread"
    BY <2>1 DEF CallState, CallPC
  <2> HIDE DEF c
  <2>3. /\ call' \in [Tids -> CallState]
        /\ next_tid' \in 0 .. MaxThreads /\ next_pid' \in 0 .. MaxProcs
        /\ Budget' /\ MarksLeft'
    <3>1. Counts(call[t], PidTakers) = 0 /\ Counts(c, PidTakers) = 0
      BY <2>1, <2>2 DEF Counts, PidTakers
    <3>2. /\ next_tid' \in Nat /\ next_pid' \in Nat
          /\ next_pid' + Counts(c, PidTakers) <= next_pid + Counts(call[t], PidTakers)
      BY <2>1, <3>1
    <3> QED BY <2>1, <2>2, <3>2, OneCallMoves
  <2> QED BY <1>0, <1>5, <2>3 DEF BaseInv, TypeOK, spawn_thread, schedVars, tableVars
<1>6. ASSUME NEW t \in Callers, new_thread(t)
      PROVE  BaseInv'
  <2> DEFINE c == [call[t] EXCEPT !.pc = "lock_add", !.tid = next_tid]
  <2>1. t \in Tids /\ call[t] \in CallState /\ call[t].pc = "new_thread"
        /\ call' = [call EXCEPT ![t] = c]
        /\ next_tid' = next_tid + 1 /\ next_pid' = next_pid
        /\ next_tid \in Nat /\ next_pid \in Nat
    BY <1>0, <1>6, BoundsAssumption DEF TypeOK, new_thread, At, tableVars
  <2>2. next_tid \in Tids
    BY <2>1, IdsLeft DEF TidTakers
  <2>3. c \in CallState /\ c.pc = "lock_add"
    BY <2>1, <2>2 DEF CallState, CallPC
  <2> HIDE DEF c
  <2>4. /\ call' \in [Tids -> CallState]
        /\ next_tid' \in 0 .. MaxThreads /\ next_pid' \in 0 .. MaxProcs
        /\ Budget' /\ MarksLeft'
    <3>1. /\ Counts(call[t], TidTakers) = 1 /\ Counts(call[t], PidTakers) = 0
          /\ Counts(c, TidTakers) = 0 /\ Counts(c, PidTakers) = 0
      BY <2>1, <2>3 DEF Counts, TidTakers, PidTakers
    <3>2. /\ next_tid' \in Nat /\ next_pid' \in Nat
          /\ next_tid' + Counts(c, TidTakers) <= next_tid + Counts(call[t], TidTakers)
          /\ next_pid' + Counts(c, PidTakers) <= next_pid + Counts(call[t], PidTakers)
      BY <2>1, <3>1
    <3> QED BY <2>1, <2>3, <3>2, OneCallMoves
  <2> QED BY <1>0, <1>6, <2>4 DEF BaseInv, TypeOK, new_thread, tableVars
<1>7. ASSUME NEW t \in Callers, add_thread(t)
      PROVE  BaseInv'
  <2> DEFINE c == IF call[t].main THEN [call[t] EXCEPT !.pc = "lock_push"] ELSE NoCall
             tcb == [tid |-> call[t].tid, pid |-> call[t].pid, state |-> "Ready"]
  <2>1. t \in Tids /\ call[t] \in CallState /\ call[t].pc = "add_thread"
        /\ call' = [call EXCEPT ![t] = c]
        /\ next_tid' = next_tid /\ next_pid' = next_pid
        /\ next_tid \in Nat /\ next_pid \in Nat
        /\ threads' = Append(threads, tcb) /\ current' = current
    BY <1>0, <1>7, BoundsAssumption DEF TypeOK, add_thread, At, tableVars
  <2>2. c \in CallState /\ c.pc \in {"none", "lock_push"}
    <3>1. NoCall \in CallState /\ NoCall.pc = "none"
      BY BoundsAssumption DEF CallState, CallPC, NoCall, Tids, Pids
    <3>2. LET d == [call[t] EXCEPT !.pc = "lock_push"] IN d \in CallState /\ d.pc = "lock_push"
      BY <2>1 DEF CallState, CallPC
    <3> QED BY <3>1, <3>2
  <2>3. threads' \in Seq(TCB) /\ current' \in Slots(threads')
    <3>1. tcb \in TCB
      BY <2>1 DEF TCB, CallState, ThreadState
    <3> HIDE DEF tcb
    <3>2. threads' \in Seq(TCB) /\ Len(threads') = Len(threads) + 1
      BY <1>0, <2>1, <3>1, AddTable
    <3> QED BY <1>0, <2>1, <3>2, LenProperties DEF TypeOK, Slots
  <2> HIDE DEF c
  <2>4. /\ call' \in [Tids -> CallState]
        /\ next_tid' \in 0 .. MaxThreads /\ next_pid' \in 0 .. MaxProcs
        /\ Budget' /\ MarksLeft'
    BY <2>1, <2>2, MoveWithoutIds DEF TidTakers, PidTakers
  <2> QED BY <1>0, <1>7, <2>3, <2>4 DEF BaseInv, TypeOK, TCB, add_thread, tableVars
<1>8. ASSUME NEW t \in Callers, push_tid(t)
      PROVE  BaseInv'
  <2> DEFINE pid == call[t].pid
             pcb == [processes[pid] EXCEPT !.threads = Append(@, call[t].tid)]
  <2>1. t \in Tids /\ call[t] \in CallState /\ call[t].pc = "push_tid"
        /\ call' = [call EXCEPT ![t] = NoCall]
        /\ next_tid' = next_tid /\ next_pid' = next_pid
    BY <1>0, <1>8 DEF TypeOK, push_tid, At, schedVars
  <2>2. NoCall \in CallState /\ NoCall.pc = "none"
    BY BoundsAssumption DEF CallState, CallPC, NoCall, Tids, Pids
  <2>3. processes' \in [Pids -> PCB]
    <3>1. pid \in Pids /\ call[t].tid \in Tids /\ processes[pid] \in PCB
      BY <1>0, <2>1 DEF TypeOK, CallState
    <3>2. processes' = [processes EXCEPT ![pid] = pcb]
      BY <1>8 DEF push_tid
    <3>3. pcb \in PCB
      <4>1. Append(processes[pid].threads, call[t].tid) \in Seq(Tids)
        BY <3>1, AppendProperties DEF PCB
      <4> QED BY <3>1, <4>1 DEF PCB
    <3> HIDE DEF pcb, pid
    <3> QED BY <1>0, <3>1, <3>2, <3>3 DEF TypeOK
  <2>4. /\ call' \in [Tids -> CallState]
        /\ next_tid' \in 0 .. MaxThreads /\ next_pid' \in 0 .. MaxProcs
        /\ Budget' /\ MarksLeft'
    BY <2>1, <2>2, MoveWithoutIds DEF TidTakers, PidTakers
  <2> QED BY <1>0, <1>8, <2>3, <2>4 DEF BaseInv, TypeOK, push_tid, schedVars
<1>9. ASSUME NEW t \in Callers, NEW pid \in Pids, exit_process(t, pid)
      PROVE  BaseInv'
  <2> DEFINE c == [call[t] EXCEPT !.pc = "lock_zombie", !.pid = pid]
  <2>1. t \in Tids /\ call[t] \in CallState /\ call[t].pc = "none"
        /\ call' = [call EXCEPT ![t] = c]
        /\ next_tid' = next_tid /\ next_pid' = next_pid
    BY <1>0, <1>9 DEF TypeOK, exit_process, At, schedVars, tableVars
  <2>2. c \in CallState /\ c.pc = "lock_zombie"
    BY <2>1 DEF CallState, CallPC
  <2> HIDE DEF c
  <2>3. /\ call' \in [Tids -> CallState]
        /\ next_tid' \in 0 .. MaxThreads /\ next_pid' \in 0 .. MaxProcs
        /\ Budget' /\ MarksLeft'
    BY <2>1, <2>2, MoveWithoutIds DEF TidTakers, PidTakers
  <2> QED BY <1>0, <1>9, <2>3 DEF BaseInv, TypeOK, exit_process, schedVars, tableVars
<1>10. ASSUME NEW t \in Callers, zombie(t)
       PROVE  BaseInv'
  <2> DEFINE pid == call[t].pid
             pcb == [processes[pid] EXCEPT !.state = "Zombie"]
             c == Marking(call[t], processes[pid].threads)
  <2>1. t \in Tids /\ call[t] \in CallState /\ call[t].pc = "zombie"
        /\ call' = [call EXCEPT ![t] = c]
        /\ next_tid' = next_tid /\ next_pid' = next_pid
    BY <1>0, <1>10 DEF TypeOK, zombie, At, schedVars
  <2>2. pid \in Pids /\ processes[pid] \in PCB
    BY <1>0, <2>1 DEF TypeOK, CallState
  <2>3. c \in CallState /\ c.pc \in {"none", "lock_mark"} /\ (c.pc = "lock_mark" => c.todo # <<>>)
    BY <2>1, <2>2, MarkingType DEF PCB
  <2>4. processes' \in [Pids -> PCB]
    <3>1. processes' = processes \/ processes' = [processes EXCEPT ![pid] = pcb]
      BY <1>10 DEF zombie
    <3>2. pcb \in PCB
      BY <2>2 DEF PCB
    <3> HIDE DEF pcb, pid
    <3> QED BY <1>0, <2>2, <3>1, <3>2 DEF TypeOK
  <2> HIDE DEF c
  <2>5. /\ call' \in [Tids -> CallState]
        /\ next_tid' \in 0 .. MaxThreads /\ next_pid' \in 0 .. MaxProcs
        /\ Budget' /\ MarksLeft'
    BY <2>1, <2>3, MoveWithoutIds DEF TidTakers, PidTakers
  <2> QED BY <1>0, <1>10, <2>4, <2>5 DEF BaseInv, TypeOK, zombie, schedVars
<1>11. ASSUME NEW t \in Callers, mark_thread_exited(t)
       PROVE  BaseInv'
  <2> DEFINE c == Marking(call[t], Tail(call[t].todo))
  <2>1. t \in Tids /\ call[t] \in CallState /\ call[t].pc = "mark_exited"
        /\ call' = [call EXCEPT ![t] = c]
        /\ next_tid' = next_tid /\ next_pid' = next_pid /\ current' = current
        /\ threads' = mark_exited(threads, Head(call[t].todo))
    BY <1>0, <1>11 DEF TypeOK, mark_thread_exited, At, tableVars
  <2>2. c \in CallState /\ c.pc \in {"none", "lock_mark"} /\ (c.pc = "lock_mark" => c.todo # <<>>)
    <3>1. call[t].todo # <<>> /\ call[t].todo \in Seq(Tids)
      BY <1>0, <2>1 DEF MarksLeft, CallState
    <3>2. Tail(call[t].todo) \in Seq(Tids)
      BY <3>1, HeadTailProperties
    <3> QED BY <2>1, <3>2, MarkingType
  <2>3. threads' \in Seq(TCB) /\ Len(threads') = Len(threads)
    BY <1>0, <2>1, MarkTable
  <2> HIDE DEF c
  <2>4. /\ call' \in [Tids -> CallState]
        /\ next_tid' \in 0 .. MaxThreads /\ next_pid' \in 0 .. MaxProcs
        /\ Budget' /\ MarksLeft'
    BY <2>1, <2>2, MoveWithoutIds DEF TidTakers, PidTakers
  <2> QED BY <1>0, <1>11, <2>1, <2>3, <2>4
          DEF BaseInv, TypeOK, TCB, mark_thread_exited, tableVars, Slots
<1>12. CASE tick
  <2>1. PICK nxt \in next_ready_thread(threads, current) :
           threads' = prepare_switch(threads, current, nxt) /\ current' = nxt
    BY <1>12 DEF tick
  <2>2. threads' \in Seq(TCB) /\ current' \in Slots(threads')
    BY <1>0, <2>1, TickTable DEF TypeOK
  <2> QED BY <1>0, <1>12, <2>2
          DEF BaseInv, TypeOK, TCB, tick, tableVars, Budget, Started, MarksLeft
<1>13. CASE tick_spins \/ UNCHANGED vars
  BY <1>0, <1>13 DEF BaseInv, TypeOK, tick_spins, vars, schedVars, tableVars, Budget, Started,
                     MarksLeft
<1> QED
  BY <1>1, <1>2, <1>3, <1>4, <1>5, <1>6, <1>7, <1>8, <1>9, <1>10, <1>11, <1>12, <1>13
     DEF Next, CallStep, StartCall, lock_insert, lock_push, lock_zombie, lock_add, lock_mark

\* Type correctness of the calls, the locks and the tables: no call under way
\* runs out of identifiers, and exit_process never takes the head of an empty list.
THEOREM TypeCorrect == SafeSpec => []TypeOK
<1>1. Init => BaseInv
  BY InitBase
<1>2. BaseInv /\ [Next]_vars => BaseInv'
  BY NextBase
<1>3. BaseInv => TypeOK
  BY DEF BaseInv
<1> QED BY <1>1, <1>2, <1>3, PTL DEF SafeSpec

----------------------------------------------------------------------------
(* What each step does to the calls: one call moves, the others stay.       *)

Moves(t, pc, pid, tid, main) ==
    /\ call'[t].pc = pc /\ call'[t].pid = pid /\ call'[t].tid = tid /\ call'[t].main = main
    /\ \A u \in Tids \ {t} : call'[u] = call[u]

\* To another pc, with what the call is about unchanged.
Advances(t, from, to) ==
    /\ call[t].pc = from
    /\ Moves(t, to, call[t].pid, call[t].tid, call[t].main)

Returns(t, from) == call[t].pc = from /\ Moves(t, "none", 0, 0, FALSE)

\* exit_process has another thread to mark, or is done.
MarksNext(t, from) == Advances(t, from, "lock_mark") \/ Returns(t, from)

LEMMA OneMoves ==
    ASSUME call \in [Tids -> CallState], NEW t \in Tids, NEW c,
           call' = [call EXCEPT ![t] = c]
    PROVE  Moves(t, c.pc, c.pid, c.tid, c.main)
BY DEF Moves

LEMMA MarkingMoves ==
    ASSUME NEW c \in CallState, NEW tids
    PROVE  LET m == Marking(c, tids) IN
           \/ m.pc = "lock_mark" /\ m.pid = c.pid /\ m.tid = c.tid /\ m.main = c.main
           \/ m.pc = "none" /\ m.pid = 0 /\ m.tid = 0 /\ m.main = FALSE
<1>1. CASE tids = <<>>
  <2>1. Marking(c, tids) = NoCall
    BY <1>1 DEF Marking
  <2> QED BY <2>1 DEF NoCall
<1>2. CASE tids # <<>>
  <2>1. Marking(c, tids) = [c EXCEPT !.pc = "lock_mark", !.todo = tids]
    BY <1>2 DEF Marking
  <2> QED BY <2>1 DEF CallState
<1> QED BY <1>1, <1>2

LEMMA CallMoves ==
    ASSUME BaseInv, NEW t \in Callers
    PROVE  /\ create_process(t) => Advances(t, "none", "lock_insert")
           /\ lock_insert(t) => Advances(t, "lock_insert", "insert")
           /\ insert(t) => /\ call[t].pc = "insert"
                           /\ Moves(t, "new_thread", next_pid, call[t].tid, TRUE)
           /\ \A pid \in Pids : spawn_thread(t, pid) =>
                /\ call[t].pc = "none"
                /\ Moves(t, "new_thread", pid, call[t].tid, call[t].main)
           /\ new_thread(t) => /\ call[t].pc = "new_thread"
                               /\ Moves(t, "lock_add", call[t].pid, next_tid, call[t].main)
           /\ lock_add(t) => Advances(t, "lock_add", "add_thread")
           /\ add_thread(t) => IF call[t].main THEN Advances(t, "add_thread", "lock_push")
                                               ELSE Returns(t, "add_thread")
           /\ lock_push(t) => Advances(t, "lock_push", "push_tid")
           /\ push_tid(t) => Returns(t, "push_tid")
           /\ \A pid \in Pids : exit_process(t, pid) =>
                /\ call[t].pc = "none"
                /\ Moves(t, "lock_zombie", pid, call[t].tid, call[t].main)
           /\ lock_zombie(t) => Advances(t, "lock_zombie", "zombie")
           /\ zombie(t) => MarksNext(t, "zombie")
           /\ lock_mark(t) => Advances(t, "lock_mark", "mark_exited")
           /\ mark_thread_exited(t) => MarksNext(t, "mark_exited")
<1>0. call \in [Tids -> CallState] /\ t \in Tids /\ call[t] \in CallState
  BY DEF BaseInv, TypeOK, Callers
<1>1. ASSUME NEW from, NEW to, At(t, from), GoTo(t, to)
      PROVE  Advances(t, from, to)
  <2> DEFINE c == [call[t] EXCEPT !.pc = to]
  <2>1. call' = [call EXCEPT ![t] = c] /\ call[t].pc = from
    BY <1>1 DEF GoTo, At
  <2>2. c.pc = to /\ c.pid = call[t].pid /\ c.tid = call[t].tid /\ c.main = call[t].main
    BY <1>0 DEF CallState
  <2> HIDE DEF c
  <2>3. Moves(t, c.pc, c.pid, c.tid, c.main)
    BY <1>0, <2>1, OneMoves
  <2> QED BY <2>1, <2>2, <2>3 DEF Advances
<1>2. /\ create_process(t) => Advances(t, "none", "lock_insert")
      /\ lock_insert(t) => Advances(t, "lock_insert", "insert")
      /\ lock_push(t) => Advances(t, "lock_push", "push_tid")
      /\ lock_zombie(t) => Advances(t, "lock_zombie", "zombie")
      /\ lock_add(t) => Advances(t, "lock_add", "add_thread")
      /\ lock_mark(t) => Advances(t, "lock_mark", "mark_exited")
  BY <1>1 DEF create_process, lock_insert, lock_push, lock_zombie, Lock_PT, lock_add, lock_mark,
              Lock_SCHED
<1>3. insert(t) => call[t].pc = "insert" /\ Moves(t, "new_thread", next_pid, call[t].tid, TRUE)
  <2> DEFINE c == [call[t] EXCEPT !.pc = "new_thread", !.pid = next_pid, !.main = TRUE]
  <2>1. c.pc = "new_thread" /\ c.pid = next_pid /\ c.tid = call[t].tid /\ c.main = TRUE
    BY <1>0 DEF CallState
  <2>2. insert(t) => call' = [call EXCEPT ![t] = c] /\ call[t].pc = "insert"
    BY DEF insert, At
  <2> HIDE DEF c
  <2>3. insert(t) => Moves(t, c.pc, c.pid, c.tid, c.main)
    BY <1>0, <2>2, OneMoves
  <2> QED BY <2>1, <2>2, <2>3
<1>4. ASSUME NEW pid \in Pids, spawn_thread(t, pid)
      PROVE  call[t].pc = "none" /\ Moves(t, "new_thread", pid, call[t].tid, call[t].main)
  <2> DEFINE c == [call[t] EXCEPT !.pc = "new_thread", !.pid = pid]
  <2>1. c.pc = "new_thread" /\ c.pid = pid /\ c.tid = call[t].tid /\ c.main = call[t].main
    BY <1>0 DEF CallState
  <2>2. call' = [call EXCEPT ![t] = c] /\ call[t].pc = "none"
    BY <1>4 DEF spawn_thread, At
  <2> HIDE DEF c
  <2>3. Moves(t, c.pc, c.pid, c.tid, c.main)
    BY <1>0, <2>2, OneMoves
  <2> QED BY <2>1, <2>2, <2>3
<1>5. new_thread(t) => /\ call[t].pc = "new_thread"
                       /\ Moves(t, "lock_add", call[t].pid, next_tid, call[t].main)
  <2> DEFINE c == [call[t] EXCEPT !.pc = "lock_add", !.tid = next_tid]
  <2>1. c.pc = "lock_add" /\ c.pid = call[t].pid /\ c.tid = next_tid /\ c.main = call[t].main
    BY <1>0 DEF CallState
  <2>2. new_thread(t) => call' = [call EXCEPT ![t] = c] /\ call[t].pc = "new_thread"
    BY DEF new_thread, At
  <2> HIDE DEF c
  <2>3. new_thread(t) => Moves(t, c.pc, c.pid, c.tid, c.main)
    BY <1>0, <2>2, OneMoves
  <2> QED BY <2>1, <2>2, <2>3
<1>6. ASSUME add_thread(t)
      PROVE  IF call[t].main THEN Advances(t, "add_thread", "lock_push")
                             ELSE Returns(t, "add_thread")
  <2> DEFINE c == [call[t] EXCEPT !.pc = "lock_push"]
  <2>1. c.pc = "lock_push" /\ c.pid = call[t].pid /\ c.tid = call[t].tid /\ c.main = call[t].main
    BY <1>0 DEF CallState
  <2>2. call' = [call EXCEPT ![t] = IF call[t].main THEN c ELSE NoCall]
        /\ call[t].pc = "add_thread"
    BY <1>6 DEF add_thread, At
  <2> HIDE DEF c
  <2>3. CASE call[t].main
    <3>1. Moves(t, c.pc, c.pid, c.tid, c.main)
      BY <1>0, <2>2, <2>3, OneMoves
    <3> QED BY <2>1, <2>2, <2>3, <3>1 DEF Advances
  <2>4. CASE ~call[t].main
    <3>1. Moves(t, NoCall.pc, NoCall.pid, NoCall.tid, NoCall.main)
      BY <1>0, <2>2, <2>4, OneMoves
    <3> QED BY <2>2, <2>4, <3>1 DEF Returns, NoCall
  <2> QED BY <2>3, <2>4
<1>7. push_tid(t) => Returns(t, "push_tid")
  <2>1. push_tid(t) => Moves(t, NoCall.pc, NoCall.pid, NoCall.tid, NoCall.main)
    BY <1>0, OneMoves DEF push_tid
  <2> QED BY <2>1 DEF push_tid, At, Returns, NoCall
<1>8. ASSUME NEW pid \in Pids, exit_process(t, pid)
      PROVE  call[t].pc = "none" /\ Moves(t, "lock_zombie", pid, call[t].tid, call[t].main)
  <2> DEFINE c == [call[t] EXCEPT !.pc = "lock_zombie", !.pid = pid]
  <2>1. c.pc = "lock_zombie" /\ c.pid = pid /\ c.tid = call[t].tid /\ c.main = call[t].main
    BY <1>0 DEF CallState
  <2>2. call' = [call EXCEPT ![t] = c] /\ call[t].pc = "none"
    BY <1>8 DEF exit_process, At
  <2> HIDE DEF c
  <2>3. Moves(t, c.pc, c.pid, c.tid, c.main)
    BY <1>0, <2>2, OneMoves
  <2> QED BY <2>1, <2>2, <2>3
<1>9. ASSUME NEW from, NEW tids, call[t].pc = from,
             call' = [call EXCEPT ![t] = Marking(call[t], tids)]
      PROVE  MarksNext(t, from)
  <2> DEFINE c == Marking(call[t], tids)
  <2>1. \/ c.pc = "lock_mark" /\ c.pid = call[t].pid /\ c.tid = call[t].tid /\ c.main = call[t].main
        \/ c.pc = "none" /\ c.pid = 0 /\ c.tid = 0 /\ c.main = FALSE
    BY <1>0, MarkingMoves
  <2>2. Moves(t, c.pc, c.pid, c.tid, c.main)
    BY <1>0, <1>9, OneMoves
  <2> HIDE DEF c
  <2> QED BY <1>9, <2>1, <2>2 DEF MarksNext, Advances, Returns
<1>10. zombie(t) => MarksNext(t, "zombie")
  BY <1>9 DEF zombie, At
<1>11. mark_thread_exited(t) => MarksNext(t, "mark_exited")
  BY <1>9 DEF mark_thread_exited, At
<1> QED BY <1>2, <1>3, <1>4, <1>5, <1>6, <1>7, <1>8, <1>10, <1>11

----------------------------------------------------------------------------
(* Locks.  Inductive with the types alone: a step changes the pc of one     *)
(* call and the lock that goes with it.                                     *)

LEMMA InitLocks == Init => LocksProtectSections
BY BoundsAssumption DEF Init, LocksProtectSections, NoCall, TableSections, SchedSections, Free, Tids

LEMMA NextLocks == BaseInv /\ LocksProtectSections /\ [Next]_vars => LocksProtectSections'
<1> SUFFICES ASSUME BaseInv, LocksProtectSections, [Next]_vars
             PROVE  LocksProtectSections'
  OBVIOUS
<1>0. Callers \subseteq Tids /\ \A t \in Tids : t # Free
  BY BoundsAssumption DEF Callers, Tids, Free
<1> USE DEF Moves, Advances, Returns, MarksNext, TableSections, SchedSections
<1>1. ASSUME NEW t \in Callers, lock_insert(t) \/ lock_push(t) \/ lock_zombie(t)
      PROVE  LocksProtectSections'
  <2>1. pt_lock = Free /\ pt_lock' = t /\ UNCHANGED <<sched_lock, threads, current>>
    BY <1>1 DEF lock_insert, lock_push, lock_zombie, Lock_PT, schedVars
  <2>2. /\ call[t].pc \in {"lock_insert", "lock_push", "lock_zombie"}
        /\ call'[t].pc \in TableSections
        /\ \A u \in Tids \ {t} : call'[u] = call[u]
    BY <1>1, CallMoves
  <2> QED BY <1>0, <2>1, <2>2 DEF LocksProtectSections, Cpu
<1>2. ASSUME NEW t \in Callers, lock_add(t) \/ lock_mark(t)
      PROVE  LocksProtectSections'
  <2>1. /\ sched_lock = Free /\ sched_lock' = t /\ t = Cpu
        /\ UNCHANGED <<pt_lock, threads, current>>
    BY <1>2 DEF lock_add, lock_mark, Lock_SCHED, At, schedVars
  <2>2. /\ call[t].pc \in {"lock_add", "lock_mark"} /\ call'[t].pc \in SchedSections
        /\ \A u \in Tids \ {t} : call'[u] = call[u]
    BY <1>2, CallMoves
  <2> QED BY <1>0, <2>1, <2>2 DEF LocksProtectSections, Cpu
<1>3. ASSUME NEW t \in Callers, create_process(t) \/ new_thread(t)
             \/ \E pid \in Pids : spawn_thread(t, pid) \/ exit_process(t, pid)
      PROVE  LocksProtectSections'
  <2>1. UNCHANGED <<sched_lock, pt_lock, threads, current>>
    BY <1>3 DEF create_process, new_thread, spawn_thread, exit_process, schedVars
  <2>2. \E to \in {"lock_insert", "lock_add", "new_thread", "lock_zombie"} :
           call[t].pc \in {"none", "new_thread"} /\ call'[t].pc = to
    BY <1>3, CallMoves
  <2>3. \A u \in Tids \ {t} : call'[u] = call[u]
    BY <1>3, CallMoves
  <2> QED BY <1>0, <2>1, <2>2, <2>3 DEF LocksProtectSections, Cpu
<1>4. ASSUME NEW t \in Callers, insert(t) \/ push_tid(t) \/ zombie(t)
      PROVE  LocksProtectSections'
  <2>1. pt_lock' = Free /\ UNCHANGED <<sched_lock, threads, current>>
    BY <1>4 DEF insert, push_tid, zombie, schedVars
  <2>2. /\ call[t].pc \in TableSections /\ call'[t].pc \in {"new_thread", "none", "lock_mark"}
        /\ \A u \in Tids \ {t} : call'[u] = call[u]
    BY <1>4, CallMoves
  <2> QED BY <1>0, <2>1, <2>2 DEF LocksProtectSections, Cpu
<1>5. ASSUME NEW t \in Callers, add_thread(t) \/ mark_thread_exited(t)
      PROVE  LocksProtectSections'
  <2>1. sched_lock' = Free /\ UNCHANGED pt_lock
    BY <1>5 DEF add_thread, mark_thread_exited
  <2>2. /\ call[t].pc \in SchedSections /\ call'[t].pc \in {"lock_push", "none", "lock_mark"}
        /\ \A u \in Tids \ {t} : call'[u] = call[u]
    BY <1>5, CallMoves
  <2> QED BY <1>0, <2>1, <2>2 DEF LocksProtectSections
<1>6. CASE tick \/ tick_spins \/ UNCHANGED vars
  BY <1>0, <1>6 DEF LocksProtectSections, tick, tick_spins, vars, schedVars, Cpu
<1> QED BY <1>1, <1>2, <1>3, <1>4, <1>5, <1>6 DEF Next, CallStep, StartCall

\* No two threads are ever in sections of one lock, and whoever the timer
\* switches to finds SCHEDULER unlocked: the tick that would find it locked
\* is the one that wedges the machine.
THEOREM SectionsExclusive == SafeSpec => []LocksProtectSections
<1>1. Init => BaseInv /\ LocksProtectSections
  BY InitBase, InitLocks
<1>2. BaseInv /\ LocksProtectSections /\ [Next]_vars => BaseInv' /\ LocksProtectSections'
  BY NextBase, NextLocks
<1> QED BY <1>1, <1>2, PTL DEF SafeSpec

----------------------------------------------------------------------------
(* Tids.  A tid taken from NEXT_TID is in one place only: in one thread of  *)
(* the table, or in one call that is about to add its thread.               *)

Reserving == {"lock_add", "add_thread"}

IdsUnique ==
    /\ \A i \in 1 .. Len(threads) : threads[i].tid < next_tid
    /\ \A i, j \in 1 .. Len(threads) : threads[i].tid = threads[j].tid => i = j
    /\ \A t \in Tids : call[t].pc \in Reserving =>
          /\ call[t].tid < next_tid
          /\ \A i \in 1 .. Len(threads) : threads[i].tid # call[t].tid
    /\ \A t, u \in Tids : /\ call[t].pc \in Reserving /\ call[u].pc \in Reserving
                          /\ call[t].tid = call[u].tid
                          => t = u

\* The table keeps its threads.
Kept ==
    /\ Len(threads') = Len(threads)
    /\ \A i \in 1 .. Len(threads) : /\ threads'[i].tid = threads[i].tid
                                    /\ threads'[i].pid = threads[i].pid

\* The table gains a thread at its end.
Gains(tid, pid) ==
    /\ Len(threads') = Len(threads) + 1
    /\ \A i \in 1 .. Len(threads) : threads'[i] = threads[i]
    /\ threads'[Len(threads) + 1].tid = tid /\ threads'[Len(threads) + 1].pid = pid

LEMMA TableSteps ==
    ASSUME BaseInv
    PROVE  /\ UNCHANGED threads => Kept
           /\ tick => Kept
           /\ \A t \in Callers : mark_thread_exited(t) => Kept
           /\ \A t \in Callers : add_thread(t) => Gains(call[t].tid, call[t].pid)
<1>0. threads \in Seq(TCB) /\ current \in Slots(threads) /\ Len(threads) \in Nat
  BY LenProperties DEF BaseInv, TypeOK, TCB
<1>1. ASSUME tick PROVE Kept
  <2>1. PICK nxt \in next_ready_thread(threads, current) :
           threads' = prepare_switch(threads, current, nxt)
    BY <1>1 DEF tick
  <2> QED BY <1>0, <2>1, TickTable DEF Kept
<1>2. ASSUME NEW t \in Callers, mark_thread_exited(t) PROVE Kept
  <2>1. threads' = mark_exited(threads, Head(call[t].todo))
    BY <1>2 DEF mark_thread_exited
  <2> QED BY <1>0, <2>1, MarkTable DEF Kept
<1>3. ASSUME NEW t \in Callers, add_thread(t) PROVE Gains(call[t].tid, call[t].pid)
  <2> DEFINE tcb == [tid |-> call[t].tid, pid |-> call[t].pid, state |-> "Ready"]
  <2>1. threads' = Append(threads, tcb)
    BY <1>3 DEF add_thread
  <2>2. tcb \in TCB /\ tcb.tid = call[t].tid /\ tcb.pid = call[t].pid
    BY DEF BaseInv, TypeOK, Callers, CallState, TCB, ThreadState
  <2> HIDE DEF tcb
  <2>3. /\ Len(threads') = Len(threads) + 1
        /\ \A i \in 1 .. Len(threads) : threads'[i] = threads[i]
        /\ threads'[Len(threads) + 1] = tcb
    BY <1>0, <2>1, <2>2, AddTable
  <2> QED BY <2>2, <2>3 DEF Gains
<1>4. UNCHANGED threads => Kept
  BY DEF Kept
<1> QED BY <1>1, <1>2, <1>3, <1>4

LEMMA InitIds == Init => IdsUnique
<1> SUFFICES ASSUME Init PROVE IdsUnique
  OBVIOUS
<1>1. Len(threads) = 3 /\ \A i \in 1 .. 3 : threads[i].tid = i - 1
  BY DEF Init, BootThreads
<1>2. next_tid = 3 /\ \A t \in Tids : call[t].pc \notin Reserving
  BY DEF Init, NoCall, Reserving
<1> QED BY <1>1, <1>2 DEF IdsUnique

\* A step that takes no tid: what a call has reserved, it had before.
LEMMA IdsKept ==
    ASSUME BaseInv, IdsUnique, Kept, UNCHANGED next_tid,
           \A u \in Tids : call'[u].pc \in Reserving =>
                              call[u].pc \in Reserving /\ call'[u].tid = call[u].tid
    PROVE  IdsUnique'
BY DEF IdsUnique, Kept

LEMMA NextIds == BaseInv /\ IdsUnique /\ [Next]_vars => IdsUnique'
<1> SUFFICES ASSUME BaseInv, IdsUnique, [Next]_vars
             PROVE  IdsUnique'
  OBVIOUS
<1>0. /\ Callers \subseteq Tids /\ next_tid \in Nat /\ Len(threads) \in Nat
      /\ \A i \in 1 .. Len(threads) : threads[i].tid \in Nat
      /\ \A u \in Tids : call[u].tid \in Nat
  <2>1. threads \in Seq(TCB) /\ Tids \subseteq Nat /\ call \in [Tids -> CallState]
    BY BoundsAssumption DEF BaseInv, TypeOK, TCB, Tids
  <2>2. \A i \in 1 .. Len(threads) : threads[i] \in TCB
    BY <2>1, ElementOfSeq
  <2> QED BY <2>1, <2>2, LenProperties, BoundsAssumption
          DEF BaseInv, TypeOK, TCB, CallState, Callers
<1>1. ASSUME NEW t \in Callers, CallStep(t) \/ StartCall(t), ~new_thread(t), ~add_thread(t)
      PROVE  IdsUnique'
  <2>1. Kept
    BY <1>1, TableSteps
       DEF CallStep, StartCall, create_process, lock_insert, insert, spawn_thread, lock_add,
           lock_push, push_tid, exit_process, lock_zombie, zombie, lock_mark, Lock_PT, Lock_SCHED,
           schedVars
  <2>2. UNCHANGED next_tid
    BY <1>1
       DEF CallStep, StartCall, create_process, lock_insert, insert, spawn_thread, lock_add,
           lock_push, push_tid, exit_process, lock_zombie, zombie, lock_mark, Lock_PT, Lock_SCHED,
           schedVars, mark_thread_exited
  <2>3. /\ \A u \in Tids \ {t} : call'[u] = call[u]
        /\ call'[t].pc \in Reserving => call[t].pc \in Reserving /\ call'[t].tid = call[t].tid
    BY <1>1, CallMoves
       DEF CallStep, StartCall, Moves, Advances, Returns, MarksNext, Reserving
  <2> QED BY <1>0, <2>1, <2>2, <2>3, IdsKept
<1>2. ASSUME NEW t \in Callers, new_thread(t)
      PROVE  IdsUnique'
  <2>1. next_tid' = next_tid + 1 /\ threads' = threads
    BY <1>2 DEF new_thread
  <2>2. /\ call'[t].pc = "lock_add" /\ call'[t].tid = next_tid
        /\ \A u \in Tids \ {t} : call'[u] = call[u]
    BY <1>2, CallMoves DEF Moves
  <2>3. \A i \in 1 .. Len(threads) : threads[i].tid < next_tid + 1
    BY <1>0 DEF IdsUnique
  <2>4. \A u \in Tids : call'[u].pc \in Reserving =>
           /\ call'[u].tid < next_tid + 1
           /\ \A i \in 1 .. Len(threads) : threads[i].tid # call'[u].tid
    BY <1>0, <2>2 DEF IdsUnique
  <2>5. \A u, v \in Tids : /\ call'[u].pc \in Reserving /\ call'[v].pc \in Reserving
                           /\ call'[u].tid = call'[v].tid
                           => u = v
    BY <1>0, <2>2 DEF IdsUnique
  <2> QED BY <2>1, <2>3, <2>4, <2>5 DEF IdsUnique
<1>3. ASSUME NEW t \in Callers, add_thread(t)
      PROVE  IdsUnique'
  <2> DEFINE n == Len(threads)
  <2>1. /\ Len(threads') = n + 1 /\ \A i \in 1 .. n : threads'[i] = threads[i]
        /\ threads'[n + 1].tid = call[t].tid
    BY <1>3, TableSteps DEF Gains
  <2>2. /\ call[t].pc = "add_thread" /\ call'[t].pc \notin Reserving
        /\ \A u \in Tids \ {t} : call'[u] = call[u]
    BY <1>3, CallMoves DEF Moves, Advances, Returns, Reserving
  <2>3. next_tid' = next_tid
    BY <1>3 DEF add_thread
  <2>4. /\ call[t].tid < next_tid /\ \A i \in 1 .. n : threads[i].tid # call[t].tid
        /\ \A u \in Tids \ {t} : call[u].pc \in Reserving => call[u].tid # call[t].tid
    BY <1>0, <2>2 DEF IdsUnique, Reserving
  <2>5. \A i \in 1 .. (n + 1) : i \in 1 .. n \/ i = n + 1
    BY <1>0
  <2>6. /\ \A i \in 1 .. (n + 1) : threads'[i].tid < next_tid
        /\ \A i, j \in 1 .. (n + 1) : threads'[i].tid = threads'[j].tid => i = j
    BY <2>1, <2>4, <2>5 DEF IdsUnique
  <2>7. \A u \in Tids : call'[u].pc \in Reserving =>
           /\ call'[u].tid < next_tid
           /\ \A i \in 1 .. (n + 1) : threads'[i].tid # call'[u].tid
    BY <2>1, <2>2, <2>4, <2>5 DEF IdsUnique
  <2>8. \A u, v \in Tids : /\ call'[u].pc \in Reserving /\ call'[v].pc \in Reserving
                           /\ call'[u].tid = call'[v].tid
                           => u = v
    BY <2>2 DEF IdsUnique
  <2> QED BY <2>1, <2>3, <2>6, <2>7, <2>8 DEF IdsUnique
<1>4. CASE tick \/ tick_spins \/ UNCHANGED vars
  <2>1. Kept /\ UNCHANGED <<next_tid, call>>
    BY <1>4, TableSteps DEF tick, tick_spins, vars, schedVars
  <2> QED BY <2>1, IdsKept
<1> QED BY <1>1, <1>2, <1>3, <1>4 DEF Next

----------------------------------------------------------------------------
(* PCBs.  Every pid below next_pid has its PCB, and one that records no     *)
(* thread has exactly one create_process under way for it.                  *)

MainPCs == {"new_thread", "lock_add", "add_thread", "lock_push", "push_tid"}
Pushing == {"lock_push", "push_tid"}

HasThread(ths, tid, pid) == \E i \in 1 .. Len(ths) : ths[i].tid = tid /\ ths[i].pid = pid

Unrecorded(pcb) == pcb.state # "Absent" /\ pcb.threads = <<>>

CreatorInv ==
    /\ \A pid \in Pids : processes[pid].state = "Absent" <=> pid >= next_pid
    /\ \A pid \in Pids : processes[pid].state = "Absent" => processes[pid].threads = <<>>
    /\ \A t \in Tids : call[t].main => call[t].pc \in MainPCs
    /\ \A t \in Tids : call[t].pc \in Pushing =>
          call[t].main /\ HasThread(threads, call[t].tid, call[t].pid)
    /\ \A t, u \in Tids : call[t].main /\ call[u].main /\ call[t].pid = call[u].pid => t = u
    /\ \A t \in Tids : call[t].main => Unrecorded(processes[call[t].pid])
    /\ \A pid \in Pids : Unrecorded(processes[pid]) => \E t \in Tids : call[t].main /\ call[t].pid = pid

LEMMA InitCreator == Init => CreatorInv
<1> SUFFICES ASSUME Init PROVE CreatorInv
  OBVIOUS
<1>1. \A t \in Tids : call[t].pc = "none" /\ ~call[t].main
  BY DEF Init, NoCall
<1>2. /\ \A pid \in Pids : pid < 3 => processes[pid].state = "Running"
                                      /\ processes[pid].threads = <<pid>>
      /\ \A pid \in Pids : pid >= 3 => processes[pid].state = "Absent"
                                       /\ processes[pid].threads = <<>>
      /\ next_pid = 3
  BY BoundsAssumption DEF Init, Pids
<1>3. \A pid \in Pids : <<pid>> # <<>> /\ (pid < 3 \/ pid >= 3) /\ ~(pid < 3 /\ pid >= 3)
  BY BoundsAssumption DEF Pids
<1>4. \A pid \in Pids : ~Unrecorded(processes[pid])
  BY <1>2, <1>3 DEF Unrecorded
<1> QED BY <1>1, <1>2, <1>3, <1>4 DEF CreatorInv, Pushing

\* A step that is none of the three that make the main thread of a process.
SameProcesses ==
    /\ next_pid' = next_pid
    /\ \A pid \in Pids : /\ processes'[pid].state = "Absent" <=> processes[pid].state = "Absent"
                         /\ processes'[pid].threads = processes[pid].threads

Quiet(u) ==
    /\ call'[u].main = call[u].main
    /\ call[u].main => call'[u].pid = call[u].pid /\ call'[u].pc \in MainPCs
    /\ call'[u].pc \in Pushing <=> call[u].pc \in Pushing
    /\ call[u].pc \in Pushing => call'[u].tid = call[u].tid

LEMMA CreatorKept ==
    ASSUME BaseInv, CreatorInv, SameProcesses, \A u \in Tids : Quiet(u),
           Kept \/ \E tid, pid : Gains(tid, pid)
    PROVE  CreatorInv'
<1>1. \A pid \in Pids : Unrecorded(processes'[pid]) <=> Unrecorded(processes[pid])
  BY DEF SameProcesses, Unrecorded
<1>2. \A tid, pid : HasThread(threads, tid, pid) => HasThread(threads', tid, pid)
  <2>1. Len(threads) \in Nat
    BY LenProperties DEF BaseInv, TypeOK
  <2>2. \A i \in 1 .. Len(threads) : /\ i \in 1 .. Len(threads')
                                     /\ threads'[i].tid = threads[i].tid
                                     /\ threads'[i].pid = threads[i].pid
    BY <2>1 DEF Kept, Gains
  <2> QED BY <2>2 DEF HasThread
<1>3. \A t \in Tids : call[t].pid \in Pids
  BY DEF BaseInv, TypeOK, CallState
<1>4. /\ \A pid \in Pids : processes'[pid].state = "Absent" <=> pid >= next_pid'
      /\ \A pid \in Pids : processes'[pid].state = "Absent" => processes'[pid].threads = <<>>
  BY DEF CreatorInv, SameProcesses
<1>5. /\ \A t \in Tids : call'[t].main => call'[t].pc \in MainPCs
      /\ \A t \in Tids : call'[t].pc \in Pushing =>
            call'[t].main /\ HasThread(threads', call'[t].tid, call'[t].pid)
  BY <1>2 DEF CreatorInv, Quiet
<1>6. /\ \A t, u \in Tids : call'[t].main /\ call'[u].main /\ call'[t].pid = call'[u].pid => t = u
      /\ \A t \in Tids : call'[t].main => Unrecorded(processes'[call'[t].pid])
      /\ \A pid \in Pids : Unrecorded(processes'[pid]) => \E t \in Tids : call'[t].main /\ call'[t].pid = pid
  BY <1>1, <1>3 DEF CreatorInv, Quiet
<1> QED BY <1>4, <1>5, <1>6 DEF CreatorInv

LEMMA TableSame ==
    ASSUME BaseInv, NEW t \in Callers, CallStep(t) \/ StartCall(t), ~insert(t), ~push_tid(t)
    PROVE  SameProcesses
<1>1. CASE ~zombie(t)
  BY <1>1 DEF CallStep, StartCall, create_process, lock_insert, spawn_thread, new_thread, lock_add,
          add_thread, lock_push, exit_process, lock_zombie, lock_mark, mark_thread_exited, Lock_PT,
          Lock_SCHED, tableVars, SameProcesses
<1>2. CASE zombie(t)
  <2> DEFINE pid == call[t].pid
             pcb == [processes[pid] EXCEPT !.state = "Zombie"]
  <2>1. pid \in Pids /\ processes \in [Pids -> PCB] /\ processes[pid] \in PCB
    BY DEF BaseInv, TypeOK, Callers, CallState
  <2>2. pcb.state = "Zombie" /\ pcb.threads = processes[pid].threads
    BY <2>1 DEF PCB
  <2>3. /\ next_pid' = next_pid
        /\ \/ processes' = processes
           \/ processes[pid].state # "Absent" /\ processes' = [processes EXCEPT ![pid] = pcb]
    BY <1>2 DEF zombie
  <2> HIDE DEF pid, pcb
  <2> QED BY <2>1, <2>2, <2>3 DEF SameProcesses
<1> QED BY <1>1, <1>2

LEMMA NextCreator == BaseInv /\ CreatorInv /\ [Next]_vars => CreatorInv'
<1> SUFFICES ASSUME BaseInv, CreatorInv, [Next]_vars
             PROVE  CreatorInv'
  OBVIOUS
<1>0. /\ Callers \subseteq Tids /\ Len(threads) \in Nat /\ next_pid \in Nat /\ Pids \subseteq Nat
      /\ processes \in [Pids -> PCB] /\ \A u \in Tids : call[u].pid \in Pids
  BY LenProperties, BoundsAssumption DEF BaseInv, TypeOK, Callers, CallState, Pids
<1>1. ASSUME NEW t \in Callers, CallStep(t) \/ StartCall(t), ~insert(t), ~push_tid(t),
             ~(add_thread(t) /\ call[t].main)
      PROVE  CreatorInv'
  <2>1. SameProcesses
    BY <1>1, TableSame
  <2>2. Kept \/ \E tid, pid : Gains(tid, pid)
    BY <1>1, TableSteps
       DEF CallStep, StartCall, create_process, lock_insert, spawn_thread, new_thread, lock_add,
           lock_push, exit_process, lock_zombie, zombie, lock_mark, Lock_PT, Lock_SCHED, schedVars
  <2>3. \A u \in Tids \ {t} : Quiet(u)
    <3>1. \A u \in Tids \ {t} : call'[u] = call[u]
      BY <1>1, CallMoves DEF CallStep, StartCall, Moves, Advances, Returns, MarksNext
    <3> QED BY <3>1 DEF Quiet, CreatorInv
  <2>4. Quiet(t)
    <3>1. /\ call[t].main => call[t].pc \in MainPCs
          /\ call[t].pc \in Pushing => call[t].main
      BY <1>0 DEF CreatorInv
    <3>2. call[t].main \in BOOLEAN
      BY DEF BaseInv, TypeOK, Callers, CallState
    <3>3. CASE lock_insert(t) \/ lock_zombie(t) \/ lock_mark(t) \/ lock_push(t) \/ lock_add(t)
               \/ create_process(t)
      BY <3>1, <3>3, CallMoves DEF Quiet, Advances, Moves, MainPCs, Pushing
    <3>4. CASE new_thread(t)
      BY <3>1, <3>4, CallMoves DEF Quiet, Moves, MainPCs, Pushing
    <3>5. CASE add_thread(t)
      BY <1>1, <3>1, <3>2, <3>5, CallMoves DEF Quiet, Returns, Moves, MainPCs, Pushing
    <3>6. CASE zombie(t) \/ mark_thread_exited(t)
      BY <3>1, <3>2, <3>6, CallMoves DEF Quiet, MarksNext, Advances, Returns, Moves, MainPCs, Pushing
    <3>7. CASE \E pid \in Pids : spawn_thread(t, pid) \/ exit_process(t, pid)
      BY <3>1, <3>2, <3>7, CallMoves DEF Quiet, Moves, MainPCs, Pushing
    <3> QED BY <1>1, <3>3, <3>4, <3>5, <3>6, <3>7 DEF CallStep, StartCall
  <2> QED BY <2>1, <2>2, <2>3, <2>4, CreatorKept
<1>2. ASSUME NEW t \in Callers, insert(t)
      PROVE  CreatorInv'
  <2> DEFINE pcb == [state |-> "Running", threads |-> <<>>]
  <2>1. next_pid \in Pids
    BY <1>0, <1>2, IdsLeft DEF insert, At, PidTakers
  <2>2. /\ processes'[next_pid].state = "Running" /\ processes'[next_pid].threads = <<>>
        /\ \A pid \in Pids \ {next_pid} : processes'[pid] = processes[pid]
        /\ next_pid' = next_pid + 1 /\ threads' = threads
    <3>1. processes' = [processes EXCEPT ![next_pid] = pcb] /\ next_pid' = next_pid + 1
          /\ threads' = threads
      BY <1>2 DEF insert, schedVars
    <3>2. pcb.state = "Running" /\ pcb.threads = <<>>
      OBVIOUS
    <3> HIDE DEF pcb
    <3> QED BY <1>0, <2>1, <3>1, <3>2
  <2>3. /\ call[t].pc = "insert" /\ call'[t].pc = "new_thread" /\ call'[t].pid = next_pid
        /\ call'[t].main = TRUE
        /\ \A u \in Tids \ {t} : call'[u] = call[u]
    BY <1>2, CallMoves DEF Moves
  <2>4. ~call[t].main
    BY <1>0, <2>3 DEF CreatorInv, MainPCs
  <2>5. /\ processes[next_pid].state = "Absent"
        /\ \A u \in Tids : call[u].main => call[u].pid # next_pid
    BY <1>0, <2>1 DEF CreatorInv, Unrecorded
  <2>6. /\ Unrecorded(processes'[next_pid])
        /\ \A pid \in Pids \ {next_pid} : Unrecorded(processes'[pid]) <=> Unrecorded(processes[pid])
    BY <2>2 DEF Unrecorded
  <2>7. /\ \A pid \in Pids : processes'[pid].state = "Absent" <=> pid >= next_pid'
        /\ \A pid \in Pids : processes'[pid].state = "Absent" => processes'[pid].threads = <<>>
    <3>1. \A pid \in Pids \ {next_pid} : pid >= next_pid <=> pid >= next_pid + 1
      BY <1>0
    <3>2. ~(next_pid >= next_pid + 1)
      BY <1>0
    <3> QED BY <2>1, <2>2, <3>1, <3>2 DEF CreatorInv
  <2>8. /\ \A u \in Tids : call'[u].main => call'[u].pc \in MainPCs
        /\ \A u \in Tids : call'[u].pc \in Pushing =>
              call'[u].main /\ HasThread(threads', call'[u].tid, call'[u].pid)
    BY <2>2, <2>3 DEF CreatorInv, MainPCs, Pushing, HasThread
  <2>9. /\ \A u, v \in Tids : call'[u].main /\ call'[v].main /\ call'[u].pid = call'[v].pid => u = v
        /\ \A u \in Tids : call'[u].main => Unrecorded(processes'[call'[u].pid])
    <3>1. \A u \in Tids : call'[u].main /\ u # t =>
             call[u].main /\ call'[u].pid = call[u].pid /\ call[u].pid \in Pids \ {next_pid}
      BY <1>0, <2>3, <2>5
    <3>2. /\ \A u, v \in Tids : call[u].main /\ call[v].main /\ call[u].pid = call[v].pid => u = v
          /\ \A u \in Tids : call[u].main => Unrecorded(processes[call[u].pid])
      BY DEF CreatorInv
    <3>3. call'[t].pid = next_pid
      BY <2>3
    <3>4. \A u, v \in Tids : call'[u].main /\ call'[v].main /\ call'[u].pid = call'[v].pid => u = v
      BY <3>1, <3>2, <3>3
    <3>5. \A u \in Tids : call'[u].main => Unrecorded(processes'[call'[u].pid])
      BY <2>6, <3>1, <3>2, <3>3
    <3> QED BY <3>4, <3>5
  <2>10. \A pid \in Pids : Unrecorded(processes'[pid]) => \E u \in Tids : call'[u].main /\ call'[u].pid = pid
    BY <1>0, <2>3, <2>4, <2>6 DEF CreatorInv
  <2> QED BY <2>7, <2>8, <2>9, <2>10 DEF CreatorInv
<1>3. ASSUME NEW t \in Callers, add_thread(t), call[t].main
      PROVE  CreatorInv'
  <2>1. UNCHANGED <<processes, next_pid>>
    BY <1>3 DEF add_thread, tableVars
  <2>2. /\ call'[t].pc = "lock_push" /\ call'[t].pid = call[t].pid /\ call'[t].tid = call[t].tid
        /\ call'[t].main = call[t].main
        /\ \A u \in Tids \ {t} : call'[u] = call[u]
    BY <1>3, CallMoves DEF Advances, Moves
  <2>3. HasThread(threads', call[t].tid, call[t].pid)
    <3>1. /\ call'[t].tid = call[t].tid /\ call'[t].pid = call[t].pid
          /\ Len(threads') = Len(threads) + 1
          /\ threads'[Len(threads) + 1].tid = call[t].tid
          /\ threads'[Len(threads) + 1].pid = call[t].pid
      BY <1>3, <2>2, TableSteps DEF Gains
    <3>2. Len(threads) + 1 \in 1 .. (Len(threads) + 1)
      BY <1>0
    <3> QED BY <3>1, <3>2 DEF HasThread
  <2>4. \A tid, pid : HasThread(threads, tid, pid) => HasThread(threads', tid, pid)
    <3>1. \A i \in 1 .. Len(threads) : i \in 1 .. Len(threads') /\ threads'[i] = threads[i]
      BY <1>0, <1>3, TableSteps DEF Gains
    <3> QED BY <3>1 DEF HasThread
  <2>5. \A pid : Unrecorded(processes'[pid]) <=> Unrecorded(processes[pid])
    BY <2>1 DEF Unrecorded
  <2>6. /\ \A u \in Tids : call'[u].main => call'[u].pc \in MainPCs
        /\ \A u \in Tids : call'[u].pc \in Pushing =>
              call'[u].main /\ HasThread(threads', call'[u].tid, call'[u].pid)
    <3>1. \A u \in Tids : call[u].main => call[u].pc \in MainPCs
      BY DEF CreatorInv
    <3>2. \A u \in Tids : call[u].pc \in Pushing =>
             call[u].main /\ HasThread(threads', call[u].tid, call[u].pid)
      BY <2>4 DEF CreatorInv
    <3>3. call'[t].main /\ call'[t].pc \in MainPCs /\ HasThread(threads', call'[t].tid, call'[t].pid)
      BY <1>3, <2>2, <2>3 DEF MainPCs
    <3> QED BY <2>2, <3>1, <3>2, <3>3
  <2>7. /\ \A u, v \in Tids : call'[u].main /\ call'[v].main /\ call'[u].pid = call'[v].pid => u = v
        /\ \A u \in Tids : call'[u].main => Unrecorded(processes'[call'[u].pid])
        /\ \A pid \in Pids : Unrecorded(processes'[pid]) => \E u \in Tids : call'[u].main /\ call'[u].pid = pid
    BY <2>2, <2>5 DEF CreatorInv
  <2> QED BY <2>1, <2>6, <2>7 DEF CreatorInv
<1>4. ASSUME NEW t \in Callers, push_tid(t)
      PROVE  CreatorInv'
  <2> DEFINE pid == call[t].pid
             pcb == [processes[pid] EXCEPT !.threads = Append(@, call[t].tid)]
  <2>1. /\ call[t].pc = "push_tid" /\ call'[t].pc = "none" /\ call'[t].main = FALSE
        /\ \A u \in Tids \ {t} : call'[u] = call[u]
    BY <1>4, CallMoves DEF Returns, Moves
  <2>2. call[t].main /\ Unrecorded(processes[pid]) /\ pid \in Pids /\ call[t].tid \in Tids
    BY <1>0, <2>1 DEF CreatorInv, Pushing, BaseInv, TypeOK, CallState
  <2>3. /\ processes'[pid].state = processes[pid].state /\ processes'[pid].threads # <<>>
        /\ \A p \in Pids \ {pid} : processes'[p] = processes[p]
        /\ next_pid' = next_pid /\ threads' = threads
    <3>1. /\ processes' = [processes EXCEPT ![pid] = pcb] /\ next_pid' = next_pid
          /\ threads' = threads
      BY <1>4 DEF push_tid, schedVars
    <3>2. pcb.state = processes[pid].state /\ pcb.threads # <<>>
      <4>1. processes[pid] \in PCB
        BY <1>0, <2>2
      <4>2. Append(processes[pid].threads, call[t].tid) # <<>>
        BY <2>2, <4>1, AppendProperties DEF PCB
      <4> QED BY <4>1, <4>2 DEF PCB
    <3> HIDE DEF pcb, pid
    <3> QED BY <1>0, <2>2, <3>1, <3>2
  <2>4. ~Unrecorded(processes'[pid]) /\ \A p \in Pids \ {pid} : Unrecorded(processes'[p]) <=> Unrecorded(processes[p])
    <3>1. call[t].pid = pid
      OBVIOUS
    <3> HIDE DEF pid
    <3> QED BY <2>3 DEF Unrecorded
  <2> HIDE DEF pcb
  <2>5. /\ \A p \in Pids : processes'[p].state = "Absent" <=> p >= next_pid'
        /\ \A p \in Pids : processes'[p].state = "Absent" => processes'[p].threads = <<>>
    BY <2>2, <2>3 DEF CreatorInv, Unrecorded
  <2>6. /\ \A u \in Tids : call'[u].main => call'[u].pc \in MainPCs
        /\ \A u \in Tids : call'[u].pc \in Pushing =>
              call'[u].main /\ HasThread(threads', call'[u].tid, call'[u].pid)
    BY <2>1, <2>3 DEF CreatorInv, MainPCs, Pushing, HasThread
  <2>7. /\ \A u, v \in Tids : call'[u].main /\ call'[v].main /\ call'[u].pid = call'[v].pid => u = v
        /\ \A u \in Tids : call'[u].main => call'[u].pid # pid /\ call'[u].pid \in Pids
    BY <1>0, <2>1, <2>2 DEF CreatorInv
  <2>8. /\ \A u \in Tids : call'[u].main => Unrecorded(processes'[call'[u].pid])
        /\ \A p \in Pids : Unrecorded(processes'[p]) => \E u \in Tids : call'[u].main /\ call'[u].pid = p
    BY <2>1, <2>4, <2>7 DEF CreatorInv
  <2> QED BY <2>5, <2>6, <2>7, <2>8 DEF CreatorInv
<1>5. CASE tick \/ tick_spins \/ UNCHANGED vars
  <2>1. UNCHANGED <<call, processes, next_pid>>
    BY <1>5 DEF tick, tick_spins, vars, tableVars
  <2>2. Kept
    BY <1>5, TableSteps DEF tick_spins, vars, schedVars
  <2>3. SameProcesses /\ \A u \in Tids : Quiet(u)
    BY <2>1 DEF SameProcesses, Quiet, CreatorInv
  <2> QED BY <2>2, <2>3, CreatorKept
<1> QED BY <1>1, <1>2, <1>3, <1>4, <1>5 DEF Next

(* PcbNamesItsThreads is inductive with all of the above: what push_tid     *)
(* records is the tid of the one thread that add_thread put into the table  *)
(* for this process.                                                        *)

ProcInv == BaseInv /\ LocksProtectSections /\ IdsUnique /\ CreatorInv /\ PcbNamesItsThreads

\* A list of tids that name threads of pid, each once.
NamesThreads(tids, ths, pid) ==
    /\ \A i \in 1 .. Len(tids) :
          /\ tids[i] \in TidsOf(ths)
          /\ \A k \in 1 .. Len(ths) : ths[k].tid = tids[i] => ths[k].pid = pid
    /\ \A i, j \in 1 .. Len(tids) : tids[i] = tids[j] => i = j

LEMMA PcbNamesDef ==
    /\ PcbNamesItsThreads
          <=> \A pid \in Pids : NamesThreads(processes[pid].threads, threads, pid)
    /\ PcbNamesItsThreads'
          <=> \A pid \in Pids : NamesThreads(processes'[pid].threads, threads', pid)
BY DEF PcbNamesItsThreads, NamesThreads

LEMMA TidsOfDef ==
    ASSUME NEW ths, NEW tid
    PROVE  tid \in TidsOf(ths) <=> \E k \in 1 .. Len(ths) : ths[k].tid = tid
BY DEF TidsOf

LEMMA InitPcb == Init => PcbNamesItsThreads
<1> SUFFICES ASSUME Init, NEW pid \in Pids
             PROVE  NamesThreads(processes[pid].threads, threads, pid)
  BY PcbNamesDef
<1>1. Len(threads) = 3 /\ \A i \in 1 .. 3 : threads[i].tid = i - 1 /\ threads[i].pid = i - 1
  BY DEF Init, BootThreads
<1>2. CASE pid < 3
  <2>1. processes[pid].threads = <<pid>>
    BY <1>2 DEF Init
  <2>2. Len(<<pid>>) = 1 /\ <<pid>>[1] = pid
    OBVIOUS
  <2>3. pid + 1 \in 1 .. 3 /\ \A k \in 1 .. 3 : k - 1 = pid => k = pid + 1
    BY <1>2, BoundsAssumption DEF Pids
  <2>4. \A i \in 1 .. 1 : i = 1
    OBVIOUS
  <2>5. (pid + 1) - 1 = pid
    BY BoundsAssumption DEF Pids
  <2>6. pid \in TidsOf(threads)
    BY <1>1, <2>3, <2>5, TidsOfDef
  <2> QED BY <1>1, <2>1, <2>2, <2>3, <2>4, <2>6 DEF NamesThreads
<1>3. CASE ~(pid < 3)
  <2>1. processes[pid].threads = <<>>
    BY <1>3 DEF Init
  <2> QED BY <2>1 DEF NamesThreads
<1> QED BY <1>2, <1>3

LEMMA NextPcb == ProcInv /\ [Next]_vars => PcbNamesItsThreads'
<1> SUFFICES ASSUME ProcInv, [Next]_vars, NEW pid \in Pids
             PROVE  NamesThreads(processes'[pid].threads, threads', pid)
  BY PcbNamesDef
<1>0. /\ BaseInv /\ IdsUnique /\ CreatorInv
      /\ NamesThreads(processes[pid].threads, threads, pid)
  BY PcbNamesDef DEF ProcInv
<1>1. /\ Callers \subseteq Tids /\ Len(threads) \in Nat
      /\ processes[pid] \in PCB /\ processes \in [Pids -> PCB]
  BY <1>0, LenProperties DEF BaseInv, TypeOK, Callers
<1>2. ASSUME processes'[pid].threads = processes[pid].threads, Kept
      PROVE  NamesThreads(processes'[pid].threads, threads', pid)
  <2>1. TidsOf(threads') = TidsOf(threads)
    BY <1>2 DEF TidsOf, Kept
  <2> QED BY <1>0, <1>2, <2>1 DEF NamesThreads, Kept
<1>3. ASSUME NEW t \in Callers, CallStep(t) \/ StartCall(t), ~insert(t), ~push_tid(t), ~add_thread(t)
      PROVE  NamesThreads(processes'[pid].threads, threads', pid)
  <2>1. SameProcesses
    BY <1>0, <1>3, TableSame
  <2>2. Kept
    BY <1>0, <1>3, TableSteps
       DEF CallStep, StartCall, create_process, lock_insert, spawn_thread, new_thread, lock_add,
           lock_push, exit_process, lock_zombie, zombie, lock_mark, Lock_PT, Lock_SCHED, schedVars
  <2> QED BY <1>2, <2>1, <2>2 DEF SameProcesses
<1>4. ASSUME NEW t \in Callers, insert(t)
      PROVE  NamesThreads(processes'[pid].threads, threads', pid)
  <2>1. Kept
    BY <1>0, <1>4, TableSteps DEF insert, schedVars
  <2>2. CASE pid = next_pid
    <3>1. processes'[pid].threads = <<>>
      BY <1>1, <1>4, <2>2 DEF insert
    <3> QED BY <3>1 DEF NamesThreads
  <2>3. CASE pid # next_pid
    <3>1. processes'[pid] = processes[pid]
      BY <1>1, <1>4, <2>3 DEF insert
    <3> QED BY <1>2, <2>1, <3>1
  <2> QED BY <2>2, <2>3
<1>5. ASSUME NEW t \in Callers, add_thread(t)
      PROVE  NamesThreads(processes'[pid].threads, threads', pid)
  <2> DEFINE tids == processes[pid].threads
             n == Len(threads)
  <2>1. processes'[pid].threads = tids
    BY <1>5 DEF add_thread, tableVars
  <2>2. /\ Len(threads') = n + 1 /\ \A i \in 1 .. n : threads'[i] = threads[i]
        /\ threads'[n + 1].tid = call[t].tid
    BY <1>0, <1>5, TableSteps DEF Gains
  <2>3. \A k \in 1 .. n : threads[k].tid # call[t].tid
    BY <1>0, <1>1, <1>5 DEF add_thread, At, IdsUnique, Reserving
  <2>4. \A k \in 1 .. (n + 1) : k \in 1 .. n \/ k = n + 1
    BY <1>1
  <2>5. \A k \in 1 .. n : k \in 1 .. (n + 1)
    BY <1>1
  <2> HIDE DEF tids, n
  <2>6. NamesThreads(tids, threads, pid) /\ n = Len(threads)
    BY <1>0 DEF tids, n
  <2>7. \A i \in 1 .. Len(tids) :
          /\ tids[i] \in TidsOf(threads')
          /\ \A k \in 1 .. (n + 1) : threads'[k].tid = tids[i] => threads'[k].pid = pid
    <3> TAKE i \in 1 .. Len(tids)
    <3>1. /\ tids[i] \in TidsOf(threads)
          /\ \A k \in 1 .. n : threads[k].tid = tids[i] => threads[k].pid = pid
      BY <2>6 DEF NamesThreads
    <3>2. PICK j \in 1 .. n : threads[j].tid = tids[i]
      BY <2>6, <3>1, TidsOfDef
    <3>3. tids[i] # call[t].tid
      BY <2>3, <3>2
    <3>4. tids[i] \in TidsOf(threads')
      <4>1. j \in 1 .. Len(threads') /\ threads'[j].tid = tids[i]
        BY <2>2, <2>5, <3>2
      <4> QED BY <4>1, TidsOfDef
    <3>5. \A k \in 1 .. (n + 1) : threads'[k].tid = tids[i] => threads'[k].pid = pid
      BY <2>2, <2>4, <3>1, <3>3
    <3> QED BY <3>4, <3>5
  <2> QED BY <2>1, <2>2, <2>6, <2>7 DEF NamesThreads
<1>6. ASSUME NEW t \in Callers, push_tid(t)
      PROVE  NamesThreads(processes'[pid].threads, threads', pid)
  <2> DEFINE pcb == [processes[pid] EXCEPT !.threads = Append(@, call[t].tid)]
  <2>1. threads' = threads /\ Kept /\ call[t].pc = "push_tid" /\ t \in Tids
    BY <1>0, <1>1, <1>6, TableSteps DEF push_tid, At, schedVars
  <2>2. CASE pid # call[t].pid
    <3>1. processes'[pid] = processes[pid]
      BY <1>1, <1>6, <2>2 DEF push_tid
    <3> QED BY <1>2, <2>1, <3>1
  <2>3. CASE pid = call[t].pid
    <3>1. processes[pid].threads = <<>> /\ HasThread(threads, call[t].tid, pid)
      BY <1>0, <2>1, <2>3 DEF CreatorInv, Pushing, Unrecorded
    <3>2. processes'[pid].threads = <<call[t].tid>>
      <4>1. processes' = [processes EXCEPT ![pid] = pcb]
        BY <1>6, <2>3 DEF push_tid
      <4>2. pcb.threads = Append(processes[pid].threads, call[t].tid)
        BY <1>1 DEF PCB
      <4>3. Append(<<>>, call[t].tid) = <<call[t].tid>>
        OBVIOUS
      <4> HIDE DEF pcb
      <4> QED BY <1>1, <3>1, <4>1, <4>2, <4>3
    <3>3. PICK i \in 1 .. Len(threads) : threads[i].tid = call[t].tid /\ threads[i].pid = pid
      BY <3>1 DEF HasThread
    <3>4. \A k \in 1 .. Len(threads) : threads[k].tid = call[t].tid => threads[k].pid = pid
      BY <1>0, <3>3 DEF IdsUnique
    <3>5. /\ Len(<<call[t].tid>>) = 1 /\ <<call[t].tid>>[1] = call[t].tid
          /\ \A k \in 1 .. 1 : k = 1
      OBVIOUS
    <3>6. call[t].tid \in TidsOf(threads)
      BY <3>3, TidsOfDef
    <3> QED BY <2>1, <3>2, <3>4, <3>5, <3>6 DEF NamesThreads
  <2> QED BY <2>2, <2>3
<1>7. CASE tick \/ tick_spins \/ UNCHANGED vars
  <2>1. processes' = processes /\ Kept
    BY <1>0, <1>7, TableSteps DEF tick, tick_spins, vars, schedVars, tableVars
  <2> QED BY <1>2, <2>1
<1> QED BY <1>3, <1>4, <1>5, <1>6, <1>7 DEF Next

LEMMA ProcInvariant == SafeSpec => []ProcInv
<1>1. Init => ProcInv
  BY InitBase, InitLocks, InitIds, InitCreator, InitPcb DEF ProcInv
<1>2. ProcInv /\ [Next]_vars => ProcInv'
  <2> SUFFICES ASSUME ProcInv, [Next]_vars PROVE ProcInv'
    OBVIOUS
  <2>1. BaseInv /\ LocksProtectSections /\ IdsUnique /\ CreatorInv
    BY DEF ProcInv
  <2>2. BaseInv' /\ LocksProtectSections' /\ IdsUnique' /\ CreatorInv' /\ PcbNamesItsThreads'
    BY <2>1, NextBase, NextLocks, NextIds, NextCreator, NextPcb
  <2> QED BY <2>2 DEF ProcInv
<1> QED BY <1>1, <1>2, PTL DEF SafeSpec

\* exit_process can only ever mark threads of the process it was called for:
\* a PCB names threads of its own process, each once, whatever creations,
\* exits and ticks interleave.
THEOREM PcbsOwnTheirThreads == SafeSpec => []PcbNamesItsThreads
<1>1. ProcInv => PcbNamesItsThreads
  BY DEF ProcInv
<1> QED BY <1>1, ProcInvariant, PTL

\* A process without recorded threads is one whose create_process is still
\* under way, and no two calls create the same process.
THEOREM OneCreator == SafeSpec => []UnrecordedHasCreator
<1>1. ProcInv => UnrecordedHasCreator
  <2> SUFFICES ASSUME ProcInv, NEW pid \in Pids
               PROVE  LET creators == {t \in Tids : call[t].main /\ call[t].pid = pid} IN
                      /\ creators # {} <=> Unrecorded(processes[pid])
                      /\ Cardinality(creators) <= 1
                      /\ \A t \in creators : call[t].pc \in Pushing
                            => HasThread(threads, call[t].tid, pid)
    BY DEF UnrecordedHasCreator, Unrecorded, Pushing, HasThread
  <2> DEFINE creators == {t \in Tids : call[t].main /\ call[t].pid = pid}
  <2>0. CreatorInv
    BY DEF ProcInv
  <2>1. creators # {} <=> Unrecorded(processes[pid])
    BY <2>0 DEF CreatorInv
  <2>2. \A t, u \in creators : t = u
    BY <2>0 DEF CreatorInv
  <2>3. \A t \in creators : call[t].pc \in Pushing => HasThread(threads, call[t].tid, pid)
    BY <2>0 DEF CreatorInv
  <2> HIDE DEF creators
  <2>4. Cardinality(creators) <= 1
    <3>1. CASE creators = {}
      BY <3>1, FS_EmptySet
    <3>2. CASE creators # {}
      <4>1. PICK t \in creators : creators = {t}
        BY <2>2, <3>2
      <4>2. Cardinality({t}) = 1
        BY FS_Singleton
      <4> QED BY <4>1, <4>2
    <3> QED BY <3>1, <3>2
  <2> QED BY <2>1, <2>3, <2>4 DEF creators
<1> QED BY <1>1, ProcInvariant, PTL

----------------------------------------------------------------------------
(* Refinement.  Forgetting the calls, the locks and the process table, each *)
(* step is a step of Scheduler.tla or leaves the thread table alone.        *)

\* A tid that is reserved leaves room for its thread: the tids in use are
\* distinct and bounded.
LEMMA RoomForThread ==
    ASSUME BaseInv, IdsUnique, NEW t \in Tids, call[t].pc = "add_thread"
    PROVE  Len(threads) < MaxThreads
<1> DEFINE n == Len(threads)
           f == [i \in 1 .. (n + 1) |-> IF i \in 1 .. n THEN threads[i].tid ELSE call[t].tid]
<1>1. threads \in Seq(TCB) /\ n \in Nat /\ call[t].tid \in Tids
  BY LenProperties DEF BaseInv, TypeOK, TCB, CallState
<1>2. \A i \in 1 .. n : threads[i].tid \in Tids
  <2>1. \A i \in 1 .. n : threads[i] \in TCB
    BY <1>1, ElementOfSeq
  <2> QED BY <2>1 DEF TCB
<1>3. \A i \in 1 .. (n + 1) : i \in 1 .. n \/ i = n + 1
  BY <1>1
<1>4. /\ \A i, j \in 1 .. n : threads[i].tid = threads[j].tid => i = j
      /\ \A i \in 1 .. n : threads[i].tid # call[t].tid
  BY DEF IdsUnique, Reserving
<1>5. f \in [1 .. (n + 1) -> Tids]
  BY <1>1, <1>2
<1>6. \A i, j \in 1 .. (n + 1) : f[i] = f[j] => i = j
  BY <1>3, <1>4
<1> HIDE DEF f
<1>7. f \in Injection(1 .. (n + 1), Tids)
  BY <1>5, <1>6 DEF Injection, IsInjective
<1>8. IsFiniteSet(Tids) /\ Cardinality(Tids) = MaxThreads
  <2> DEFINE last == MaxThreads - 1
  <2>1. 0 \in Int /\ last \in Int /\ ~(0 > last) /\ last - 0 + 1 = MaxThreads
    BY BoundsAssumption
  <2>2. Tids = 0 .. last
    BY DEF Tids
  <2> HIDE DEF last
  <2>3. /\ IsFiniteSet(0 .. last)
        /\ Cardinality(0 .. last) = IF 0 > last THEN 0 ELSE last - 0 + 1
    BY ONLY <2>1, FS_Interval
  <2> QED BY <2>1, <2>2, <2>3
<1>9. Cardinality(1 .. (n + 1)) <= Cardinality(Tids)
  BY <1>7, <1>8, FS_Injection
<1>10. Cardinality(1 .. (n + 1)) = n + 1
  BY <1>1, FS_Interval
<1> QED BY <1>1, <1>8, <1>9, <1>10, BoundsAssumption

LEMMA InitImplements == Init => Sched!Init
BY DEF Init, Sched!Init, BootThreads, Sched!BootThreads

LEMMA StepImplements == ProcInv /\ [Next]_vars => [Sched!Next]_Sched!vars
<1> SUFFICES ASSUME ProcInv, [Next]_vars, ~UNCHANGED <<threads, current>>
             PROVE  Sched!Next
  BY DEF Sched!vars
<1>0. BaseInv /\ IdsUnique /\ Callers \subseteq Tids /\ call \in [Tids -> CallState]
  BY DEF ProcInv, BaseInv, TypeOK, Callers
<1>1. \/ tick
      \/ \E t \in Callers : add_thread(t)
      \/ \E t \in Callers : mark_thread_exited(t)
  BY DEF Next, CallStep, StartCall, create_process, lock_insert, insert, spawn_thread, new_thread,
         lock_add, lock_push, push_tid, exit_process, lock_zombie, zombie, lock_mark, Lock_PT,
         Lock_SCHED, tick_spins, vars, schedVars
<1>2. CASE tick
  <2>1. Sched!tick
    BY <1>2 DEF tick, Sched!tick, next_ready_thread, Sched!next_ready_thread, prepare_switch,
                Sched!prepare_switch, Tcb, Sched!Tcb, Preempted, Sched!Preempted
  <2> QED BY <2>1 DEF Sched!Next
<1>3. ASSUME NEW t \in Callers, add_thread(t)
      PROVE  Sched!Next
  <2> DEFINE tid == call[t].tid
             pid == call[t].pid
  <2>1. tid \in Tids /\ pid \in Pids /\ call[t].pc = "add_thread"
    BY <1>0, <1>3 DEF CallState, add_thread, At
  <2>2. Len(threads) < MaxThreads
    BY <1>0, <2>1, RoomForThread
  <2>3. tid \notin Sched!TidsOf(threads)
    BY <1>0, <2>1 DEF IdsUnique, Reserving, Sched!TidsOf
  <2>4. /\ threads' = Append(threads, [tid |-> tid, pid |-> pid, state |-> "Ready"])
        /\ current' = current
    BY <1>3 DEF add_thread
  <2> HIDE DEF tid, pid
  <2>5. Sched!add_thread(tid, pid)
    BY <2>2, <2>3, <2>4 DEF Sched!add_thread
  <2> QED BY <2>1, <2>5 DEF Sched!Next
<1>4. ASSUME NEW t \in Callers, mark_thread_exited(t)
      PROVE  Sched!Next
  <2> DEFINE tid == Head(call[t].todo)
  <2>1. tid \in Tids
    <3>1. call[t].todo \in Seq(Tids) /\ call[t].todo # <<>>
      BY <1>0, <1>4 DEF BaseInv, MarksLeft, CallState, mark_thread_exited, At
    <3> QED BY <3>1, HeadTailProperties
  <2>2. Sched!mark_thread_exited(tid)
    BY <1>4 DEF mark_thread_exited, Sched!mark_thread_exited, mark_exited, Sched!mark_exited
  <2> HIDE DEF tid
  <2> QED BY <2>1, <2>2 DEF Sched!Next
<1> QED BY <1>1, <1>2, <1>3, <1>4

\* Under spin locks taken by preemptible threads the thread table is still
\* the atomic object Scheduler.tla describes; in particular the tid that is
\* added was taken long before, and is still in no thread of the table.
THEOREM Implementation == SafeSpec => ImplementsScheduler
<1>1. Init => Sched!Init
  BY InitImplements
<1>2. ProcInv /\ [Next]_vars => [Sched!Next]_Sched!vars
  BY StepImplements
<1> QED BY <1>1, <1>2, ProcInvariant, PTL DEF SafeSpec, ImplementsScheduler, Sched!SafeSpec

\* The specification that SchedulerProofs is about is the one implemented.
LEMMA SameScheduler == Sched!SafeSpec => SP!SafeSpec
<1>1. SP!Init <=> Sched!Init
  BY DEF SP!Init, Sched!Init, SP!BootThreads, Sched!BootThreads
<1>2. [SP!Next]_SP!vars <=> [Sched!Next]_Sched!vars
  BY DEF SP!Next, Sched!Next, SP!vars, Sched!vars, SP!add_thread, Sched!add_thread, SP!tick,
         Sched!tick, SP!mark_thread_exited, Sched!mark_thread_exited, SP!TidsOf, Sched!TidsOf,
         SP!next_ready_thread, Sched!next_ready_thread, SP!prepare_switch, Sched!prepare_switch,
         SP!Preempted, Sched!Preempted, SP!mark_exited, Sched!mark_exited, SP!Tcb, Sched!Tcb
<1> QED BY <1>1, <1>2, PTL DEF Sched!SafeSpec, SP!SafeSpec

\* So the scheduler's guarantee holds for its callers: whatever calls are
\* under way, `current` alone owns the CPU.
THEOREM OneOwnerUnderCalls == SafeSpec => []Sched!CpuOwner
<1>1. SP!SafeSpec => []SP!CpuOwner
  BY SP!OneOwner, ConstantsFit
<1>2. SP!CpuOwner <=> Sched!CpuOwner
  BY DEF SP!CpuOwner, Sched!CpuOwner, SP!Slots, Sched!Slots, SP!Tcb, Sched!Tcb
<1> QED BY <1>1, <1>2, SameScheduler, Implementation, PTL DEF ImplementsScheduler

\* Calls that add and exit threads between two ticks do not let a switch pass
\* over a Ready thread.
THEOREM RoundRobinUnderCalls == SafeSpec => Sched!NoOvertaking
<1>1. SP!SafeSpec => SP!NoOvertaking
  BY SP!RoundRobin, ConstantsFit
<1>2. [SP!NonePassed]_SP!vars <=> [Sched!NonePassed]_Sched!vars
  BY DEF SP!NonePassed, Sched!NonePassed, SP!Distance, Sched!Distance, SP!Slots, Sched!Slots,
         SP!Tcb, Sched!Tcb, SP!vars, Sched!vars
<1> QED BY <1>1, <1>2, SameScheduler, Implementation, PTL
        DEF ImplementsScheduler, SP!NoOvertaking, Sched!NoOvertaking

\* No interleaving of calls revives a thread that exit_process has marked, or moves
\* a TCB that a call has looked up.
THEOREM ExitIsForeverUnderCalls == SafeSpec => Sched!ExitedForever
<1>1. SP!SafeSpec => SP!ExitedForever
  BY SP!ExitIsForever, ConstantsFit
<1>2. [SP!SlotsKept]_SP!vars <=> [Sched!SlotsKept]_Sched!vars
  BY DEF SP!SlotsKept, Sched!SlotsKept, SP!Slots, Sched!Slots,
         SP!Tcb, Sched!Tcb, SP!vars, Sched!vars
<1> QED BY <1>1, <1>2, SameScheduler, Implementation, PTL
        DEF ImplementsScheduler, SP!ExitedForever, Sched!ExitedForever
=============================================================================
