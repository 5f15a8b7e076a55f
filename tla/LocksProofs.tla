----------------------------- MODULE LocksProofs ----------------------------
(***************************************************************************)
(* Proofs about Locks.tla, for any number of threads: the order in which   *)
(* the calls of process.rs, scheduler.rs and the allocator take the locks  *)
(* admits no deadlock between threads.                                     *)
(***************************************************************************)
EXTENDS Locks, SequenceTheorems, TLAPS

Op == [op : {"lock", "may_lock", "unlock", "mark"}, lock : LockNames]

\* What the lock discipline lets a thread that holds the locks `held` take: any
\* lock if it holds none, and the heap's in any case, but not twice.
MayTake(l, held) == l \notin held /\ (held = {} \/ l = "HEAP")

\* The locks held before each operation of q and, at the end, after the last.
\* An optional lock is followed by its unlock, and both can be left out.
Follows(q, h) ==
    \A p \in 1 .. Len(q) :
        LET l == q[p].lock IN
        /\ q[p].op \in {"lock", "may_lock"} => MayTake(l, h[p]) /\ h[p + 1] = h[p] \cup {l}
        /\ q[p].op = "may_lock" => p < Len(q) /\ h[p + 2] = h[p]
        /\ q[p].op = "unlock" => l \in h[p] /\ h[p + 1] = h[p] \ {l}
        /\ q[p].op = "mark" => h[p + 1] = h[p]

\* The operations q are disciplined for a thread that holds `from`, and leave
\* it with `to`.
Disciplined(q, from, to) ==
    /\ q \in Seq(Op)
    /\ \E h \in [1 .. (Len(q) + 1) -> SUBSET LockNames] :
          h[1] = from /\ h[Len(q) + 1] = to /\ Follows(q, h)

----------------------------------------------------------------------------
(* The calls *)

LEMMA OneOperation ==
    ASSUME NEW o \in Op, NEW from \in SUBSET LockNames, NEW to \in SUBSET LockNames,
           \/ o.op = "lock" /\ MayTake(o.lock, from) /\ to = from \cup {o.lock}
           \/ o.op = "unlock" /\ o.lock \in from /\ to = from \ {o.lock}
           \/ o.op = "mark" /\ to = from
    PROVE  Disciplined(<<o>>, from, to)
<1> DEFINE q == <<o>>
           h == [i \in 1 .. (Len(q) + 1) |-> IF i = 1 THEN from ELSE to]
<1>1. q \in Seq(Op) /\ Len(q) = 1 /\ q[1] = o
  OBVIOUS
<1> HIDE DEF q
<1>2. h \in [1 .. (Len(q) + 1) -> SUBSET LockNames] /\ h[1] = from /\ h[1 + 1] = to
  BY <1>1
<1> HIDE DEF h
<1>3. \A p \in 1 .. Len(q) : p = 1
  BY <1>1
<1>4. Follows(q, h)
  BY <1>1, <1>2, <1>3 DEF Follows
<1> QED BY <1>1, <1>2, <1>4 DEF Disciplined, q

LEMMA Optional ==
    ASSUME NEW from \in SUBSET LockNames, "HEAP" \notin from
    PROVE  Disciplined(may_alloc, from, from)
<1> DEFINE q == may_alloc
           with == from \cup {"HEAP"}
           h == [i \in 1 .. (Len(q) + 1) |-> IF i = 2 THEN with ELSE from]
<1>0. "HEAP" \in LockNames
  BY DEF LockNames
<1>1. q \in Seq(Op) /\ Len(q) = 2 /\ q[1] = MayLock("HEAP") /\ q[2] = Unlock("HEAP")
  BY <1>0 DEF may_alloc, MayLock, Unlock, Op
<1>2. with \in SUBSET LockNames /\ with \ {"HEAP"} = from /\ MayTake("HEAP", from) /\ "HEAP" \in with
  BY <1>0 DEF MayTake
<1> HIDE DEF q, with
<1>3. /\ h \in [1 .. (Len(q) + 1) -> SUBSET LockNames] /\ h[1] = from /\ h[1 + 1] = with
      /\ h[1 + 2] = from /\ h[2 + 1] = from /\ h[2] = with
  BY <1>1, <1>2
<1>4. \A p \in 1 .. Len(q) : p = 1 \/ p = 2
  <2>1. \A p \in 1 .. 2 : p = 1 \/ p = 2
    OBVIOUS
  <2> QED BY <1>1, <2>1
<1> HIDE DEF h
<1>5. /\ q[1].op = "may_lock" /\ q[1].lock = "HEAP"
      /\ q[2].op = "unlock" /\ q[2].lock = "HEAP"
  BY <1>1 DEF MayLock, Unlock
<1>6. Follows(q, h)
  <2> SUFFICES ASSUME NEW p \in 1 .. Len(q)
               PROVE  LET l == q[p].lock IN
                      /\ q[p].op \in {"lock", "may_lock"} => MayTake(l, h[p]) /\ h[p + 1] = h[p] \cup {l}
                      /\ q[p].op = "may_lock" => p < Len(q) /\ h[p + 2] = h[p]
                      /\ q[p].op = "unlock" => l \in h[p] /\ h[p + 1] = h[p] \ {l}
                      /\ q[p].op = "mark" => h[p + 1] = h[p]
    BY DEF Follows
  <2>1. CASE p = 1
    BY <1>1, <1>2, <1>3, <1>5, <2>1 DEF with
  <2>2. CASE p = 2
    BY <1>1, <1>2, <1>3, <1>5, <2>2
  <2> QED BY <1>4, <2>1, <2>2
<1> QED BY <1>1, <1>3, <1>6 DEF Disciplined, q

LEMMA InOrder ==
    ASSUME NEW a, NEW b, NEW x, NEW y, NEW z, Disciplined(a, x, y), Disciplined(b, y, z)
    PROVE  Disciplined(a \o b, x, z)
<1> DEFINE m == Len(a)
           n == Len(b)
           c == a \o b
<1>1. /\ a \in Seq(Op) /\ b \in Seq(Op) /\ m \in Nat /\ n \in Nat
      /\ c \in Seq(Op) /\ Len(c) = m + n
  BY LenProperties, ConcatProperties DEF Disciplined
<1>2. PICK g \in [1 .. (m + 1) -> SUBSET LockNames] : g[1] = x /\ g[m + 1] = y /\ Follows(a, g)
  BY DEF Disciplined
<1>3. PICK k \in [1 .. (n + 1) -> SUBSET LockNames] : k[1] = y /\ k[n + 1] = z /\ Follows(b, k)
  BY DEF Disciplined
<1> DEFINE h == [i \in 1 .. (Len(c) + 1) |-> IF i <= m THEN g[i] ELSE k[i - m]]
<1>4. /\ \A i \in 1 .. m : c[i] = a[i]
      /\ \A i \in 1 .. n : c[m + i] = b[i]
  BY <1>1, ConcatProperties
<1> HIDE DEF m, n, c
<1>5. h \in [1 .. (Len(c) + 1) -> SUBSET LockNames]
  <2>1. \A i \in 1 .. (Len(c) + 1) : (i <= m => i \in 1 .. (m + 1)) /\ (~(i <= m) => i - m \in 1 .. (n + 1))
    BY <1>1
  <2> QED BY <1>2, <1>3, <2>1
<1>6. \A i \in 1 .. (m + 1) : h[i] = g[i]
  <2> TAKE i \in 1 .. (m + 1)
  <2>1. i \in 1 .. (Len(c) + 1)
    BY <1>1
  <2>2. CASE i <= m
    BY <2>1, <2>2
  <2>3. CASE ~(i <= m)
    <3>1. i = m + 1 /\ i - m = 1
      BY <1>1, <2>3
    <3> QED BY <1>2, <1>3, <2>1, <2>3, <3>1
  <2> QED BY <2>2, <2>3
<1>7. \A i \in 1 .. (n + 1) : h[m + i] = k[i]
  <2> TAKE i \in 1 .. (n + 1)
  <2>1. m + i \in 1 .. (Len(c) + 1) /\ ~(m + i <= m) /\ (m + i) - m = i
    BY <1>1
  <2> QED BY <2>1
<1> HIDE DEF h
<1>8. h[1] = x
  BY <1>1, <1>2, <1>6
<1>9. h[Len(c) + 1] = z
  <2>1. n + 1 \in 1 .. (n + 1) /\ m + (n + 1) = Len(c) + 1
    BY <1>1
  <2> QED BY <1>3, <1>7, <2>1
<1>10. Follows(c, h)
  <2> SUFFICES ASSUME NEW p \in 1 .. Len(c)
               PROVE  LET l == c[p].lock IN
                      /\ c[p].op \in {"lock", "may_lock"} => MayTake(l, h[p]) /\ h[p + 1] = h[p] \cup {l}
                      /\ c[p].op = "may_lock" => p < Len(c) /\ h[p + 2] = h[p]
                      /\ c[p].op = "unlock" => l \in h[p] /\ h[p + 1] = h[p] \ {l}
                      /\ c[p].op = "mark" => h[p + 1] = h[p]
    BY DEF Follows
  <2>1. CASE p <= m
    <3>1. p \in 1 .. m /\ p \in 1 .. (m + 1) /\ p + 1 \in 1 .. (m + 1)
      BY <1>1, <2>1
    <3>2. p < m => p + 2 \in 1 .. (m + 1) /\ p < Len(c)
      BY <1>1, <2>1
    <3>3. c[p] = a[p] /\ h[p] = g[p] /\ h[p + 1] = g[p + 1] /\ (p < m => h[p + 2] = g[p + 2])
      BY <1>4, <1>6, <3>1, <3>2
    <3>4. p \in 1 .. Len(a) /\ Follows(a, g) /\ m = Len(a)
      BY <1>2, <3>1 DEF m
    <3> QED BY <3>2, <3>3, <3>4 DEF Follows
  <2>2. CASE ~(p <= m)
    <3> DEFINE j == p - m
    <3>1. j \in 1 .. n /\ j \in 1 .. (n + 1) /\ j + 1 \in 1 .. (n + 1) /\ p = m + j /\ p + 1 = m + (j + 1)
      BY <1>1, <2>2
    <3>2. j < n => j + 2 \in 1 .. (n + 1) /\ p < Len(c) /\ p + 2 = m + (j + 2)
      BY <1>1, <2>2
    <3> HIDE DEF j
    <3>3. c[p] = b[j] /\ h[p] = k[j] /\ h[p + 1] = k[j + 1] /\ (j < n => h[p + 2] = k[j + 2])
      BY <1>4, <1>7, <3>1, <3>2
    <3>4. j \in 1 .. Len(b) /\ Follows(b, k) /\ n = Len(b)
      BY <1>3, <3>1 DEF n
    <3> QED BY <3>2, <3>3, <3>4 DEF Follows
  <2> QED BY <2>1, <2>2
<1> QED BY <1>1, <1>5, <1>8, <1>9, <1>10 DEF Disciplined, c

LEMMA Taking ==
    ASSUME NEW l \in LockNames, NEW from \in SUBSET LockNames, MayTake(l, from)
    PROVE  Disciplined(<<Lock(l)>>, from, from \cup {l})
<1> DEFINE o == Lock(l)
           to == from \cup {l}
<1>1. o \in Op /\ o.op = "lock" /\ o.lock = l /\ to \in SUBSET LockNames
  BY DEF Op, Lock
<1>2. to = from \cup {o.lock} /\ MayTake(o.lock, from)
  BY <1>1
<1> HIDE DEF o, to
<1>3. Disciplined(<<o>>, from, to)
  BY <1>1, <1>2, OneOperation
<1> QED BY <1>3 DEF o, to

LEMMA Releasing ==
    ASSUME NEW l \in LockNames, NEW from \in SUBSET LockNames, l \notin from
    PROVE  Disciplined(<<Unlock(l)>>, from \cup {l}, from)
<1> DEFINE o == Unlock(l)
           held == from \cup {l}
<1>1. o \in Op /\ o.op = "unlock" /\ o.lock = l /\ held \in SUBSET LockNames
  BY DEF Op, Unlock
<1>2. from = held \ {o.lock} /\ o.lock \in held
  BY <1>1
<1> HIDE DEF o, held
<1>3. Disciplined(<<o>>, held, from)
  BY <1>1, <1>2, OneOperation
<1> QED BY <1>3 DEF o, held

LEMMA Marking == Disciplined(<<Mark>>, {"SCHED"}, {"SCHED"})
<1> DEFINE o == Mark
<1>1. o \in Op /\ o.op = "mark" /\ {"SCHED"} \in SUBSET LockNames
  BY DEF Op, Mark, LockNames
<1> HIDE DEF o
<1>2. Disciplined(<<o>>, {"SCHED"}, {"SCHED"})
  BY <1>1, OneOperation
<1> QED BY <1>2 DEF o

LEMMA Pair ==
    ASSUME NEW a, NEW b
    PROVE  <<a>> \o <<b>> = <<a, b>>
<1> DEFINE x == <<a>>
           y == <<b>>
           z == <<a, b>>
           S == {a, b}
<1>1. x \in Seq(S) /\ y \in Seq(S) /\ z \in Seq(S)
      /\ Len(x) = 1 /\ Len(y) = 1 /\ Len(z) = 2
      /\ x[1] = a /\ y[1] = b /\ z[1] = a /\ z[2] = b
  OBVIOUS
<1> HIDE DEF x, y, z, S
<1>2. x \o y \in Seq(S) /\ Len(x \o y) = 2 /\ (x \o y)[1] = a /\ (x \o y)[2] = b
  <2>1. /\ x \o y \in Seq(S) /\ Len(x \o y) = Len(x) + Len(y)
        /\ \A i \in 1 .. Len(x) + Len(y) :
              (x \o y)[i] = IF i <= Len(x) THEN x[i] ELSE y[i - Len(x)]
    BY <1>1, ConcatProperties
  <2>2. /\ 1 \in 1 .. Len(x) + Len(y) /\ 2 \in 1 .. Len(x) + Len(y) /\ Len(x) + Len(y) = 2
        /\ 1 <= Len(x) /\ ~(2 <= Len(x)) /\ 2 - Len(x) = 1
    BY <1>1
  <2> QED BY ONLY <1>1, <2>1, <2>2
<1>3. \A i \in 1 .. 2 : (x \o y)[i] = z[i]
  <2>1. \A i \in 1 .. 2 : i = 1 \/ i = 2
    OBVIOUS
  <2> QED BY <1>1, <1>2, <2>1
<1>4. x \o y = z
  BY <1>1, <1>2, <1>3, SeqEqual
<1> QED BY <1>4 DEF x, y, z

LEMMA Triple ==
    ASSUME NEW a, NEW b, NEW c
    PROVE  <<a>> \o <<b>> \o <<c>> = <<a, b, c>>
<1> DEFINE x == <<a, b>>
           y == <<c>>
           z == <<a, b, c>>
           S == {a, b, c}
<1>0. x = <<a>> \o <<b>>
  BY Pair
<1>1. x \in Seq(S) /\ y \in Seq(S) /\ z \in Seq(S)
      /\ Len(x) = 2 /\ Len(y) = 1 /\ Len(z) = 3
      /\ x[1] = a /\ x[2] = b /\ y[1] = c /\ z[1] = a /\ z[2] = b /\ z[3] = c
  OBVIOUS
<1> HIDE DEF x, y, z, S
<1>2. x \o y \in Seq(S) /\ Len(x \o y) = 3 /\ (x \o y)[1] = a /\ (x \o y)[2] = b /\ (x \o y)[3] = c
  <2>1. /\ x \o y \in Seq(S) /\ Len(x \o y) = 2 + 1
        /\ \A i \in 1 .. 2 + 1 : (x \o y)[i] = IF i <= 2 THEN x[i] ELSE y[i - 2]
    <3>1. \A i \in 1 .. Len(x) + Len(y) :
             (x \o y)[i] = IF i <= Len(x) THEN x[i] ELSE y[i - Len(x)]
      BY <1>1, ConcatProperties
    <3>2. x \o y \in Seq(S) /\ Len(x \o y) = Len(x) + Len(y)
      BY <1>1, ConcatProperties
    <3> QED BY <1>1, <3>1, <3>2
  <2>2. 1 \in 1 .. 2 + 1 /\ 2 \in 1 .. 2 + 1 /\ 3 \in 1 .. 2 + 1 /\ 3 - 2 = 1 /\ 2 + 1 = 3
    OBVIOUS
  <2> QED BY <1>1, <2>1, <2>2
<1>3. \A i \in 1 .. 3 : (x \o y)[i] = z[i]
  <2>1. \A i \in 1 .. 3 : i = 1 \/ i = 2 \/ i = 3
    OBVIOUS
  <2> QED BY <1>1, <1>2, <2>1
<1>4. x \o y = z
  BY <1>1, <1>2, <1>3, SeqEqual
<1> QED BY <1>0, <1>4 DEF x, y, z

\* Operations that a thread can do under a lock stay disciplined between the
\* lock and the unlock.
LEMMA Section ==
    ASSUME NEW l \in LockNames, NEW q, Disciplined(q, {l}, {l})
    PROVE  Disciplined(<<Lock(l)>> \o q \o <<Unlock(l)>>, {}, {})
<1>1. {} \in SUBSET LockNames /\ MayTake(l, {}) /\ {} \cup {l} = {l} /\ l \notin {}
  BY DEF MayTake
<1>2. Disciplined(<<Lock(l)>>, {}, {l}) /\ Disciplined(<<Unlock(l)>>, {l}, {})
  BY <1>1, Taking, Releasing
<1>3. Disciplined(<<Lock(l)>> \o q, {}, {l})
  BY <1>2, InOrder
<1> QED BY <1>2, <1>3, InOrder

LEMMA SectionAfter ==
    ASSUME NEW e, Disciplined(e, {}, {}), NEW l \in LockNames, NEW q, Disciplined(q, {l}, {l})
    PROVE  Disciplined(e \o <<Lock(l)>> \o q \o <<Unlock(l)>>, {}, {})
<1>1. {} \in SUBSET LockNames /\ MayTake(l, {}) /\ {} \cup {l} = {l} /\ l \notin {}
  BY DEF MayTake
<1>2. Disciplined(<<Lock(l)>>, {}, {l}) /\ Disciplined(<<Unlock(l)>>, {l}, {})
  BY <1>1, Taking, Releasing
<1>3. Disciplined(e \o <<Lock(l)>>, {}, {l})
  BY <1>2, InOrder
<1>4. Disciplined(e \o <<Lock(l)>> \o q, {}, {l})
  BY <1>3, InOrder
<1> QED BY <1>2, <1>4, InOrder

LEMMA EmptySection ==
    ASSUME NEW l \in LockNames
    PROVE  Disciplined(<<Lock(l), Unlock(l)>>, {}, {})
<1>1. {} \in SUBSET LockNames /\ MayTake(l, {}) /\ {} \cup {l} = {l} /\ l \notin {}
  BY DEF MayTake
<1>2. Disciplined(<<Lock(l)>>, {}, {l}) /\ Disciplined(<<Unlock(l)>>, {l}, {})
  BY <1>1, Taking, Releasing
<1>3. Disciplined(<<Lock(l)>> \o <<Unlock(l)>>, {}, {})
  BY <1>2, InOrder
<1>4. <<Lock(l)>> \o <<Unlock(l)>> = <<Lock(l), Unlock(l)>>
  BY Pair
<1> QED BY <1>3, <1>4

\* Every call keeps to the discipline and ends without a lock.
LEMMA CallsDisciplined ==
    ASSUME NEW t \in Tids, NEW c \in CallsOf(t)
    PROVE  Disciplined(c, {}, {})
<1>0. "PT" \in LockNames /\ "SCHED" \in LockNames /\ "HEAP" \in LockNames
  BY DEF LockNames
<1>1. Disciplined(alloc, {}, {}) /\ Disciplined(current_pid, {}, {})
  BY <1>0, EmptySection DEF alloc, current_pid
<1>2. /\ Disciplined(may_alloc, {}, {})
      /\ Disciplined(may_alloc, {"PT"}, {"PT"}) /\ Disciplined(may_alloc, {"SCHED"}, {"SCHED"})
  <2>1. \A x \in {{}, {"PT"}, {"SCHED"}} : x \in SUBSET LockNames /\ "HEAP" \notin x
    BY <1>0
  <2>2. Disciplined(may_alloc, {}, {})
    BY <2>1, Optional
  <2>3. Disciplined(may_alloc, {"PT"}, {"PT"})
    BY <2>1, Optional
  <2>4. Disciplined(may_alloc, {"SCHED"}, {"SCHED"})
    BY <2>1, Optional
  <2> QED BY <2>2, <2>3, <2>4
<1>3. Disciplined(spawn_thread, {}, {})
  BY <1>0, <1>1, <1>2, SectionAfter DEF spawn_thread
<1> DEFINE insert == <<Lock("PT")>> \o may_alloc \o <<Unlock("PT")>>
           marking == <<Lock("SCHED"), Mark, Unlock("SCHED")>>
<1>4. Disciplined(insert, {}, {})
  BY <1>0, <1>2, Section
<1>5. Disciplined(marking, {}, {})
  <2>1. Disciplined(<<Lock("SCHED")>> \o <<Mark>> \o <<Unlock("SCHED")>>, {}, {})
    BY <1>0, Section, Marking
  <2> QED BY <2>1, Triple
<1> HIDE DEF insert, marking
<1>6. Disciplined(create_process, {}, {})
  <2> DEFINE e == insert \o spawn_thread
  <2>1. Disciplined(e, {}, {})
    BY <1>3, <1>4, InOrder
  <2>2. create_process = e \o <<Lock("PT")>> \o may_alloc \o <<Unlock("PT")>>
    BY DEF create_process, insert
  <2> HIDE DEF e
  <2> QED BY <1>0, <1>2, <2>1, <2>2, SectionAfter
<1>7. Disciplined(exit_process, {}, {})
  <2>1. exit_process = insert \o marking \o marking \o may_alloc
    BY DEF exit_process, insert, marking
  <2>2. Disciplined(insert \o marking, {}, {})
    BY <1>4, <1>5, InOrder
  <2>3. Disciplined(insert \o marking \o marking, {}, {})
    BY <1>5, <2>2, InOrder
  <2> QED BY <1>2, <2>1, <2>3, InOrder
<1> QED BY <1>1, <1>3, <1>6, <1>7 DEF CallsOf

----------------------------------------------------------------------------
(* The invariant *)

Held(t) == {l \in LockNames : owner[l] = t}

\* The locks a thread holds are the ones its remaining operations release, in
\* the order of the discipline.
LockInv ==
    /\ owner \in [LockNames -> Tids \cup {Free}]
    /\ todo \in [Tids -> Seq(Op)]
    /\ \A t \in Tids : Disciplined(todo[t], Held(t), {})

\* The locks held before the operations of a tail.
LEMMA TailFollows ==
    ASSUME NEW q \in Seq(Op), q # <<>>,
           NEW h \in [1 .. (Len(q) + 1) -> SUBSET LockNames], Follows(q, h)
    PROVE  \E g \in [1 .. (Len(Tail(q)) + 1) -> SUBSET LockNames] :
              Follows(Tail(q), g) /\ \A i \in 1 .. Len(q) : g[i] = h[i + 1]
<1> DEFINE n == Len(q)
           r == Tail(q)
           g == [i \in 1 .. (Len(r) + 1) |-> h[i + 1]]
<1>1. n \in Nat /\ n >= 1
  BY EmptySeq, LenProperties
<1>2. r \in Seq(Op) /\ Len(r) = n - 1 /\ \A i \in 1 .. (n - 1) : r[i] = q[i + 1]
  BY <1>1, HeadTailProperties
<1>3. /\ g \in [1 .. (Len(r) + 1) -> SUBSET LockNames]
      /\ \A i \in 1 .. n : g[i] = h[i + 1]
  BY <1>1, <1>2
<1> HIDE DEF n, r, g
<1>4. Follows(r, g)
  <2> SUFFICES ASSUME NEW p \in 1 .. Len(r)
               PROVE  LET l == r[p].lock IN
                      /\ r[p].op \in {"lock", "may_lock"} => MayTake(l, g[p]) /\ g[p + 1] = g[p] \cup {l}
                      /\ r[p].op = "may_lock" => p < Len(r) /\ g[p + 2] = g[p]
                      /\ r[p].op = "unlock" => l \in g[p] /\ g[p + 1] = g[p] \ {l}
                      /\ r[p].op = "mark" => g[p + 1] = g[p]
    BY DEF Follows
  <2> DEFINE j == p + 1
  <2>1. j \in 1 .. n /\ p \in 1 .. n /\ p + 1 \in 1 .. n /\ p \in 1 .. (n - 1)
    BY <1>1, <1>2
  <2>2. j < n => p < Len(r) /\ p + 2 \in 1 .. n /\ (p + 2) + 1 = j + 2
    BY <1>1, <1>2, <2>1
  <2>3. /\ r[p] = q[j] /\ g[p] = h[j] /\ g[p + 1] = h[j + 1]
        /\ j < n => g[p + 2] = h[j + 2]
    BY <1>2, <1>3, <2>1, <2>2
  <2> HIDE DEF j
  <2>4. j \in 1 .. Len(q) /\ n = Len(q)
    BY <2>1 DEF n
  <2> QED BY <2>2, <2>3, <2>4 DEF Follows
<1> QED BY <1>3, <1>4 DEF n, r

\* What is left after the first operation, and after an optional lock that is
\* not taken.
LEMMA Remaining ==
    ASSUME NEW q, NEW x, NEW z, Disciplined(q, x, z), q # <<>>
    PROVE  LET o == Head(q) IN
           /\ o \in Op
           /\ o.op \in {"lock", "may_lock"}
                 => MayTake(o.lock, x) /\ Disciplined(Tail(q), x \cup {o.lock}, z)
           /\ o.op = "may_lock" => Disciplined(Tail(Tail(q)), x, z)
           /\ o.op = "unlock" => o.lock \in x /\ Disciplined(Tail(q), x \ {o.lock}, z)
           /\ o.op = "mark" => Disciplined(Tail(q), x, z)
<1> DEFINE n == Len(q)
           r == Tail(q)
<1>1. q \in Seq(Op) /\ n \in Nat /\ n >= 1 /\ Head(q) = q[1] /\ q[1] \in Op
  BY EmptySeq, LenProperties, HeadTailProperties, ElementOfSeq DEF Disciplined
<1>2. PICK h \in [1 .. (n + 1) -> SUBSET LockNames] : h[1] = x /\ h[n + 1] = z /\ Follows(q, h)
  BY DEF Disciplined
<1>3. r \in Seq(Op) /\ Len(r) = n - 1
  BY <1>1, HeadTailProperties
<1>4. PICK g \in [1 .. (Len(r) + 1) -> SUBSET LockNames] :
         Follows(r, g) /\ \A i \in 1 .. n : g[i] = h[i + 1]
  BY <1>1, <1>2, TailFollows
<1>5. LET l == q[1].lock IN
      /\ q[1].op \in {"lock", "may_lock"} => MayTake(l, x) /\ h[2] = x \cup {l}
      /\ q[1].op = "may_lock" => 1 < n /\ h[3] = x
      /\ q[1].op = "unlock" => l \in x /\ h[2] = x \ {l}
      /\ q[1].op = "mark" => h[2] = x
  <2>1. 1 \in 1 .. Len(q) /\ n = Len(q) /\ 1 + 1 = 2 /\ 1 + 2 = 3
    BY <1>1
  <2> QED BY <1>2, <2>1 DEF Follows
<1> HIDE DEF n, r
<1>6. g[1] = h[2] /\ g[Len(r) + 1] = z
  BY <1>1, <1>2, <1>3, <1>4
<1>7. Disciplined(r, h[2], z)
  BY <1>3, <1>4, <1>6 DEF Disciplined
<1>8. ASSUME q[1].op = "may_lock" PROVE Disciplined(Tail(r), x, z)
  <2> DEFINE m == Len(r)
             s == Tail(r)
  <2>1. m \in Nat /\ m >= 1 /\ r # <<>> /\ m = n - 1
    BY <1>1, <1>3, <1>5, <1>8, EmptySeq
  <2>2. s \in Seq(Op) /\ Len(s) = m - 1
    BY <1>3, <2>1, HeadTailProperties
  <2>3. PICK k \in [1 .. (Len(s) + 1) -> SUBSET LockNames] :
           Follows(s, k) /\ \A i \in 1 .. m : k[i] = g[i + 1]
    BY <1>3, <1>4, <2>1, TailFollows
  <2> HIDE DEF m, s
  <2>4. k[1] = g[2] /\ g[2] = h[3] /\ k[m] = g[m + 1]
    BY <1>1, <1>4, <2>1, <2>3
  <2>5. m = Len(s) + 1 /\ m + 1 = Len(r) + 1
    BY <2>1, <2>2 DEF m
  <2>6. k[1] = x /\ k[Len(s) + 1] = z
    BY <1>5, <1>6, <1>8, <2>4, <2>5
  <2>7. Disciplined(s, x, z)
    BY <2>2, <2>3, <2>6 DEF Disciplined
  <2> QED BY <2>7 DEF s
<1> QED BY <1>1, <1>5, <1>7, <1>8 DEF r

LEMMA InitLocks == Init => LockInv
<1> SUFFICES ASSUME Init PROVE LockInv
  OBVIOUS
<1>1. owner \in [LockNames -> Tids \cup {Free}] /\ todo \in [Tids -> Seq(Op)]
  BY DEF Init
<1>2. ASSUME NEW t \in Tids PROVE Disciplined(todo[t], Held(t), {})
  <2>1. Held(t) = {}
    BY DEF Init, Held, Free, Tids
  <2>2. todo[t] = <<>>
    BY DEF Init
  <2> DEFINE q == todo[t]
             h == [i \in 1 .. (Len(q) + 1) |-> {}]
  <2>3. q \in Seq(Op) /\ Len(q) = 0
    BY <2>2
  <2> HIDE DEF q
  <2>4. h \in [1 .. (Len(q) + 1) -> SUBSET LockNames] /\ h[1] = {} /\ h[Len(q) + 1] = {}
    BY <2>3
  <2>5. Follows(q, h)
    BY <2>3 DEF Follows
  <2>6. Disciplined(q, {}, {})
    BY <2>3, <2>4, <2>5 DEF Disciplined
  <2> QED BY <2>1, <2>6 DEF q
<1> QED BY <1>1, <1>2 DEF LockInv

\* What a step of thread t has to leave behind.
LEMMA OtherLocksKept ==
    ASSUME LockInv, NEW t \in Tids, NEW q, todo' = [todo EXCEPT ![t] = q],
           owner' \in [LockNames -> Tids \cup {Free}],
           Disciplined(q, Held(t)', {}),
           \A u \in Tids \ {t} : Held(u)' = Held(u)
    PROVE  LockInv'
<1>1. q \in Seq(Op)
  BY DEF Disciplined
<1>2. todo' \in [Tids -> Seq(Op)] /\ todo'[t] = q /\ \A u \in Tids \ {t} : todo'[u] = todo[u]
  BY <1>1 DEF LockInv
<1>3. \A u \in Tids : Disciplined(todo'[u], Held(u)', {})
  BY <1>2 DEF LockInv
<1> QED BY <1>2, <1>3 DEF LockInv

LEMMA NextLocks == LockInv /\ [Next]_vars => LockInv'
<1> SUFFICES ASSUME LockInv, [Next]_vars PROVE LockInv'
  OBVIOUS
<1>0. owner \in [LockNames -> Tids \cup {Free}] /\ todo \in [Tids -> Seq(Op)]
  BY DEF LockInv
<1>1. CASE UNCHANGED <<owner, todo>>
  BY <1>1 DEF LockInv, Held
<1>2. ASSUME NEW t \in Tids, NEW call \in CallsOf(t), begin(t, call) PROVE LockInv'
  <2>1. todo[t] = <<>> /\ todo' = [todo EXCEPT ![t] = call] /\ owner' = owner
    BY <1>2 DEF begin
  <2>2. Disciplined(todo[t], Held(t), {})
    BY DEF LockInv
  <2>3. Held(t) = {}
    <3>1. Len(todo[t]) + 1 = 1
      BY <2>1
    <3> QED BY <2>2, <3>1 DEF Disciplined
  <2>4. \A u \in Tids : Held(u)' = Held(u)
    BY <2>1 DEF Held
  <2>5. Disciplined(call, Held(t)', {})
    BY <2>3, <2>4, CallsDisciplined
  <2> QED BY <1>0, <2>1, <2>4, <2>5, OtherLocksKept
<1>3. ASSUME NEW t \in Tids, lock(t) PROVE LockInv'
  <2> DEFINE q == todo[t]
             l == Head(q).lock
  <2>1. /\ q # <<>> /\ Head(q).op \in {"lock", "may_lock"} /\ owner[l] = Free
        /\ owner' = [owner EXCEPT ![l] = t] /\ todo' = [todo EXCEPT ![t] = Tail(q)]
    BY <1>3 DEF lock, Operation, Done
  <2>2. Disciplined(q, Held(t), {})
    BY DEF LockInv
  <2>3. Head(q) \in Op /\ Disciplined(Tail(q), Held(t) \cup {l}, {})
    BY <2>1, <2>2, Remaining
  <2>4. l \in LockNames
    BY <2>3 DEF Op
  <2> HIDE DEF l, q
  <2>5. owner' \in [LockNames -> Tids \cup {Free}]
    BY <1>0, <2>1
  <2>6. Held(t)' = Held(t) \cup {l} /\ \A u \in Tids \ {t} : Held(u)' = Held(u)
    <3>1. \A u \in Tids : u # Free
      BY DEF Tids, Free
    <3> QED BY <1>0, <2>1, <2>4, <3>1 DEF Held
  <2> QED BY <2>1, <2>3, <2>5, <2>6, OtherLocksKept
<1>4. ASSUME NEW t \in Tids, no_lock(t) PROVE LockInv'
  <2>1. /\ todo[t] # <<>> /\ Head(todo[t]).op = "may_lock" /\ owner' = owner
        /\ todo' = [todo EXCEPT ![t] = Tail(Tail(todo[t]))]
    BY <1>4 DEF no_lock, Operation
  <2>2. Disciplined(Tail(Tail(todo[t])), Held(t), {})
    BY <2>1, Remaining DEF LockInv
  <2>3. \A u \in Tids : Held(u)' = Held(u)
    BY <2>1 DEF Held
  <2> QED BY <1>0, <2>1, <2>2, <2>3, OtherLocksKept
<1>5. ASSUME NEW t \in Tids, unlock(t) PROVE LockInv'
  <2> DEFINE q == todo[t]
             l == Head(q).lock
  <2>1. /\ q # <<>> /\ Head(q).op = "unlock"
        /\ owner' = [owner EXCEPT ![l] = Free] /\ todo' = [todo EXCEPT ![t] = Tail(q)]
    BY <1>5 DEF unlock, Operation, Done
  <2>2. Disciplined(q, Held(t), {})
    BY DEF LockInv
  <2>3. l \in Held(t) /\ Disciplined(Tail(q), Held(t) \ {l}, {})
    BY <2>1, <2>2, Remaining
  <2> HIDE DEF l, q
  <2>4. owner' \in [LockNames -> Tids \cup {Free}]
    BY <1>0, <2>1
  <2>5. Held(t)' = Held(t) \ {l} /\ \A u \in Tids \ {t} : Held(u)' = Held(u)
    <3>1. \A u \in Tids : u # Free
      BY DEF Tids, Free
    <3> QED BY <1>0, <2>1, <2>3, <3>1 DEF Held
  <2> QED BY <2>1, <2>3, <2>4, <2>5, OtherLocksKept
<1>6. ASSUME NEW t \in Tids, NEW target \in Tids, mark(t, target) PROVE LockInv'
  <2>1. /\ todo[t] # <<>> /\ Head(todo[t]).op = "mark" /\ owner' = owner
        /\ todo' = [todo EXCEPT ![t] = Tail(todo[t])]
    BY <1>6 DEF mark, Operation, Done
  <2>2. Disciplined(Tail(todo[t]), Held(t), {})
    BY <2>1, Remaining DEF LockInv
  <2>3. \A u \in Tids : Held(u)' = Held(u)
    BY <2>1 DEF Held
  <2> QED BY <1>0, <2>1, <2>2, <2>3, OtherLocksKept
<1>7. tick \/ tick_spins \/ UNCHANGED vars => UNCHANGED <<owner, todo>>
  BY DEF tick, tick_spins, vars
<1> QED BY <1>1, <1>2, <1>3, <1>4, <1>5, <1>6, <1>7 DEF Next, Step

\* However many threads there are and wherever the timer switches between them,
\* they never wait for one another in a circle: a thread that holds PROCESS_TABLE
\* or SCHEDULER waits at most for the heap, and one that holds the heap for none.
THEOREM NoDeadlock == Spec => []NoWaitCycle
<1>1. LockInv => NoWaitCycle
  <2> SUFFICES ASSUME LockInv, NEW S \in SUBSET Tids, S # {},
                      \A t \in S : \E l \in WaitsFor(t) : owner[l] \in S
               PROVE  FALSE
    BY DEF NoWaitCycle
  <2>1. ASSUME NEW t \in S, NEW l \in WaitsFor(t)
        PROVE  l \in LockNames /\ MayTake(l, Held(t))
    <3>1. /\ todo[t] # <<>> /\ Head(todo[t]).op \in {"lock", "may_lock"} /\ l = Head(todo[t]).lock
      BY <2>1 DEF WaitsFor
    <3>2. Disciplined(todo[t], Held(t), {})
      BY DEF LockInv
    <3>3. Head(todo[t]) \in Op /\ MayTake(l, Held(t))
      BY <3>1, <3>2, Remaining
    <3> QED BY <3>1, <3>3 DEF Op
  <2>2. PICK a \in S : TRUE
    OBVIOUS
  <2>3. PICK l \in WaitsFor(a) : owner[l] \in S
    BY <2>2
  <2>4. PICK m \in WaitsFor(owner[l]) : owner[m] \in S
    BY <2>3
  <2>5. PICK n \in WaitsFor(owner[m]) : owner[n] \in S
    BY <2>4
  <2>6. l \in Held(owner[l]) /\ m \in Held(owner[m])
    BY <2>1, <2>2, <2>3, <2>4 DEF Held
  <2>7. m = "HEAP"
    BY <2>1, <2>3, <2>4, <2>6 DEF MayTake
  <2>8. n = "HEAP" /\ n \notin Held(owner[m])
    BY <2>1, <2>4, <2>5, <2>6 DEF MayTake
  <2> QED BY <2>6, <2>7, <2>8
<1>2. Init => LockInv
  BY InitLocks
<1>3. LockInv /\ [Next]_vars => LockInv'
  BY NextLocks
<1> QED BY <1>1, <1>2, <1>3, PTL DEF Spec
=============================================================================
