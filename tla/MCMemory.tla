------------------------------ MODULE MCMemory ------------------------------
(* Memory.tla with 12 frames of physical memory and page tables of two       *)
(* entries.  The maps are all splits of the memory into three regions of     *)
(* either kind: in order, in order with an unaligned end, and rotated.  The  *)
(* heap is 4 pages under two tables of level 2, and needs 9 frames: 4 for    *)
(* its pages and 5 for page tables.                                          *)
EXTENDS Memory

MaxFrame == 12

Cut(a, b, kinds, short) ==
    <<[start |-> 0, end |-> a * PageSize, kind |-> kinds[1]],
      [start |-> a * PageSize, end |-> b * PageSize, kind |-> kinds[2]],
      [start |-> b * PageSize, end |-> MaxFrame * PageSize - short, kind |-> kinds[3]]>>

Cuts(short) ==
    {Cut(ab[1], ab[2], kinds, short) :
        ab \in {p \in (0 .. MaxFrame) \X (0 .. (MaxFrame - 1)) : p[1] <= p[2]},
        kinds \in [1 .. 3 -> {"Usable", "Bootloader"}]}

MCMaps == Cuts(0) \cup Cuts(1) \cup {<<m[3], m[1], m[2]>> : m \in Cuts(0)}

\* The bootloader's tables lie outside the cut memory.  Below entry 0 of the
\* root are a huge page of level 3 and one of level 2, a page with bit 7 and one
\* without; the heap is below entry 1.
MCCr3 == MaxFrame * PageSize
Table(n) == MCCr3 + n * PageSize
MCBootTables ==
    [t \in {Table(n) : n \in 0 .. 3} |->
        CASE t = Table(0) -> [i \in {0, 1} |-> IF i = 0 THEN {Table(1)} ELSE {}]
          [] t = Table(1) -> [i \in {0, 1} |-> IF i = 0 THEN {0} ELSE {Table(2)}]
          [] t = Table(2) -> [i \in {0, 1} |-> IF i = 0 THEN {4} ELSE {Table(3)}]
          [] t = Table(3) -> [i \in {0, 1} |-> IF i = 0 THEN {2} ELSE {6}]]
MCBit7 == {<<Table(1), 0>>, <<Table(2), 0>>, <<Table(3), 0>>}
=============================================================================
