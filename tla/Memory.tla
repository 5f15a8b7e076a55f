------------------------------- MODULE Memory -------------------------------
(***************************************************************************)
(* memory::init (kernel/src/memory/mod.rs): the frame allocator over the   *)
(* bootloader's memory map (page_allocator.rs), the mapping of the heap    *)
(* (heap_allocator.rs), the page walk virtual_to_physical, and what an     *)
(* allocation finds afterwards.                                            *)
(*                                                                         *)
(* It runs on the boot thread before interrupts are enabled, so the one    *)
(* difficulty is the data: any memory map, a heap that spans several page  *)
(* tables, and memory that runs out in the middle of mapping a page.       *)
(*                                                                         *)
(* Addresses are naturals, a frame is named by the address it starts at,   *)
(* and an Option is a set with at most one element.                        *)
(***************************************************************************)
EXTENDS Integers, Sequences, FiniteSets

CONSTANTS
    PageSize,       \* 4096
    MIN_USABLE_PA,  \* 0x10_0000
    Maps,           \* memory maps the bootloader may report
    Fanout,         \* entries of a page table (512)
    Cr3,            \* the frame of the active level 4 table
    BootTables,     \* the bootloader's page tables: frame -> entries
    Bit7,           \* their entries <<frame, index>> with bit 7 (HUGE_PAGE) set
    HeapStart,      \* number of the page HEAP_START lies in
    HeapPages       \* HEAP_SIZE in pages

\* External: the bootloader's regions are disjoint and start on a page
\* boundary (they need not be sorted, nor end on one), and its own tables are
\* not in memory it calls Usable.
Region == [start : Nat, end : Nat, kind : {"Usable", "Bootloader"}]

ASSUME PagingAssumption ==
    /\ PageSize \in Nat \ {0} /\ Fanout \in Nat \ {0}
    /\ MIN_USABLE_PA \in Nat /\ Cr3 \in Nat
    /\ HeapStart \in Nat /\ HeapPages \in Nat \ {0}

\* The address space: the pages, and what is left of a page's number without
\* the indexes of the lvl lower levels.
Pages == 0 .. (Fanout * Fanout * Fanout * Fanout - 1)

\* Plausible mistake; no specification uses it: heap_end without its `- 1`.
PageBehindHeap == HeapStart .. (HeapStart + HeapPages)

\* The pages from HEAP_START to HEAP_START + HEAP_SIZE - 1.
HeapRange == HeapStart .. (HeapStart + HeapPages - 1)

Prefix(pg, lvl) ==
    CASE lvl = 0 -> pg
      [] lvl = 1 -> pg \div Fanout
      [] lvl = 2 -> (pg \div Fanout) \div Fanout
      [] lvl = 3 -> ((pg \div Fanout) \div Fanout) \div Fanout
      [] lvl = 4 -> (((pg \div Fanout) \div Fanout) \div Fanout) \div Fanout

\* The index of the page's entry in its table of level lvl.
Index(pg, lvl) == Prefix(pg, lvl - 1) % Fanout

\* An Option of a frame; a table entry is one, unused or holding a frame.
IsOption(o) == o \subseteq Nat /\ \A f, g \in o : f = g

Unused == {}

IsTable(t) ==
    t = [i \in 0 .. (Fanout - 1) |-> t[i]] /\ \A i \in 0 .. (Fanout - 1) : IsOption(t[i])

\* External: the bootloader's tables are well formed, and nothing is mapped
\* where the heap goes.
ASSUME BootTablesAssumption ==
    /\ BootTables = [t \in DOMAIN BootTables |-> BootTables[t]]
    /\ Cr3 \in DOMAIN BootTables /\ DOMAIN BootTables \subseteq Nat
    /\ \A t \in DOMAIN BootTables : IsTable(BootTables[t])
    /\ Bit7 \subseteq (DOMAIN BootTables) \X (0 .. (Fanout - 1))
    /\ \A e \in Bit7 : BootTables[e[1]][e[2]] # Unused
    /\ HeapRange \subseteq Pages
    /\ \A pg \in HeapRange : BootTables[Cr3][Index(pg, 4)] = Unused

\* External: they form a tree.  From its root, entries without bit 7 lead to
\* tables of its own, never back to the root: BOOTLOADER_CONFIG asks for no
\* recursive page table.
BootBelow(ts, pg, lvl) ==
    UNION {BootTables[t][Index(pg, lvl)] : t \in {u \in ts : <<u, Index(pg, lvl)>> \notin Bit7}}

ASSUME BootTreeAssumption ==
    \A pg \in Pages :
        LET table3 == BootBelow({Cr3}, pg, 4)
            table2 == BootBelow(table3, pg, 3)
            table1 == BootBelow(table2, pg, 2)
        IN  table3 \cup table2 \cup table1 \subseteq (DOMAIN BootTables) \ {Cr3}

ASSUME MapsAssumption ==
    \A map \in Maps :
        /\ map \in Seq(Region)
        /\ \A r \in 1 .. Len(map) :
              /\ map[r].start % PageSize = 0
              /\ map[r].kind = "Usable"
                    => (DOMAIN BootTables) \cap (map[r].start .. (map[r].end - 1)) = {}
        /\ \A r, s \in 1 .. Len(map) :
              r # s => map[r].end <= map[s].start \/ map[s].end <= map[r].start

VARIABLES
    memory_map,  \* AbyssFrameAllocator.memory_map
    next,        \* AbyssFrameAllocator.next
    tables,      \* frame of a page table -> its entries
    page,        \* the heap page heap_allocator::init is at
    frame,       \* the frame allocated for it, while it is being mapped
    pc,          \* where the boot thread stands
    level,       \* the table map_to is in: 4 (root) down to 1
    heap         \* ALLOCATOR has been given the heap

vars == <<memory_map, next, tables, page, frame, pc, level, heap>>

----------------------------------------------------------------------------
\* Plausible mistakes; no specification uses them.

EveryKind(map) ==
    {p \in UNION {{r} \X (map[r].start .. (map[r].end - 1)) : r \in 1 .. Len(map)} :
        /\ (p[2] - map[p[1]].start) % PageSize = 0
        /\ p[2] >= MIN_USABLE_PA}

SameFrameAgain == UNCHANGED next

SkipsAFrame == next' = next + 2

WrapsAround ==
    LET n == Cardinality({p \in EveryKind(memory_map) : memory_map[p[1]].kind = "Usable"})
    IN  next' = IF next + 1 < n THEN next + 1 ELSE 0

LastPageLeftOut ==
    /\ pc = "allocate" /\ page >= HeapStart + HeapPages - 1
    /\ heap' = TRUE
    /\ pc' = "ok"
    /\ UNCHANGED <<memory_map, next, tables, page, frame, level>>

----------------------------------------------------------------------------
\* usable_frames: the address of every page of every Usable region, from
\* MIN_USABLE_PA up, in the order of the map, as pairs of region and address.
usable_frames(map) ==
    {p \in UNION {{r} \X (map[r].start .. (map[r].end - 1)) : r \in 1 .. Len(map)} :
        /\ map[p[1]].kind = "Usable"
        /\ (p[2] - map[p[1]].start) % PageSize = 0
        /\ p[2] >= MIN_USABLE_PA}

Before(p, q) == p[1] < q[1] \/ (p[1] = q[1] /\ p[2] < q[2])

nth(frames, n) ==
    {p \in frames : Cardinality({q \in frames : Before(q, p)}) = n}

containing_address(addr) == addr - (addr % PageSize)

\* allocate_frame: the frame it returns, if any, and the step of its counter,
\* which is taken in either case.
Allocated == {containing_address(p[2]) : p \in nth(usable_frames(memory_map), next)}

Counted == next' = next + 1

----------------------------------------------------------------------------
\* The address space is a tree of tables of four levels.
EmptyTable == [i \in 0 .. (Fanout - 1) |-> Unused]

\* What the entries for page pg hold in the tables of level lvl.
Below(ts, pg, lvl) == UNION {tables[t][Index(pg, lvl)] : t \in ts}

\* The table of level lvl that the walk for page pg goes through, if any, and
\* at "level 0" the frame of the page itself.
Walk(pg, lvl) ==
    LET table3 == Below({Cr3}, pg, 4)
        table2 == Below(table3, pg, 3)
        table1 == Below(table2, pg, 2)
    IN  CASE lvl = 4 -> {Cr3}
          [] lvl = 3 -> table3
          [] lvl = 2 -> table2
          [] lvl = 1 -> table1
          [] lvl = 0 -> Below(table1, pg, 1)

\* External (x86_64): PageTableEntry::frame, which does not know its level.
entry_frame(t, i) ==
    IF tables[t][i] = Unused THEN "FrameNotPresent"
    ELSE IF <<t, i>> \in Bit7 THEN "HugeFrame" ELSE "Ok"

\* Plausible mistake; no specification uses it.
AnyErrorIsNone(found) == IF found = "Ok" THEN "Some" ELSE "None"

\* The match on it: go on, return None, or panic.
match_frame(found) ==
    CASE found = "Ok" -> "Some"
      [] found = "FrameNotPresent" -> "None"
      [] found = "HugeFrame" -> "panicked"

\* One round of its loop: from the table reached so far to what the entry for
\* the page says, unless it has returned or panicked.
look(above, pg, lvl) ==
    LET t == CHOOSE f \in above.frame : TRUE
        i == Index(pg, lvl)
    IN  IF above.result # "Some" THEN above
        ELSE [result |-> match_frame(entry_frame(t, i)), frame |-> tables[t][i]]

\* virtual_to_physical, for the page of the address: what it ends with, and the
\* frame it has reached.
virtual_to_physical(pg) ==
    look(look(look(look([result |-> "Some", frame |-> {Cr3}], pg, 4), pg, 3), pg, 2), pg, 1)

Init ==
    /\ memory_map \in Maps
    /\ next = 0
    /\ tables = BootTables
    /\ page = HeapStart
    /\ frame = {}
    /\ pc = "allocate" /\ level = 4
    /\ heap = FALSE

----------------------------------------------------------------------------
(* heap_allocator::init *)

\* The frame for the next page; without one init returns the error.
allocate_frame ==
    /\ pc = "allocate" /\ page \in HeapRange
    /\ Counted
    /\ frame' = Allocated
    /\ pc' = IF Allocated = {} THEN "error" ELSE "map_to"
    /\ level' = 4
    /\ UNCHANGED <<memory_map, tables, page, heap>>

\* map_to (external, crate x86_64) goes down the tables of the page and takes
\* a frame from the same allocator for each one that is missing; a table it
\* has made stays if a later one cannot be.
Entry == Below(Walk(page, level), page, level)

SetEntry(new) ==
    [t \in DOMAIN tables |->
        IF t \in Walk(page, level) THEN [tables[t] EXCEPT ![Index(page, level)] = new]
                                   ELSE tables[t]]

next_table ==
    /\ pc = "map_to" /\ level > 1 /\ Entry # Unused
    /\ level' = level - 1
    /\ UNCHANGED <<memory_map, next, tables, page, frame, pc, heap>>

create_next_table ==
    /\ pc = "map_to" /\ level > 1 /\ Entry = Unused
    /\ Counted
    /\ IF Allocated = {}
       THEN pc' = "error" /\ UNCHANGED <<tables, level>>
       ELSE /\ tables' = [t \in DOMAIN tables \cup Allocated |->
                            IF t \in Allocated THEN EmptyTable
                                               ELSE SetEntry(Allocated)[t]]
            /\ level' = level - 1
            /\ UNCHANGED pc
    /\ UNCHANGED <<memory_map, page, frame, heap>>

map_page ==
    /\ pc = "map_to" /\ level = 1
    /\ IF Entry = Unused
       THEN /\ tables' = SetEntry(frame)
            /\ page' = page + 1
            /\ pc' = "allocate"
       ELSE /\ pc' = "error"    \* PageAlreadyMapped: HeapMapped excludes it
            /\ UNCHANGED <<tables, page>>
    /\ frame' = {}
    /\ UNCHANGED <<memory_map, next, level, heap>>

init_allocator ==
    /\ pc = "allocate" /\ page \notin HeapRange
    /\ heap' = TRUE
    /\ pc' = "ok"
    /\ UNCHANGED <<memory_map, next, tables, page, frame, level>>

\* memory::init drops the Result, and kernel_main goes on.
memory_init ==
    /\ pc \in {"ok", "error"}
    /\ pc' = "initialized"
    /\ UNCHANGED <<memory_map, next, tables, page, frame, level, heap>>

\* The first allocation: an ALLOCATOR without a heap has no room for it, and
\* alloc_error_handler halts.
first_allocation ==
    /\ pc = "initialized"
    /\ pc' = IF heap THEN "allocated" ELSE "halted"
    /\ UNCHANGED <<memory_map, next, tables, page, frame, level, heap>>

Next ==
    \/ allocate_frame \/ next_table \/ create_next_table \/ map_page
    \/ init_allocator \/ memory_init \/ first_allocation

Spec == Init /\ [][Next]_vars

----------------------------------------------------------------------------
TypeOK ==
    /\ memory_map \in Seq(Region)
    /\ next \in Nat
    /\ \A t \in DOMAIN tables : t \in Nat /\ IsTable(tables[t])
    /\ page \in HeapStart .. (HeapStart + HeapPages)
    /\ IsOption(frame)
    /\ pc \in {"allocate", "map_to", "ok", "error", "initialized", "allocated",
               "halted"}
    /\ level \in 1 .. 4
    /\ heap \in BOOLEAN

\* The table entries that the kernel has set, as pairs of table and index.
UsedEntries ==
    {e \in (DOMAIN tables) \X (0 .. (Fanout - 1)) :
        /\ tables[e[1]][e[2]] # Unused
        /\ e[1] \in DOMAIN BootTables => BootTables[e[1]][e[2]] = Unused}

\* Every frame has one use: no two entries hold the same frame, none holds a
\* table of the bootloader's, and the frame waiting to be mapped is in none of
\* them.  So no heap page aliases another or a page table, though
\* allocate_frame and map_to draw from one counter in turns.
FramesExclusive ==
    /\ \A e, f \in UsedEntries :
          tables[e[1]][e[2]] = tables[f[1]][f[2]] => e = f
    /\ \A e \in UsedEntries :
          tables[e[1]][e[2]] \cap (DOMAIN BootTables) = {} /\ tables[e[1]][e[2]] # frame
    /\ frame \cap (DOMAIN BootTables) = {}

\* The kernel writes only to memory the bootloader gave away: every frame in
\* use lies in a Usable region, not below MIN_USABLE_PA, and wholly inside if
\* the region ends on a page boundary.
FramesUsable ==
    \A f \in frame \cup UNION {tables[e[1]][e[2]] : e \in UsedEntries} :
        /\ f >= MIN_USABLE_PA
        /\ \E r \in 1 .. Len(memory_map) :
              LET reg == memory_map[r] IN
              /\ reg.kind = "Usable"
              /\ f >= reg.start /\ f < reg.end
              /\ reg.end % PageSize = 0 => f + PageSize <= reg.end

\* The page walk finds a frame for exactly the heap pages mapped so far, and
\* for all of them once ALLOCATOR has the heap.
HeapMapped ==
    /\ \A pg \in HeapRange : virtual_to_physical(pg).result = "Some" <=> pg < page
    /\ heap => page = HeapStart + HeapPages

\* The CPU's translation: the level of the entry that ends its walk and what
\* that entry holds.  Bit 7 makes a huge page of an entry of level 3 or 2; at
\* level 1 it selects a memory type.
Descend(above, pg, lvl) ==
    LET e == <<CHOOSE f \in above.holds : TRUE, Index(pg, lvl)>>
    IN  IF above.bit7 \/ above.holds = Unused THEN above
        ELSE [level |-> lvl, holds |-> tables[e[1]][e[2]], bit7 |-> e \in Bit7]

Translation(pg) ==
    LET root == [level |-> 5, holds |-> {Cr3}, bit7 |-> FALSE]
    IN  Descend(Descend(Descend(Descend(root, pg, 4), pg, 3), pg, 2), pg, 1)

\* virtual_to_physical agrees with the CPU on every page, the heap's and the
\* bootloader's: None exactly where the CPU faults, the CPU's frame where it
\* finds one, and a panic for exactly the pages that bit 7 is set for: huge
\* ones, with which the bootloader maps physical memory, and pages of 4 KiB
\* that use the bit for their memory type.
WalkAgreesWithCpu ==
    \A pg \in Pages :
        LET r == virtual_to_physical(pg)
            c == Translation(pg)
        IN  /\ r.result = "None" <=> c.holds = Unused
            /\ r.result = "Some" => c.level = 1 /\ r.frame = c.holds
            /\ r.result = "panicked" <=> c.holds # Unused /\ c.bit7

\* A page that translates keeps its translation: map_to flushes only the page
\* it maps, so no other may change under the TLB.
TranslationStable ==
    [][\A pg \in Pages :
          Translation(pg).holds # Unused => Translation(pg)' = Translation(pg)]_vars

\* The frames mapping the heap takes: its pages and the tables they need.
Needed ==
    HeapPages + Cardinality(UNION {{<<lvl, Prefix(pg, lvl)>> : pg \in HeapRange} :
                                      lvl \in 1 .. 3})

\* The heap is set up exactly when the map has the frames for it: none is
\* wasted, and the last usable one is still good.
HeapIffEnoughFrames ==
    pc \in {"initialized", "allocated", "halted"}
       => (heap <=> Cardinality(usable_frames(memory_map)) >= Needed)
=============================================================================
