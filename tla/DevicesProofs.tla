--------------------------- MODULE DevicesProofs ----------------------------
(***************************************************************************)
(* Proofs about the devices.  Pci.tla: which bytes the configuration       *)
(* accessors read and write, for any functions, registers, widths and      *)
(* offsets, and that a scan that has ended has reported what is there.     *)
(* Display.tla: how far down the screen the texts take the console, the    *)
(* row length of the logo and whether it fits, for any screen.  The two    *)
(* modules share no state; each has its own specification, Spec and        *)
(* DisplaySpec.                                                            *)
(***************************************************************************)
EXTENDS Pci, Display, SequenceTheorems, TLAPS

----------------------------------------------------------------------------
(* The address *)

\* For every offset: its dword and its place in it.
LEMMA Dword ==
    ASSUME NEW o \in Nat
    PROVE  /\ DwordOffset(o) \in Nat /\ DwordOffset(o) < 256 /\ DwordOffset(o) % 4 = 0
           /\ o < 256 => o = DwordOffset(o) + (o % 4)
           /\ o % 4 \in Nat /\ o % 4 < 4
BY Z3 DEF DwordOffset

LEMMA InDword ==
    ASSUME NEW d \in Nat, d < 256, d % 4 = 0, NEW i \in 0 .. 3
    PROVE  DwordOffset(d + i) = d /\ (d + i) % 4 = i
BY Z3 DEF DwordOffset

\* The bridge selects the function and the dword that were packed.
LEMMA SelectedIs ==
    ASSUME NEW fn \in (0 .. 255) \X (0 .. 31) \X (0 .. 7), NEW o \in Nat
    PROVE  Selected(pci_config_address(fn, o)) = <<fn, DwordOffset(o)>>
<1> DEFINE b == fn[1]
           d == fn[2]
           f == fn[3]
           x == DwordOffset(o)
           low == b * 65536 + d * 2048 + f * 256 + x
<1>1. /\ fn = <<b, d, f>> /\ b \in Nat /\ d \in Nat /\ f \in Nat
      /\ b < 256 /\ d < 32 /\ f < 8
  <2>1. PICK B, D, F : B = 0 .. 255 /\ D = 0 .. 31 /\ F = 0 .. 7
    OBVIOUS
  <2>2. fn \in B \X D \X F
    BY <2>1
  <2>3. fn = <<b, d, f>> /\ b \in B /\ d \in D /\ f \in F
    BY ONLY <2>2
  <2> HIDE DEF b, d, f
  <2> QED BY ONLY <2>1, <2>3
<1>2. x \in Nat /\ x < 256
  BY Dword
<1>3. pci_config_address(fn, o).low = low
  BY DEF pci_config_address
<1> HIDE DEF b, d, f, x
<1>4. low = 256 * (8 * (32 * b + d) + f) + x
  BY ONLY <1>1, <1>2, Z3
<1> HIDE DEF low
<1>5. low % 256 = x /\ low \div 256 = 8 * (32 * b + d) + f
  BY ONLY <1>1, <1>2, <1>4, Z3
<1>6. (low \div 256) % 8 = f
  BY ONLY <1>1, <1>5, Z3
<1>7. low \div 2048 = 32 * b + d
  BY ONLY <1>1, <1>2, <1>4, Z3
<1>8. (low \div 2048) % 32 = d
  BY ONLY <1>1, <1>7, Z3
<1>9. low \div 65536 = b /\ (low \div 65536) % 256 = b
  BY ONLY <1>1, <1>2, <1>4, Z3
<1>10. Selected(pci_config_address(fn, o)) = <<<<b, d, f>>, x>>
  BY <1>3, <1>5, <1>6, <1>8, <1>9 DEF Selected
<1> QED BY <1>1, <1>10 DEF x

----------------------------------------------------------------------------
(* The inductive invariant *)

Cell == <<call.fn, DwordOffset(call.offset)>>

\* Once the call has written its address the latch selects its dword, whatever
\* was in the latch before; and once it has read it, `old` is still what the
\* register holds.
AccessInv ==
    /\ config = [cell \in Functions \X Dwords |-> config[cell]]
    /\ call # Idle =>
          /\ call.op \in {"read", "write"} /\ call.width \in {1, 2, 4}
          /\ call.fn \in Functions /\ call.offset \in Offsets
          /\ step \in Nat /\ step >= 1 /\ step <= Len(accesses(call.op, call.width))
          /\ step > 1 => latch = pci_config_address(call.fn, call.offset)
          /\ step > 2 => old = config[Cell]

\* What the call does at each of its steps.
LEMMA AccessAt ==
    ASSUME NEW op \in {"read", "write"}, NEW w \in {1, 2, 4},
           NEW s \in Nat, s >= 1, s <= Len(accesses(op, w))
    PROVE  /\ accesses(op, w)[s] = "address" => s = 1 \/ s = 3
           /\ accesses(op, w)[s] = "in" => s = 2 /\ (op = "read" \/ w # 4)
           /\ accesses(op, w)[s] = "out" =>
                 /\ op = "write" /\ s = Len(accesses(op, w))
                 /\ s = IF w = 4 THEN 2 ELSE 4
           /\ Len(accesses(op, w)) = IF op = "write" /\ w # 4 THEN 4 ELSE 2
<1> DEFINE a == accesses(op, w)
<1>1. CASE op = "read"
  <2>1. a = <<"address", "in">>
    BY <1>1 DEF accesses
  <2> HIDE DEF a
  <2>2. Len(a) = 2 /\ a[1] = "address" /\ a[2] = "in"
    BY ONLY <2>1
  <2>3. s = 1 \/ s = 2
    BY <2>2 DEF a
  <2> QED BY <1>1, <2>2, <2>3 DEF a
<1>2. CASE op = "write" /\ w = 4
  <2>1. a = <<"address", "out">>
    BY <1>2 DEF accesses
  <2> HIDE DEF a
  <2>2. Len(a) = 2 /\ a[1] = "address" /\ a[2] = "out"
    BY ONLY <2>1
  <2>3. s = 1 \/ s = 2
    BY <2>2 DEF a
  <2> QED BY <1>2, <2>2, <2>3 DEF a
<1>3. CASE op = "write" /\ w # 4
  <2>1. a = <<"address", "in", "address", "out">>
    BY <1>3 DEF accesses
  <2> HIDE DEF a
  <2>2. /\ Len(a) = 4 /\ a[1] = "address" /\ a[2] = "in"
        /\ a[3] = "address" /\ a[4] = "out"
    BY ONLY <2>1
  <2>3. s = 1 \/ s = 2 \/ s = 3 \/ s = 4
    BY <2>2 DEF a
  <2> QED BY <1>3, <2>2, <2>3 DEF a
<1> QED BY <1>1, <1>2, <1>3

\* The assumptions, one by one.
LEMMA Registers ==
    /\ Functions \subseteq (0 .. 255) \X (0 .. 31) \X (0 .. 7)
    /\ Offsets \subseteq Nat
    /\ \A o \in Offsets : DwordOffset(o) \in Dwords
    /\ \A d \in Dwords : d \in Nat /\ d < 256 /\ d % 4 = 0
BY RegistersAssumption, Z3

LEMMA CellIs ==
    ASSUME AccessInv, call # Idle
    PROVE  /\ Cell \in Functions \X Dwords
           /\ call.offset \in Nat
           /\ Selected(pci_config_address(call.fn, call.offset)) = Cell
<1> DEFINE o == call.offset
           fn == call.fn
<1>1. fn \in Functions /\ o \in Offsets
  BY DEF AccessInv
<1> HIDE DEF o, fn
<1>2. fn \in (0 .. 255) \X (0 .. 31) \X (0 .. 7)
  BY ONLY <1>1, Registers, Z3
<1>3. o \in Nat /\ DwordOffset(o) \in Dwords
  BY ONLY <1>1, Registers, Z3
<1>4. Selected(pci_config_address(fn, o)) = <<fn, DwordOffset(o)>>
  BY <1>2, <1>3, SelectedIs
<1> QED BY <1>1, <1>3, <1>4 DEF Cell, o, fn

LEMMA InitAccess == Init => AccessInv
<1>1. AccessInit => AccessInv
  BY DEF AccessInit, AccessInv
<1>2. NoCallsLeft => AccessInv
  BY DEF NoCallsLeft, AccessInv
<1> QED BY <1>1, <1>2 DEF Init

LEMMA BeginStep ==
    ASSUME AccessInv, NEW op \in {"read", "write"}, NEW w \in {1, 2, 4}, NEW fn \in Functions,
           NEW o \in Offsets, NEW v, begin(op, w, fn, o, v)
    PROVE  AccessInv'
<1>1. /\ call' = [op |-> op, width |-> w, fn |-> fn, offset |-> o, value |-> v]
      /\ step' = 1 /\ config' = config
  BY DEF begin
<1>2. /\ call'.op = op /\ call'.width = w /\ call'.fn = fn /\ call'.offset = o
  BY <1>1
<1>3. 1 <= Len(accesses(op, w))
  BY DEF accesses
<1> QED BY <1>1, <1>2, <1>3 DEF AccessInv

\* A call moves on by one access, or ends.
LEMMA AdvanceStep ==
    ASSUME AccessInv, call # Idle, Advance
    PROVE  /\ call' # Idle => call' = call /\ step' = step + 1
           /\ call' # Idle => step + 1 <= Len(accesses(call.op, call.width))
<1>1. /\ step \in Nat /\ step <= Len(accesses(call.op, call.width))
      /\ Len(accesses(call.op, call.width)) \in Nat
  BY DEF AccessInv, accesses
<1> QED BY <1>1 DEF Advance

LEMMA AddressStep == AccessInv /\ write_address => AccessInv'
<1> SUFFICES ASSUME AccessInv, write_address PROVE AccessInv'
  OBVIOUS
<1>1. /\ call # Idle /\ Advance /\ config' = config /\ old' = old
      /\ latch' = pci_config_address(call.fn, call.offset)
  BY DEF write_address, Access
<1>2. /\ call' # Idle => call' = call /\ step' = step + 1
      /\ call' # Idle => step + 1 <= Len(accesses(call.op, call.width))
  BY <1>1, AdvanceStep
<1>3. step = 1 \/ step = 3
  BY <1>1, AccessAt DEF AccessInv, write_address, Access
<1>4. call' # Idle => (Cell' = Cell /\ step' \in Nat)
  BY <1>2, <1>3 DEF Cell
<1> QED BY <1>1, <1>2, <1>3, <1>4 DEF AccessInv

LEMMA ReadStep == AccessInv /\ pci_config_read_u32 => AccessInv'
<1> SUFFICES ASSUME AccessInv, pci_config_read_u32 PROVE AccessInv'
  OBVIOUS
<1>1. /\ call # Idle /\ Advance /\ config' = config /\ latch' = latch
      /\ old' = config[Selected(latch)]
  BY DEF pci_config_read_u32, Access
<1>2. /\ call' # Idle => call' = call /\ step' = step + 1
      /\ call' # Idle => step + 1 <= Len(accesses(call.op, call.width))
  BY <1>1, AdvanceStep
<1>3. step = 2
  BY <1>1, AccessAt DEF AccessInv, pci_config_read_u32, Access
<1>4. latch = pci_config_address(call.fn, call.offset) /\ old' = config[Cell]
  BY <1>1, <1>3, CellIs DEF AccessInv
<1>5. call' # Idle => (Cell' = Cell /\ step' \in Nat)
  BY <1>2, <1>3 DEF Cell
<1> QED BY <1>1, <1>2, <1>3, <1>4, <1>5 DEF AccessInv

\* The data port is written last.
LEMMA WriteAt ==
    ASSUME AccessInv, pci_config_write_u32
    PROVE  /\ call # Idle /\ call.op = "write" /\ call' = Idle
           /\ latch = pci_config_address(call.fn, call.offset)
           /\ call.width # 4 => old = config[Cell]
           /\ config' = [config EXCEPT ![Cell] =
                            merged(old, call.offset, call.width, call.value)]
<1>1. /\ call # Idle /\ Advance
      /\ accesses(call.op, call.width)[step] = "out"
      /\ config' = [config EXCEPT ![Selected(latch)] =
                            merged(old, call.offset, call.width, call.value)]
  BY DEF pci_config_write_u32, Access
<1>2. /\ call.op = "write" /\ step = Len(accesses(call.op, call.width))
      /\ step = IF call.width = 4 THEN 2 ELSE 4
  BY <1>1, AccessAt DEF AccessInv
<1>3. latch = pci_config_address(call.fn, call.offset) /\ (call.width # 4 => old = config[Cell])
  BY <1>1, <1>2 DEF AccessInv
<1>4. call' = Idle
  BY <1>1, <1>2 DEF Advance
<1> QED BY <1>1, <1>2, <1>3, <1>4, CellIs

LEMMA WriteStep == AccessInv /\ pci_config_write_u32 => AccessInv'
<1> SUFFICES ASSUME AccessInv, pci_config_write_u32 PROVE AccessInv'
  OBVIOUS
<1> DEFINE m == merged(old, call.offset, call.width, call.value)
<1>1. call' = Idle /\ config' = [config EXCEPT ![Cell] = m]
  BY WriteAt
<1> HIDE DEF m
<1>2. config' = [cell \in Functions \X Dwords |-> config'[cell]]
  BY <1>1 DEF AccessInv
<1> QED BY <1>1, <1>2 DEF AccessInv

LEMMA NextAccess == AccessInv /\ [Next]_vars => AccessInv'
<1> SUFFICES ASSUME AccessInv, [Next]_vars PROVE AccessInv'
  OBVIOUS
<1>1. CASE UNCHANGED accessVars
  BY <1>1 DEF accessVars, AccessInv, Cell
<1>2. CASE AccessNext
  <2>1. ASSUME NEW op \in {"read", "write"}, NEW w \in {1, 2, 4}, NEW fn \in Functions,
               NEW o \in Offsets, NEW v, begin(op, w, fn, o, v)
        PROVE  AccessInv'
    BY <2>1, BeginStep
  <2> QED BY <1>2, <2>1, AddressStep, ReadStep, WriteStep DEF AccessNext
<1> QED BY <1>1, <1>2 DEF Next, vars

LEMMA AccessInvariant == Spec => []AccessInv
BY InitAccess, NextAccess, PTL DEF Spec

----------------------------------------------------------------------------
(* Which bytes a call touches *)

\* Where the shift of a write puts its first byte, at any offset.
LEMMA ShiftIs ==
    ASSUME NEW o \in Nat, NEW w \in {1, 2, 4}
    PROVE  /\ shift(o, w) \in Nat /\ shift(o, w) + w <= 4
           /\ (o % 256) - (o % w) = DwordOffset(o) + shift(o, w)
           /\ o < 256 /\ o % w = 0 => o = DwordOffset(o) + shift(o, w)
<1> DEFINE x == o % 256
           r == o % 4
           t == o % 2
<1>1. x \in Nat /\ r \in Nat /\ r < 4 /\ t \in Nat /\ t < 2
  BY Z3
<1>2. o < 256 => x = o
  BY Z3
<1>3. t <= r /\ r <= 2 + t
  BY Z3
<1>4. o % 1 = 0
  BY Z3
<1>5. DwordOffset(o) = x - r
  BY DEF DwordOffset
<1>6. CASE w = 1
  <2>1. shift(o, w) = r
    BY <1>6 DEF shift
  <2> HIDE DEF x, r, t
  <2> QED BY <1>1, <1>2, <1>4, <1>5, <1>6, <2>1 DEF x
<1>7. CASE w = 2
  <2>1. shift(o, w) = r - t /\ o % w = t
    BY <1>7 DEF shift
  <2> HIDE DEF x, r, t
  <2> QED BY <1>1, <1>2, <1>3, <1>5, <1>7, <2>1 DEF x
<1>8. CASE w = 4
  <2>1. shift(o, w) = 0 /\ o % w = r
    BY <1>8 DEF shift
  <2> HIDE DEF x, r, t
  <2> QED BY <1>1, <1>2, <1>5, <1>8, <2>1 DEF x
<1> QED BY <1>6, <1>7, <1>8

\* First is where the code begins: the dword for a read, the dword and the shift
\* for a write.
LEMMA FirstIs ==
    ASSUME AccessInv, call # Idle
    PROVE  First(call) = IF call.op = "read" THEN DwordOffset(call.offset)
                         ELSE DwordOffset(call.offset) + shift(call.offset, call.width)
<1> DEFINE o == call.offset
           w == call.width
<1>1. o \in Nat /\ w \in {1, 2, 4} /\ call.op \in {"read", "write"}
  BY CellIs DEF AccessInv
<1>2. CASE call.op = "read"
  <2>1. First(call) = IF o < 256 /\ o % 4 = 0 THEN o ELSE DwordOffset(o)
    BY <1>2 DEF First, Honoured
  <2> HIDE DEF o
  <2>2. ASSUME o < 256, o % 4 = 0 PROVE DwordOffset(o) = o
    <3>1. o = DwordOffset(o) + (o % 4)
      BY <1>1, <2>2, Dword
    <3>2. DwordOffset(o) \in Nat
      BY <1>1, Dword
    <3> QED BY ONLY <2>2, <3>1, <3>2
  <2> QED BY <1>2, <2>1, <2>2 DEF o
<1>3. CASE call.op = "write"
  <2>1. First(call) = IF o < 256 /\ o % w = 0 THEN o ELSE (o % 256) - (o % w)
    BY <1>3 DEF First, Honoured
  <2> HIDE DEF o, w
  <2>2. First(call) = DwordOffset(o) + shift(o, w)
    <3>1. (o % 256) - (o % w) = DwordOffset(o) + shift(o, w)
      BY <1>1, ShiftIs
    <3>2. o < 256 /\ o % w = 0 => o = DwordOffset(o) + shift(o, w)
      BY <1>1, ShiftIs
    <3> QED BY ONLY <2>1, <3>1, <3>2
  <2> QED BY <1>3, <2>2 DEF o, w
<1> QED BY <1>1, <1>2, <1>3

\* merged changes the bytes from the shift on, `w` of them, and no other; f is
\* the offset of the first.
MergedAt(x, o, w, v, f, d, i) ==
    /\ d = DwordOffset(o) =>
          merged(x, o, w, v)[i] = IF d + i \in f .. (f + w - 1) THEN v[d + i - f] ELSE x[i]
    /\ d # DwordOffset(o) => d + i \notin f .. (f + w - 1)
    /\ d = DwordOffset(o) /\ w = 4 => d + i \in f .. (f + w - 1)

LEMMA MergedIs ==
    ASSUME NEW o \in Nat, NEW w \in {1, 2, 4}, NEW x, NEW v,
           NEW f, f = DwordOffset(o) + shift(o, w),
           NEW d \in Nat, d < 256, d % 4 = 0, NEW i \in 0 .. 3
    PROVE  MergedAt(x, o, w, v, f, d, i)
<1> DEFINE s == shift(o, w)
           b == DwordOffset(o)
<1>1. s \in Nat /\ s + w <= 4
  BY ShiftIs
<1>2. b \in Nat /\ b % 4 = 0 /\ f = b + s
  <2>1. b \in Nat /\ b % 4 = 0
    BY Dword
  <2> QED BY <2>1
<1>3. merged(x, o, w, v)[i] = IF i \in s .. (s + w - 1) THEN v[i - s] ELSE x[i]
  BY <1>1 DEF merged
<1>4. w \in Nat /\ w >= 1 /\ i \in Nat /\ i < 4
  OBVIOUS
<1> HIDE DEF s, b
<1>5. ASSUME d = b
      PROVE  (i \in s .. (s + w - 1) <=> d + i \in f .. (f + w - 1)) /\ i - s = d + i - f
  BY ONLY <1>1, <1>2, <1>4, <1>5
<1>6. ASSUME d # b PROVE d + i \notin f .. (f + w - 1)
  <2>1. d < b => d + 4 <= b
    BY ONLY <1>2, d \in Nat, d % 4 = 0, Z3
  <2>2. b < d => b + 4 <= d
    BY ONLY <1>2, d \in Nat, d % 4 = 0, Z3
  <2> QED BY ONLY <1>1, <1>2, <1>4, <1>6, <2>1, <2>2, d \in Nat
<1>7. ASSUME d = b, w = 4 PROVE d + i \in f .. (f + w - 1)
  <2>1. s = 0
    BY ONLY <1>1, <1>2, <1>7
  <2> QED BY ONLY <1>2, <1>4, <1>7, <2>1, d \in Nat
<1> QED BY <1>3, <1>5, <1>6, <1>7 DEF b, MergedAt

\* What pci_config_write_u32 leaves in every byte.
LEMMA WritesNamed ==
    ASSUME AccessInv, pci_config_write_u32,
           NEW fn \in Functions, NEW d \in Dwords, NEW i \in 0 .. 3
    PROVE  ByteAt(config', fn, d + i) =
               IF fn = call.fn /\ d + i \in First(call) .. First(call) + call.width - 1
               THEN call.value[d + i - First(call)]
               ELSE ByteAt(config, fn, d + i)
<1> DEFINE o == call.offset
           f == First(call)
           w == call.width
           v == call.value
           m == merged(old, o, w, v)
           cell == <<fn, d>>
<1>1. /\ call # Idle /\ config' = [config EXCEPT ![Cell] = m]
      /\ w # 4 => old = config[Cell]
  BY WriteAt
<1>2. o \in Nat /\ w \in {1, 2, 4} /\ f = DwordOffset(o) + shift(o, w)
  BY <1>1, CellIs, FirstIs, WriteAt DEF AccessInv
<1>3. d \in Nat /\ d < 256 /\ d % 4 = 0
  BY Registers, Z3
<1>4. DwordOffset(d + i) = d /\ (d + i) % 4 = i
  BY <1>3, InDword
<1>5. /\ ByteAt(config', fn, d + i) = config'[cell][i]
      /\ ByteAt(config, fn, d + i) = config[cell][i]
  BY <1>4 DEF ByteAt
<1>6. /\ d = DwordOffset(o) =>
            m[i] = IF d + i \in f .. (f + w - 1) THEN v[d + i - f] ELSE old[i]
      /\ d # DwordOffset(o) => d + i \notin f .. (f + w - 1)
      /\ d = DwordOffset(o) /\ w = 4 => d + i \in f .. (f + w - 1)
  <2> HIDE DEF o, w, v, f
  <2>1. MergedAt(old, o, w, v, f, d, i)
    BY ONLY i \in 0 .. 3, <1>2, <1>3, MergedIs
  <2> QED BY ONLY <2>1 DEF MergedAt
<1>8. cell \in DOMAIN config
  BY DEF AccessInv
<1>9. cell = Cell <=> fn = call.fn /\ d = DwordOffset(o)
  BY DEF Cell
<1>10. config'[cell] = IF cell = Cell THEN m ELSE config[cell]
  <2> HIDE DEF m, cell
  <2> QED BY ONLY <1>1, <1>8
<1> DEFINE named == d + i \in f .. (f + w - 1)
           value == v[d + i - f]
<1> HIDE DEF m, cell, o, w, v, f, named, value
<1>11. CASE cell = Cell
  <2>1. config'[cell][i] = IF named THEN value ELSE old[i]
    BY <1>6, <1>9, <1>10, <1>11 DEF named, value
  <2>2. ~named => old = config[cell]
    BY <1>1, <1>6, <1>9, <1>11 DEF named
  <2>3. config'[cell][i] = IF named THEN value ELSE config[cell][i]
    BY ONLY <2>1, <2>2
  <2> QED BY <1>5, <1>9, <1>11, <2>3 DEF named, value, o, v, f, w
<1>12. CASE cell # Cell
  <2>1. ~(fn = call.fn /\ named)
    BY <1>6, <1>9, <1>12 DEF named
  <2> QED BY <1>5, <1>10, <1>12, <2>1 DEF named, f, w
<1> QED BY <1>11, <1>12

\* What a read returns, at any offset.
LEMMA ReadsNamed ==
    ASSUME AccessInv, pci_config_read_u32, result' # result,
           NEW i \in 0 .. (call.width - 1)
    PROVE  result'.value[i] = ByteAt(config, call.fn, First(call) + i)
<1> DEFINE b == DwordOffset(call.offset)
           x == config[Selected(latch)]
<1>1. call # Idle /\ accesses(call.op, call.width)[step] = "in"
  BY DEF pci_config_read_u32, Access
<1>2. result'.value[i] = x[i] /\ call.op = "read"
  BY DEF pci_config_read_u32
<1>3. step = 2 /\ call.width \in {1, 2, 4}
  BY <1>1, AccessAt DEF AccessInv
<1>4. x = config[Cell] /\ call.offset \in Nat
  BY <1>1, <1>3, CellIs DEF AccessInv
<1>5. i \in 0 .. 3
  BY <1>3
<1>6. b \in Nat /\ b < 256 /\ b % 4 = 0
  BY <1>4, Dword
<1>7. DwordOffset(b + i) = b /\ (b + i) % 4 = i
  BY <1>5, <1>6, InDword
<1>8. First(call) = b
  BY <1>1, <1>2, FirstIs
<1> QED BY <1>2, <1>4, <1>7, <1>8 DEF ByteAt, Cell

\* At every offset and width a call accesses the bytes from First on, which are
\* the ones its caller named if it is Honoured, through whatever address
\* the call before it left in the latch; and a write changes no byte next to
\* them though it writes the whole dword.
THEOREM NamedBytesOnly == Spec => AccessesNamedBytes
<1> DEFINE Step ==
       call # Idle =>
        /\ config' # config =>
              \A fn \in Functions, d \in Dwords, i \in 0 .. 3 :
                 ByteAt(config', fn, d + i) =
                     IF fn = call.fn /\ d + i \in First(call) .. First(call) + call.width - 1
                     THEN call.value[d + i - First(call)]
                     ELSE ByteAt(config, fn, d + i)
        /\ result' # result =>
              \A i \in 0 .. call.width - 1 :
                 result'.value[i] = ByteAt(config, call.fn, First(call) + i)
<1>1. ASSUME AccessInv, [Next]_vars PROVE [Step]_accessVars
  <2> SUFFICES ASSUME AccessNext PROVE Step
    BY <1>1 DEF Next, vars
  <2>1. config' # config => pci_config_write_u32
    BY DEF AccessNext, begin, write_address, pci_config_read_u32
  <2>2. result' # result => pci_config_read_u32
    BY DEF AccessNext, begin, write_address, pci_config_write_u32
  <2>3. ASSUME config' # config,
               NEW fn \in Functions, NEW d \in Dwords, NEW i \in 0 .. 3
        PROVE  ByteAt(config', fn, d + i) =
                     IF fn = call.fn /\ d + i \in First(call) .. First(call) + call.width - 1
                     THEN call.value[d + i - First(call)]
                     ELSE ByteAt(config, fn, d + i)
    BY <1>1, <2>1, <2>3, WritesNamed
  <2>4. ASSUME result' # result,
               NEW i \in 0 .. (call.width - 1)
        PROVE  result'.value[i] = ByteAt(config, call.fn, First(call) + i)
    BY <1>1, <2>2, <2>4, ReadsNamed
  <2> QED BY <2>3, <2>4
<1>2. AccessInv /\ [Next]_vars => [Step]_accessVars
  BY <1>1
<1> HIDE DEF Step
<1>3. Spec => [][Step]_accessVars
  BY <1>2, AccessInvariant, PTL DEF Spec
<1> QED BY <1>3 DEF AccessesNamedBytes, Step

----------------------------------------------------------------------------
(* The scan *)

\* The loops come to fn before they come to g.
Earlier(fn, g) ==
    \/ fn[1] < g[1]
    \/ fn[1] = g[1] /\ fn[2] < g[2]
    \/ fn[1] = g[1] /\ fn[2] = g[2] /\ fn[3] < g[3]

Seen(fn) == done \/ Earlier(fn, at)

Listed(fn) == \E i \in 1 .. Len(reported) : reported[i] = fn

\* What has been reported is what is there among the functions seen; and past
\* function 0 the device is none that merely echoes it.
ScanInv ==
    /\ answers \subseteq Function /\ at \in Function /\ done \in BOOLEAN
    /\ reported \in Seq(Function)
    /\ \A fn \in Function : Listed(fn) <=> fn \in Present /\ Seen(fn)
    /\ \A i, j \in 1 .. Len(reported) : reported[i] = reported[j] => i = j
    /\ ~done /\ at[3] # 0 =>
          (<<at[1], at[2], 0>> \in answers => <<at[1], at[2], 0>> \in multi)

LEMMA FunctionIs ==
    ASSUME NEW fn
    PROVE  fn \in Function <=>
              /\ fn = <<fn[1], fn[2], fn[3]>>
              /\ fn[1] \in 0 .. LastBus /\ fn[2] \in 0 .. LastDevice /\ fn[3] \in 0 .. LastFunction
BY DEF Function

LEMMA Bounds ==
    /\ LastBus \in Nat /\ LastDevice \in Nat /\ LastFunction \in Nat
    /\ LastBus <= 255 /\ LastDevice <= 31 /\ LastFunction <= 7
BY PciScanAssumption

LEMMA ReadIsAt == ASSUME at \in Function PROVE Read = at
<1>1. at \in (0 .. 255) \X (0 .. 31) \X (0 .. 7)
  <2>1. /\ at = <<at[1], at[2], at[3]>>
        /\ at[1] \in 0 .. 255 /\ at[2] \in 0 .. 31 /\ at[3] \in 0 .. 7
    BY FunctionIs, Bounds
  <2> QED BY <2>1
<1>2. Selected(pci_config_address(at, 0)) = <<at, DwordOffset(0)>>
  BY <1>1, SelectedIs
<1> QED BY <1>2 DEF Read

\* A function not to be reported any more is one already seen.
LEMMA MoveFunction ==
    ASSUME at \in Function, done = FALSE, NextFunction(at[1], at[2], at[3])
    PROVE  /\ at' \in Function /\ done' \in BOOLEAN
           /\ \A fn \in Function : Seen(fn)' <=> Seen(fn) \/ fn = at
           /\ ~done' /\ at'[3] # 0 => at'[1] = at[1] /\ at'[2] = at[2]
<1>1. /\ at = <<at[1], at[2], at[3]>>
      /\ at[1] \in 0 .. LastBus /\ at[2] \in 0 .. LastDevice /\ at[3] \in 0 .. LastFunction
  BY FunctionIs
<1>2. \A fn \in Function : /\ fn = <<fn[1], fn[2], fn[3]>>
                           /\ fn[1] \in 0 .. LastBus /\ fn[2] \in 0 .. LastDevice
                           /\ fn[3] \in 0 .. LastFunction
  BY FunctionIs
<1>3. CASE at[3] < LastFunction
  <2>1. at' = <<at[1], at[2], at[3] + 1>> /\ done' = FALSE
    BY <1>3 DEF NextFunction
  <2>2. at'[1] = at[1] /\ at'[2] = at[2] /\ at'[3] = at[3] + 1
    BY <2>1
  <2>3. at' \in Function
    BY <1>1, <1>3, <2>1, Bounds DEF Function
  <2>4. \A fn \in Function : Earlier(fn, at') <=> Earlier(fn, at) \/ fn = at
    BY <1>1, <1>2, <2>2, Bounds DEF Earlier
  <2> QED BY <2>1, <2>2, <2>3, <2>4 DEF Seen
<1>4. CASE ~(at[3] < LastFunction)
  <2>0. at[3] = LastFunction /\ NextDevice(at[1], at[2])
    BY <1>1, <1>4, Bounds DEF NextFunction
  <2>1. CASE at[2] < LastDevice /\ at' = <<at[1], at[2] + 1, 0>> /\ done' = FALSE
    <3>2. at'[1] = at[1] /\ at'[2] = at[2] + 1 /\ at'[3] = 0
      BY <2>1
    <3>3. at' \in Function
      BY <1>1, <2>1, Bounds DEF Function
    <3>4. \A fn \in Function : Earlier(fn, at') <=> Earlier(fn, at) \/ fn = at
      BY <1>1, <1>2, <2>0, <3>2, Bounds DEF Earlier
    <3> QED BY <2>1, <3>2, <3>3, <3>4 DEF Seen
  <2>2. CASE at[2] = LastDevice /\ at[1] < LastBus /\ at' = <<at[1] + 1, 0, 0>> /\ done' = FALSE
    <3>2. at'[1] = at[1] + 1 /\ at'[2] = 0 /\ at'[3] = 0
      BY <2>2
    <3>3. at' \in Function
      BY <1>1, <2>2, Bounds DEF Function
    <3>4. \A fn \in Function : Earlier(fn, at') <=> Earlier(fn, at) \/ fn = at
      BY <1>1, <1>2, <2>0, <2>2, <3>2, Bounds DEF Earlier
    <3> QED BY <2>2, <3>2, <3>3, <3>4 DEF Seen
  <2>3. CASE at[2] = LastDevice /\ at[1] = LastBus /\ done' = TRUE /\ at' = at
    <3>1. \A fn \in Function : Earlier(fn, at) \/ fn = at
      BY <1>1, <1>2, <2>0, <2>3, Bounds DEF Earlier
    <3> QED BY <2>3, <3>1 DEF Seen
  <2> QED BY <2>0, <2>1, <2>2, <2>3 DEF NextDevice
<1> QED BY <1>3, <1>4

\* The rest of a device is seen when its first function ends it.
LEMMA MoveDevice ==
    ASSUME at \in Function, done = FALSE, at[3] = 0, NextDevice(at[1], at[2])
    PROVE  /\ at' \in Function /\ done' \in BOOLEAN
           /\ \A fn \in Function : Seen(fn)' <=> Seen(fn) \/ (fn[1] = at[1] /\ fn[2] = at[2])
           /\ ~done' => at'[3] = 0
<1>1. /\ at = <<at[1], at[2], at[3]>>
      /\ at[1] \in 0 .. LastBus /\ at[2] \in 0 .. LastDevice
  BY FunctionIs
<1>2. \A fn \in Function : /\ fn[1] \in 0 .. LastBus /\ fn[2] \in 0 .. LastDevice
                           /\ fn[3] \in 0 .. LastFunction
  BY FunctionIs
<1>3. CASE at[2] < LastDevice /\ at' = <<at[1], at[2] + 1, 0>> /\ done' = FALSE
  <2>2. at'[1] = at[1] /\ at'[2] = at[2] + 1 /\ at'[3] = 0
    BY <1>3
  <2>3. at' \in Function
    BY <1>1, <1>3, Bounds DEF Function
  <2>4. \A fn \in Function :
           Earlier(fn, at') <=> Earlier(fn, at) \/ (fn[1] = at[1] /\ fn[2] = at[2])
    BY <1>1, <1>2, <2>2, Bounds DEF Earlier
  <2> QED BY <1>3, <2>2, <2>3, <2>4 DEF Seen
<1>4. CASE at[2] = LastDevice /\ at[1] < LastBus /\ at' = <<at[1] + 1, 0, 0>> /\ done' = FALSE
  <2>2. at'[1] = at[1] + 1 /\ at'[2] = 0 /\ at'[3] = 0
    BY <1>4
  <2>3. at' \in Function
    BY <1>1, <1>4, Bounds DEF Function
  <2>4. \A fn \in Function :
           Earlier(fn, at') <=> Earlier(fn, at) \/ (fn[1] = at[1] /\ fn[2] = at[2])
    BY <1>1, <1>2, <1>4, <2>2, Bounds DEF Earlier
  <2> QED BY <1>4, <2>2, <2>3, <2>4 DEF Seen
<1>5. CASE at[2] = LastDevice /\ at[1] = LastBus /\ done' = TRUE /\ at' = at
  <2>1. \A fn \in Function : Earlier(fn, at) \/ (fn[1] = at[1] /\ fn[2] = at[2])
    BY <1>1, <1>2, <1>5, Bounds DEF Earlier
  <2> QED BY <1>5, <2>1 DEF Seen
<1> QED BY <1>3, <1>4, <1>5 DEF NextDevice

\* A report adds a function to those listed, once if it was not among them.
LEMMA Report ==
    ASSUME reported \in Seq(Function), at \in Function, reported' = Append(reported, at), ~Listed(at),
           \A i, j \in 1 .. Len(reported) : reported[i] = reported[j] => i = j
    PROVE  /\ reported' \in Seq(Function)
           /\ \A fn \in Function : Listed(fn)' <=> Listed(fn) \/ fn = at
           /\ \A i, j \in 1 .. Len(reported') : reported'[i] = reported'[j] => i = j
<1>1. /\ reported' \in Seq(Function) /\ Len(reported') = Len(reported) + 1 /\ Len(reported) \in Nat
      /\ \A i \in 1 .. Len(reported) : reported'[i] = reported[i]
      /\ reported'[Len(reported) + 1] = at
  OBVIOUS
<1>2. \A i \in 1 .. Len(reported) : reported[i] # at
  BY DEF Listed
<1>3. \A fn \in Function : Listed(fn)' <=> Listed(fn) \/ fn = at
  BY <1>1 DEF Listed
<1>4. \A i, j \in 1 .. Len(reported') : reported'[i] = reported'[j] => i = j
  BY <1>1, <1>2
<1> QED BY <1>1, <1>3, <1>4

LEMMA ScanStep == ScanInv /\ enumerate_pci => ScanInv'
<1> SUFFICES ASSUME ScanInv, enumerate_pci PROVE ScanInv'
  OBVIOUS
<1>1. /\ answers \subseteq Function /\ at \in Function /\ done = FALSE /\ reported \in Seq(Function)
      /\ answers' = answers /\ multi' = multi /\ Read = at
  BY ReadIsAt DEF ScanInv, enumerate_pci
<1>2. Present' = Present
  BY <1>1 DEF Present
<1>3. /\ \A fn \in Function : Listed(fn) <=> fn \in Present /\ Seen(fn)
      /\ \A i, j \in 1 .. Len(reported) : reported[i] = reported[j] => i = j
      /\ at[3] # 0 => (<<at[1], at[2], 0>> \in answers => <<at[1], at[2], 0>> \in multi)
  BY <1>1 DEF ScanInv
<1>4. /\ at = <<at[1], at[2], at[3]>> /\ at[1] \in Nat /\ at[2] \in Nat /\ at[3] \in Nat
  BY <1>1, FunctionIs, Bounds
<1>5. ~Seen(at)
  BY <1>1, <1>4 DEF Seen, Earlier
<1>6. at \in Present <=> at \in answers
  BY <1>3, <1>4 DEF Present
<1>7. CASE at \in answers /\ SingleFunction(at)
  <2>1. /\ reported' = Append(reported, at) /\ NextDevice(at[1], at[2])
        /\ at[3] = 0 /\ at \notin multi
    BY <1>1, <1>7 DEF enumerate_pci, SingleFunction
  <2>2. /\ at' \in Function /\ done' \in BOOLEAN
        /\ \A fn \in Function : Seen(fn)' <=> Seen(fn) \/ (fn[1] = at[1] /\ fn[2] = at[2])
        /\ ~done' => at'[3] = 0
    BY <1>1, <2>1, MoveDevice
  <2>3. /\ reported' \in Seq(Function)
        /\ \A fn \in Function : Listed(fn)' <=> Listed(fn) \/ fn = at
        /\ \A i, j \in 1 .. Len(reported') : reported'[i] = reported'[j] => i = j
    BY <1>1, <1>3, <1>5, <2>1, Report
  <2>4. \A fn \in Function : fn \in Present /\ fn[1] = at[1] /\ fn[2] = at[2] => fn = at
    <3> SUFFICES ASSUME NEW fn \in Function, fn \in Present, fn[1] = at[1], fn[2] = at[2]
                 PROVE  fn = at
      OBVIOUS
    <3>1. at = <<fn[1], fn[2], 0>> /\ fn = <<fn[1], fn[2], fn[3]>>
      BY <1>4, <2>1, FunctionIs
    <3>2. fn[3] = 0
      BY <1>7, <2>1, <3>1 DEF Present
    <3> QED BY <3>1, <3>2
  <2>5. \A fn \in Function : Listed(fn)' <=> fn \in Present /\ Seen(fn)'
    BY <1>3, <1>6, <1>7, <2>2, <2>3, <2>4
  <2> QED BY <1>1, <1>2, <2>2, <2>3, <2>5 DEF ScanInv
<1>8. CASE ~(at \in answers /\ SingleFunction(at))
  <2>1. NextFunction(at[1], at[2], at[3])
    BY <1>1, <1>8 DEF enumerate_pci
  <2>2. /\ at' \in Function /\ done' \in BOOLEAN
        /\ \A fn \in Function : Seen(fn)' <=> Seen(fn) \/ fn = at
        /\ ~done' /\ at'[3] # 0 => at'[1] = at[1] /\ at'[2] = at[2]
    BY <1>1, <2>1, MoveFunction
  <2>3. <<at[1], at[2], 0>> \in answers => <<at[1], at[2], 0>> \in multi
    BY <1>3, <1>4, <1>8 DEF SingleFunction
  <2>4. CASE at \in answers
    <3>1. reported' = Append(reported, at)
      BY <1>1, <2>4 DEF enumerate_pci
    <3>2. /\ reported' \in Seq(Function)
          /\ \A fn \in Function : Listed(fn)' <=> Listed(fn) \/ fn = at
          /\ \A i, j \in 1 .. Len(reported') : reported'[i] = reported'[j] => i = j
      BY <1>1, <1>3, <1>5, <3>1, Report
    <3>3. \A fn \in Function : Listed(fn)' <=> fn \in Present /\ Seen(fn)'
      BY <1>3, <1>6, <2>2, <2>4, <3>2
    <3> QED BY <1>1, <1>2, <2>2, <2>3, <3>2, <3>3 DEF ScanInv
  <2>5. CASE at \notin answers
    <3>1. reported' = reported
      BY <1>1, <2>5 DEF enumerate_pci
    <3>2. \A fn \in Function : Listed(fn)' <=> Listed(fn)
      BY <3>1 DEF Listed
    <3>3. \A fn \in Function : Listed(fn)' <=> fn \in Present /\ Seen(fn)'
      BY <1>3, <1>6, <2>2, <2>5, <3>2
    <3> QED BY <1>1, <1>2, <1>3, <2>2, <2>3, <3>1, <3>3 DEF ScanInv
  <2> QED BY <2>4, <2>5
<1> QED BY <1>7, <1>8

LEMMA InitScan == Init => ScanInv
<1> SUFFICES ASSUME Init PROVE ScanInv
  OBVIOUS
<1>1. /\ answers \subseteq Function /\ at = <<0, 0, 0>> /\ done \in BOOLEAN /\ reported = <<>>
      /\ done => answers = {}
  BY DEF Init, NoScan, ScanInit
<1>2. at \in Function
  BY <1>1, Bounds DEF Function
<1>3. \A fn : ~Listed(fn)
  BY <1>1 DEF Listed
<1>4. \A fn \in Function : ~(fn \in Present /\ Seen(fn))
  <2>1. \A fn \in Function : ~Earlier(fn, at)
    BY <1>1, FunctionIs, Bounds DEF Earlier
  <2>2. done => Present = {}
    BY <1>1 DEF Present
  <2> QED BY <2>1, <2>2 DEF Seen
<1>5. Len(reported) = 0 /\ reported \in Seq(Function) /\ at[3] = 0
  BY <1>1
<1> QED BY <1>1, <1>2, <1>3, <1>4, <1>5 DEF ScanInv

LEMMA NextScan == ScanInv /\ [Next]_vars => ScanInv'
<1> SUFFICES ASSUME ScanInv, [Next]_vars PROVE ScanInv'
  OBVIOUS
<1>1. CASE UNCHANGED scanVars
  <2>1. /\ answers' = answers /\ multi' = multi /\ at' = at /\ done' = done /\ reported' = reported
    BY <1>1 DEF scanVars
  <2> QED BY <2>1 DEF ScanInv, Listed, Present, Seen, Earlier
<1>2. CASE enumerate_pci
  BY <1>2, ScanStep
<1> QED BY <1>1, <1>2 DEF Next, vars

\* A scan that has ended has reported the functions that are there and no other,
\* each one once, for any numbers of buses, devices and functions up to the
\* widths of enumerate_pci's counters, and any machine.
THEOREM ScanExact == Spec => [](done => ReportedExactly)
<1>1. ScanInv => (done => ReportedExactly)
  <2> SUFFICES ASSUME ScanInv, done PROVE ReportedExactly
    OBVIOUS
  <2>1. \A fn \in Function : Listed(fn) <=> fn \in Present
    BY DEF ScanInv, Seen
  <2>2. Present \subseteq Function
    BY DEF ScanInv, Present
  <2>3. \A i \in 1 .. Len(reported) : reported[i] \in Function
    BY DEF ScanInv
  <2>4. {reported[i] : i \in 1 .. Len(reported)} = Present
    BY <2>1, <2>2, <2>3 DEF Listed
  <2> QED BY <2>4 DEF ScanInv, ReportedExactly
<1> QED BY <1>1, InitScan, NextScan, PTL DEF Spec

----------------------------------------------------------------------------
(* The display: the console *)

\* The console when the texts have taken y rows.
Console(y) ==
    [ok |-> TRUE, width |-> screen.width, height |-> screen.height,
     stride |-> screen.stride, cursor_x |-> 0, cursor_y |-> y]

\* A text of len characters ends beyond the buffer only if its rows do, counting
\* one for each character.
LEMMA RowsBound ==
    ASSUME NEW s \in Nat, NEW h \in Nat, NEW y \in Nat, NEW r \in Nat, NEW w \in Nat,
           NEW len \in Nat, w <= s, 0 < r, 0 < s,
           (len * w - 1) + 0 + (r - 1 + y) * s >= s * h
    PROVE  h < y + len + r
<1> SUFFICES ASSUME h >= y + len + r PROVE FALSE
  OBVIOUS
<1> DEFINE d == h - (y + len + r)
           e == s - w
           q == r - 1 + y
<1>1. d \in Nat /\ h = q + 1 + len + d /\ e \in Nat /\ s = w + e /\ q \in Nat
  OBVIOUS
<1>2. (len * w - 1) + q * s >= s * h
  OBVIOUS
<1> HIDE DEF d, e, q
<1>3. s * h = s * q + s + s * len + s * d
  BY ONLY <1>1, s \in Nat, len \in Nat
<1>4. s * len = len * w + len * e /\ s * q = q * s
  BY ONLY <1>1, len \in Nat, w \in Nat
<1>5. /\ s * d \in Nat /\ len * e \in Nat /\ len * w \in Nat /\ s * q \in Nat
      /\ s * len \in Nat /\ s * h \in Nat
  BY ONLY <1>1, s \in Nat, len \in Nat, w \in Nat, h \in Nat
<1> QED BY ONLY <1>2, <1>3, <1>4, <1>5, s \in Nat, 0 < s

LEMMA ScreenFacts ==
    ASSUME screen \in Screens
    PROVE  /\ screen \in Screen
           /\ screen.width \in Nat /\ screen.height \in Nat /\ screen.stride \in Nat
           /\ screen.granularity \in Nat \ {0} /\ screen.bytes_per_pixel \in {3, 4}
           /\ screen.mapped \in Nat
           /\ CharWidth \in Nat \ {0} /\ RasterHeight \in Nat \ {0}
           /\ CharWidth <= screen.width /\ screen.width <= screen.stride
           /\ screen.mapped >= screen.stride * screen.height * screen.bytes_per_pixel
BY DisplayAssumption DEF Screen

LEMMA DrawFits ==
    ASSUME screen \in Screens, NEW y \in Nat, NEW len \in Nat
    PROVE  \/ draw_string(Console(y), len) = Console(y + len)
           \/ /\ draw_string(Console(y), len).ok = FALSE
              /\ screen.height < y + len + RasterHeight
<1> DEFINE c == Console(y)
<1>1. /\ c.ok = TRUE /\ c.cursor_x = 0 /\ c.cursor_y = y /\ c.width = screen.width
      /\ c.stride = screen.stride /\ c.height = screen.height
  BY DEF Console
<1>2. LastIndex(c, len) = (len * CharWidth - 1) + 0 + (RasterHeight - 1 + y) * screen.stride
  BY <1>1 DEF LastIndex
<1>3. [c EXCEPT !.ok = FALSE].ok = FALSE
  BY DEF Console
<1>4. [c EXCEPT !.cursor_y = @ + len] = Console(y + len)
  <2> DEFINE t == TRUE
             Row(n) == [ok |-> t, width |-> screen.width, height |-> screen.height,
                        stride |-> screen.stride, cursor_x |-> 0, cursor_y |-> n]
  <2>1. \A n : Console(n) = Row(n)
    BY Zenon DEF Console
  <2> HIDE DEF t
  <2>2. [Row(y) EXCEPT !.cursor_y = @ + len] = Row(y + len)
    BY ONLY TRUE
  <2> HIDE DEF Row
  <2> QED BY ONLY <2>1, <2>2 DEF c
<1> HIDE DEF c
<1>5. CASE len > 0 /\ LastIndex(c, len) >= c.stride * c.height
  <2>1. draw_string(c, len) = [c EXCEPT !.ok = FALSE]
    BY <1>1, <1>5 DEF draw_string
  <2>2. screen.height < y + len + RasterHeight
    BY <1>1, <1>2, <1>5, ScreenFacts, RowsBound
  <2> QED BY <1>3, <2>1, <2>2 DEF c
<1>6. CASE ~(len > 0 /\ LastIndex(c, len) >= c.stride * c.height)
  <2>1. ~(c.cursor_x >= c.width)
    BY <1>1, ScreenFacts
  <2>2. draw_string(c, len) = [c EXCEPT !.cursor_y = @ + len]
    BY <1>1, <1>6, <2>1 DEF draw_string
  <2> QED BY <1>4, <2>2 DEF c
<1> QED BY <1>5, <1>6

ConsoleInv ==
    /\ screen \in Screens
    /\ pieces \in Seq(Nat) /\ printed \in Nat
    /\ status \in {"running", "fault", "panicked", "reset"}
    /\ pc = "println" => k \in 1 .. 3
    /\ \/ pc = "console_init" /\ pieces = <<>> /\ printed = 0 /\ CONSOLE = None
       \/ pc # "console_init" /\ CONSOLE = Console(printed)
       \/ pc # "console_init" /\ CONSOLE.ok = FALSE /\ status = "panicked"
    /\ status = "reset" => screen.bytes_per_pixel < 4
    /\ status = "panicked" => screen.height < printed + RasterHeight

LEMMA DisplayInitConsole == DisplayInit => ConsoleInv
<1> SUFFICES ASSUME DisplayInit PROVE ConsoleInv
  OBVIOUS
<1>1. <<>> \in Seq(Nat) /\ 0 \in Nat
  OBVIOUS
<1> QED BY <1>1 DEF DisplayInit, ConsoleInv

\* Draw keeps it, from the console with y rows taken.
LEMMA DrawStep ==
    ASSUME ConsoleInv, status = "running", NEW y \in Nat, y = printed, NEW len \in Nat,
           Draw(Console(y), len), screen' = screen, pc' # "console_init",
           pieces' \in Seq(Nat), pc' = "println" => k' \in 1 .. 3
    PROVE  ConsoleInv'
<1> DEFINE d == draw_string(Console(y), len)
<1>1. CONSOLE' = d /\ status' = (IF d.ok THEN status ELSE "panicked") /\ printed' = printed + len
  BY DEF Draw
<1>2. screen \in Screens /\ printed \in Nat
  BY DEF ConsoleInv
<1>3. \/ d = Console(y + len)
      \/ d.ok = FALSE /\ screen.height < y + len + RasterHeight
  BY <1>2, DrawFits
<1> HIDE DEF d
<1>4. printed' \in Nat /\ screen' \in Screens /\ printed' = y + len
  BY <1>1, <1>2
<1>5. CASE d = Console(y + len)
  <2>1. d.ok = TRUE
    BY <1>5 DEF Console
  <2>2. status' = "running"
    BY <1>1, <2>1
  <2>3. CONSOLE' = Console(printed)'
    BY <1>1, <1>4, <1>5 DEF Console
  <2> QED BY <1>4, <2>2, <2>3 DEF ConsoleInv
<1>6. CASE d.ok = FALSE /\ screen.height < y + len + RasterHeight
  <2>1. status' = "panicked" /\ CONSOLE'.ok = FALSE
    BY <1>1, <1>6
  <2>2. screen'.height < printed' + RasterHeight
    BY <1>4, <1>6
  <2> QED BY <1>4, <2>1, <2>2 DEF ConsoleInv
<1> QED BY <1>3, <1>5, <1>6

LEMMA FillFits ==
    ASSUME screen \in Screens, 4 * FillLength > screen.mapped PROVE screen.bytes_per_pixel < 4
<1> DEFINE n == screen.stride * screen.height
<1>1. n \in Nat /\ screen.mapped \in Nat /\ screen.bytes_per_pixel \in {3, 4}
  BY ScreenFacts
<1>2. screen.mapped >= n * screen.bytes_per_pixel /\ 4 * n > screen.mapped
  BY ScreenFacts DEF FillLength
<1> HIDE DEF n
<1>3. CASE screen.bytes_per_pixel = 4
  <2>1. screen.mapped >= n * 4
    BY <1>2, <1>3
  <2> QED BY ONLY <1>1, <1>2, <2>1
<1> QED BY <1>1, <1>3

LEMMA ConsoleInitStep == ConsoleInv /\ console_init => ConsoleInv'
<1> SUFFICES ASSUME ConsoleInv, console_init PROVE ConsoleInv'
  OBVIOUS
<1>1. /\ status = "running" /\ pc = "console_init" /\ screen' = screen /\ pieces' = pieces
      /\ pieces \in Seq(Nat) /\ printed = 0 /\ pieces = <<>> /\ CONSOLE = None /\ screen \in Screens
  BY DEF ConsoleInv, console_init, Running
<1>2. CASE 4 * FillLength > screen.mapped
  <2>1. status' = "reset" /\ CONSOLE' = CONSOLE /\ pc' = pc /\ k' = k /\ printed' = printed
    BY <1>2 DEF console_init
  <2>2. screen.bytes_per_pixel < 4
    BY <1>1, <1>2, FillFits
  <2> QED BY <1>1, <2>1, <2>2 DEF ConsoleInv, None
<1>3. CASE ~(4 * FillLength > screen.mapped)
  <2>1. Draw(Console(0), 14) /\ pc' = "println" /\ k' = 1
    BY <1>3 DEF console_init, Console, Goto
  <2>2. 0 \in Nat /\ 14 \in Nat /\ 1 \in 1 .. 3
    OBVIOUS
  <2> QED BY <1>1, <2>1, <2>2, DrawStep
<1> QED BY <1>2, <1>3

LEMMA PieceStep == ConsoleInv /\ write_str => ConsoleInv'
<1> SUFFICES ASSUME ConsoleInv, write_str PROVE ConsoleInv'
  OBVIOUS
<1>1. /\ status = "running" /\ pieces # <<>> /\ screen' = screen /\ pieces' = Tail(pieces)
      /\ pc' = pc /\ k' = k /\ Draw(CONSOLE, Head(pieces))
  BY DEF write_str
<1>2. pieces \in Seq(Nat) /\ printed \in Nat /\ pc # "console_init" /\ CONSOLE = Console(printed)
  BY <1>1 DEF ConsoleInv
<1>3. Head(pieces) \in Nat /\ Tail(pieces) \in Seq(Nat)
  BY <1>1, <1>2
<1>4. pc' = "println" => k' \in 1 .. 3
  BY <1>1 DEF ConsoleInv
<1> QED BY <1>1, <1>2, <1>3, <1>4, DrawStep

LEMMA PrintStep == ConsoleInv /\ (println \/ breakpoint_handler) => ConsoleInv'
<1> SUFFICES ASSUME ConsoleInv, println \/ breakpoint_handler PROVE ConsoleInv'
  OBVIOUS
<1>1. /\ status = "running" /\ pc # "console_init" /\ screen' = screen
      /\ CONSOLE' = CONSOLE /\ printed' = printed /\ status' = status
  BY DEF println, breakpoint_handler, Running, print
<1>2. pieces' \in Seq(Nat) /\ pc' # "console_init" /\ (pc' = "println" => k' \in 1 .. 3)
  <2>1. CASE println
    <3>1. k \in 1 .. 3 /\ Len(Texts) = 3 /\ \A i \in 1 .. 3 : Texts[i] \in Nat
      BY <2>1 DEF ConsoleInv, println, Texts
    <3>2. pieces' = <<Texts[k]>>
      BY <2>1 DEF println, print
    <3>3. pc' # "console_init" /\ (pc' = "println" => k' \in 1 .. 3)
      BY <2>1, <3>1 DEF println, Goto
    <3> QED BY <3>1, <3>2, <3>3
  <2>2. CASE breakpoint_handler
    <3>1. pieces' = BreakpointText /\ pc' = pc /\ k' = k
      BY <2>2 DEF breakpoint_handler, print
    <3> QED BY <1>1, <3>1, DisplayAssumption DEF ConsoleInv
  <2> QED BY <2>1, <2>2
<1>3. Console(printed)' = Console(printed)
  BY <1>1 DEF Console
<1> QED BY <1>1, <1>2, <1>3 DEF ConsoleInv

LEMMA LogoStep ==
    ConsoleInv /\ (bga_write_register \/ draw_row \/ row_faults \/ page_fault_handler)
       => ConsoleInv'
<1> SUFFICES ASSUME ConsoleInv,
                    bga_write_register \/ draw_row \/ row_faults \/ page_fault_handler
             PROVE  ConsoleInv'
  OBVIOUS
<1>1. /\ screen' = screen /\ CONSOLE' = CONSOLE /\ printed' = printed /\ pieces' = pieces
      /\ status \in {"running", "fault"} /\ status' \in {"running", "fault"}
  BY DEF bga_write_register, draw_row, row_faults, page_fault_handler, Running
<1>2. \/ pc' = pc /\ k' = k
      \/ pc # "console_init" /\ pc' # "console_init" /\ pc' # "println"
  BY DEF bga_write_register, draw_row, row_faults, page_fault_handler, Goto
<1>3. Console(printed)' = Console(printed)
  BY <1>1 DEF Console
<1> QED BY <1>1, <1>2, <1>3 DEF ConsoleInv

LEMMA DisplayNextConsole == ConsoleInv /\ [DisplayNext]_displayVars => ConsoleInv'
<1> SUFFICES ASSUME ConsoleInv, [DisplayNext]_displayVars PROVE ConsoleInv'
  OBVIOUS
<1>1. CASE UNCHANGED displayVars
  BY <1>1 DEF ConsoleInv, displayVars, Console, None
<1>2. CASE DisplayNext
  BY <1>2, ConsoleInitStep, PieceStep, PrintStep, LogoStep DEF DisplayNext, kernel_main
<1> QED BY <1>1, <1>2

LEMMA ConsoleInvariant == DisplaySpec => []ConsoleInv
BY DisplayInitConsole, DisplayNextConsole, PTL DEF DisplaySpec

\* The console panics or overruns the frame buffer only for the reasons that
\* ConsoleFits names, on every screen and for every breakpoint text.
THEOREM ConsoleBound == DisplaySpec => []ConsoleFits
<1>1. ConsoleInv => ConsoleFits
  <2> SUFFICES ASSUME ConsoleInv PROVE ConsoleFits
    OBVIOUS
  <2>1. ASSUME CONSOLE.ok PROVE CONSOLE.cursor_x = 0 /\ CONSOLE.cursor_y = printed
    <3>1. CASE CONSOLE = Console(printed)
      BY <3>1 DEF Console
    <3>2. CASE CONSOLE = None
      BY <2>1, <3>2 DEF None
    <3> QED BY <2>1, <3>1, <3>2 DEF ConsoleInv
  <2> QED BY <2>1 DEF ConsoleInv, ConsoleFits
<1> QED BY <1>1, ConsoleInvariant, PTL

----------------------------------------------------------------------------
(* The display: the mode *)

Vbe == [enabled : BOOLEAN, xres : Nat, yres : Nat, bpp : Nat, pitch : Int]

\* The row length that the adapter displays the logo with.
LogoRow == LogoWidth - (LogoWidth % screen.granularity)

\* The adapter when n of the writes of ModeWrites are done.
ModeStage(v, n) ==
    /\ n \in 1 .. 4 => v.enabled = FALSE
    /\ n >= 2 => v.xres = LogoWidth
    /\ n >= 4 => v.bpp = 32
    /\ n >= 5 => v.enabled = TRUE /\ v.pitch = LogoRow

ModeInv ==
    /\ screen \in Screens
    /\ vbe \in Vbe
    /\ pc \in {"console_init", "println", "bga_set_video_mode", "logo", "done"}
    /\ pc = "bga_set_video_mode" => k \in 1 .. 6 /\ ModeStage(vbe, k - 1)
    /\ pc = "logo" => ModeStage(vbe, 6)

LEMMA LogoSize ==
    /\ LogoWidth \in Nat /\ as_u16(LogoWidth) = LogoWidth /\ as_u16(LogoHeight) \in Nat
<1>1. LogoWidth \in Nat /\ LogoWidth < 65536 /\ LogoHeight \in Nat
  BY DisplayAssumption
<1>2. LogoWidth % 65536 = LogoWidth /\ LogoHeight % 65536 \in Nat
  BY ONLY <1>1, Z3
<1> QED BY <1>1, <1>2 DEF as_u16

LEMMA ModeWrite ==
    /\ Len(ModeWrites) = 6
    /\ ModeWrites[1] = <<"ENABLE", 0>> /\ ModeWrites[2] = <<"XRES", LogoWidth>>
    /\ ModeWrites[3] = <<"YRES", as_u16(LogoHeight)>> /\ ModeWrites[4] = <<"BPP", 32>>
    /\ ModeWrites[5] = <<"ENABLE", 3>> /\ ModeWrites[6] = <<"BANK", 0>>
<1> DEFINE h == as_u16(LogoHeight)
<1>1. ModeWrites = <<<<"ENABLE", 0>>, <<"XRES", LogoWidth>>, <<"YRES", h>>, <<"BPP", 32>>,
                     <<"ENABLE", 3>>, <<"BANK", 0>>>>
  BY LogoSize DEF ModeWrites
<1> HIDE DEF h
<1>2. /\ Len(ModeWrites) = 6
      /\ ModeWrites[1] = <<"ENABLE", 0>> /\ ModeWrites[2] = <<"XRES", LogoWidth>>
      /\ ModeWrites[3] = <<"YRES", h>> /\ ModeWrites[4] = <<"BPP", 32>>
      /\ ModeWrites[5] = <<"ENABLE", 3>> /\ ModeWrites[6] = <<"BANK", 0>>
  BY ONLY <1>1
<1> QED BY <1>2 DEF h

LEMMA RegisterStep ==
    ASSUME ModeInv, pc = "bga_set_video_mode", NEW n \in 1 .. 6, n = k
    PROVE  LET v == VbeAfter(ModeWrites[n][1], ModeWrites[n][2])
           IN  v \in Vbe /\ ModeStage(v, n)
<1> DEFINE v == VbeAfter(ModeWrites[n][1], ModeWrites[n][2])
<1> SUFFICES v \in Vbe /\ ModeStage(v, n)
  OBVIOUS
<1>0. 0 \in Nat /\ 0 \in Int /\ 32 \in Nat
  OBVIOUS
<1>1. ModeStage(vbe, n - 1) /\ vbe \in Vbe /\ screen \in Screens
  BY DEF ModeInv
<1>2. CASE n = 1
  <2>1. v = [vbe EXCEPT !.enabled = FALSE]
    BY <1>2, ModeWrite DEF VbeAfter
  <2> HIDE DEF v
  <2>2. v \in Vbe /\ v.enabled = FALSE
    BY ONLY <2>1, <1>1, <1>0 DEF Vbe
  <2> QED BY <1>2, <2>2 DEF ModeStage
<1>3. CASE n = 2
  <2>0. vbe.enabled = FALSE
    BY <1>1, <1>3 DEF ModeStage
  <2>1. v = [vbe EXCEPT !.xres = LogoWidth]
    BY <1>3, <2>0, ModeWrite DEF VbeAfter
  <2> HIDE DEF v
  <2>2. v \in Vbe /\ v.enabled = FALSE /\ v.xres = LogoWidth
    BY ONLY <2>0, <2>1, <1>1, LogoSize, <1>0 DEF Vbe
  <2> QED BY <1>3, <2>2 DEF ModeStage
<1>4. CASE n = 3
  <2>0. vbe.enabled = FALSE /\ vbe.xres = LogoWidth
    BY <1>1, <1>4 DEF ModeStage
  <2>1. v = [vbe EXCEPT !.yres = as_u16(LogoHeight)]
    BY <1>4, <2>0, ModeWrite DEF VbeAfter
  <2> HIDE DEF v
  <2>2. v \in Vbe /\ v.enabled = FALSE /\ v.xres = LogoWidth
    BY ONLY <2>0, <2>1, <1>1, LogoSize, <1>0 DEF Vbe
  <2> QED BY <1>4, <2>2 DEF ModeStage
<1>5. CASE n = 4
  <2>0. vbe.enabled = FALSE /\ vbe.xres = LogoWidth
    BY <1>1, <1>5 DEF ModeStage
  <2>1. v = [vbe EXCEPT !.bpp = 32]
    BY <1>5, <2>0, ModeWrite DEF VbeAfter
  <2> HIDE DEF v
  <2>2. PICK b \in Nat : b = 32
    BY ONLY <1>0
  <2>3. v = [vbe EXCEPT !.bpp = b]
    BY ONLY <2>1, <2>2
  <2>4. v \in Vbe /\ v.enabled = FALSE /\ v.xres = vbe.xres /\ v.bpp = b
    BY ONLY <2>0, <2>2, <2>3, <1>1 DEF Vbe
  <2> QED BY ONLY <1>5, <2>0, <2>2, <2>4 DEF ModeStage
<1>6. CASE n = 5
  <2>0. vbe.enabled = FALSE /\ vbe.xres = LogoWidth /\ vbe.bpp = 32
    BY <1>1, <1>6 DEF ModeStage
  <2>1. v = [vbe EXCEPT !.enabled = TRUE, !.pitch = LogoRow]
    <3>1. ModeWrites[n][1] = "ENABLE" /\ ModeWrites[n][2] = 3 /\ 3 % 2 = 1
      BY <1>6, ModeWrite
    <3>2. v = [vbe EXCEPT !.enabled = TRUE,
                          !.pitch = IF vbe.enabled THEN @
                                    ELSE vbe.xres - (vbe.xres % screen.granularity)]
      BY <3>1 DEF VbeAfter
    <3> HIDE DEF v
    <3> QED BY ONLY <2>0, <3>2 DEF LogoRow
  <2> HIDE DEF v
  <2>2. LogoRow \in Int
    BY <1>1, LogoSize, ScreenFacts DEF LogoRow
  <2>3. v \in Vbe /\ v.enabled = TRUE /\ v.xres = vbe.xres /\ v.bpp = vbe.bpp /\ v.pitch = LogoRow
    BY ONLY <2>1, <2>2, <1>1 DEF Vbe
  <2> QED BY ONLY <1>6, <2>0, <2>3 DEF ModeStage
<1>7. CASE n = 6
  <2>1. v = vbe
    BY <1>7, ModeWrite DEF VbeAfter
  <2> QED BY <1>1, <1>7, <2>1 DEF ModeStage
<1> QED BY <1>2, <1>3, <1>4, <1>5, <1>6, <1>7

LEMMA DisplayInitMode == DisplayInit => ModeInv
<1> SUFFICES ASSUME DisplayInit PROVE ModeInv
  OBVIOUS
<1>1. /\ screen.width \in Nat /\ screen.height \in Nat /\ screen.stride \in Int
      /\ 8 * screen.bytes_per_pixel \in Nat /\ TRUE \in BOOLEAN
  BY ScreenFacts DEF DisplayInit
<1>2. vbe \in Vbe
  BY <1>1 DEF DisplayInit, Vbe
<1> QED BY <1>2 DEF DisplayInit, ModeInv

LEMMA DisplayNextMode == ModeInv /\ [DisplayNext]_displayVars => ModeInv'
<1> SUFFICES ASSUME ModeInv, [DisplayNext]_displayVars PROVE ModeInv'
  OBVIOUS
<1>0. screen' = screen
  BY DEF DisplayNext, kernel_main, displayVars, console_init, println, write_str, breakpoint_handler,
         bga_write_register, draw_row, row_faults, page_fault_handler
<1>1. CASE bga_write_register
  <2>1. /\ pc = "bga_set_video_mode" /\ k \in 1 .. 6
        /\ vbe' = VbeAfter(ModeWrites[k][1], ModeWrites[k][2])
    BY <1>1 DEF ModeInv, bga_write_register
  <2>2. PICK n \in 1 .. 6 : n = k
    BY <2>1
  <2>3. PICK v : v = vbe'
    OBVIOUS
  <2>4. v \in Vbe /\ ModeStage(v, n)
    BY <2>1, <2>2, <2>3, RegisterStep
  <2>5. ModeStage(v, n)'
    BY <1>0, <2>4 DEF ModeStage, LogoRow
  <2>6. \/ n < 6 /\ k' = n + 1 /\ pc' = pc
        \/ n = 6 /\ pc' = "logo"
    BY <1>1, <2>2, ModeWrite DEF bga_write_register, Goto
  <2>7. CASE n < 6 /\ k' = n + 1 /\ pc' = pc
    <3>1. k' \in 1 .. 6 /\ k' - 1 = n
      BY <2>7
    <3>2. ModeStage(vbe, k - 1)'
      BY <2>3, <2>5, <3>1
    <3> QED BY <1>0, <2>1, <2>3, <2>4, <2>7, <3>1, <3>2 DEF ModeInv
  <2>8. CASE n = 6 /\ pc' = "logo"
    <3>1. ModeStage(vbe, 6)'
      BY <2>3, <2>5, <2>8
    <3> QED BY <1>0, <2>3, <2>4, <2>8, <3>1 DEF ModeInv
  <2> QED BY <2>6, <2>7, <2>8
<1>2. CASE ~bga_write_register
  <2>1. vbe' = vbe
    BY <1>2 DEF DisplayNext, kernel_main, displayVars, console_init, println, write_str,
                breakpoint_handler, draw_row, row_faults, page_fault_handler
  <2>2. \/ pc' = pc /\ k' = k
        \/ pc' = "println"
        \/ pc' = "bga_set_video_mode" /\ k' = 1
        \/ pc = "logo" /\ pc' = "logo"
        \/ pc' = "done"
    BY <1>2 DEF DisplayNext, kernel_main, displayVars, console_init, println, write_str, Goto,
                breakpoint_handler, draw_row, row_faults, page_fault_handler
  <2>3. \A n : ModeStage(vbe, n)' <=> ModeStage(vbe, n)
    BY <1>0, <2>1 DEF ModeStage, LogoRow
  <2>4. ModeStage(vbe, 0)
    BY DEF ModeStage
  <2>5. 1 \in 1 .. 6 /\ 1 - 1 = 0
    OBVIOUS
  <2> QED BY <1>0, <2>1, <2>2, <2>3, <2>4, <2>5 DEF ModeInv
<1> QED BY <1>1, <1>2

\* After the change of mode the rows of the logo have the length that the comment
\* in kernel_main says exactly if the adapter does not round the width.
THEOREM PitchOfLogo == DisplaySpec => []LogoPitch
<1>1. ModeInv => LogoPitch
  <2> SUFFICES ASSUME ModeInv, pc = "logo"
               PROVE  /\ vbe.enabled /\ vbe.bpp = 32
                      /\ vbe.pitch = LogoWidth <=> LogoWidth % screen.granularity = 0
    BY DEF LogoPitch
  <2>1. vbe.enabled = TRUE /\ vbe.bpp = 32 /\ vbe.pitch = LogoRow
    BY DEF ModeInv, ModeStage
  <2>2. LogoWidth \in Nat /\ screen.granularity \in Nat \ {0}
    BY LogoSize, ScreenFacts DEF ModeInv
  <2>3. LogoRow = LogoWidth <=> LogoWidth % screen.granularity = 0
    BY <2>2 DEF LogoRow
  <2> QED BY <2>1, <2>3
<1>2. ModeInv /\ [DisplayNext]_displayVars => ModeInv'
  BY DisplayNextMode
<1> QED BY <1>1, <1>2, DisplayInitMode, PTL DEF DisplaySpec

----------------------------------------------------------------------------
(* The display: the logo *)

\* The whole of the logo, in bytes.
LogoSizeInBytes == 4 * (LogoHeight * LogoWidth)

\* The rows before the current one lay within the memory mapped.
LogoInv ==
    /\ screen \in Screens
    /\ pc = "logo" => k \in 1 .. LogoHeight
    /\ status = "fault" => pc = "logo" /\ RowEnd(k - 1) > screen.mapped
    /\ pc = "done" => LogoSizeInBytes <= screen.mapped

\* A row ends no later than the last one.
LEMMA RowsInLogo ==
    ASSUME NEW n \in 1 .. LogoHeight
    PROVE  /\ RowEnd(n - 1) \in Nat /\ RowEnd(n - 1) <= LogoSizeInBytes
           /\ n = LogoHeight => RowEnd(n - 1) = LogoSizeInBytes
<1> DEFINE w == LogoWidth
           h == LogoHeight
           d == h - n
<1>1. w \in Nat /\ h \in Nat
  BY DisplayAssumption
<1>2. n \in Nat /\ d \in Nat /\ h = n + d
  BY <1>1
<1>3. RowEnd(n - 1) = 4 * ((n - 1) * w + w) /\ LogoSizeInBytes = 4 * (h * w)
  BY DEF RowEnd, LogoSizeInBytes
<1> HIDE DEF w, h, d
<1>4. (n - 1) * w + w = n * w
  BY <1>1, <1>2
<1>5. h * w = n * w + d * w /\ n * w \in Nat /\ d * w \in Nat /\ d * w >= 0
  BY <1>1, <1>2
<1>6. n = h => n * w = h * w
  OBVIOUS
<1> QED BY <1>3, <1>4, <1>5, <1>6 DEF h

LEMMA DisplayNextLogo == LogoInv /\ [DisplayNext]_displayVars => LogoInv'
<1> SUFFICES ASSUME LogoInv, [DisplayNext]_displayVars PROVE LogoInv'
  OBVIOUS
<1>0. screen' = screen
  BY DEF DisplayNext, kernel_main, displayVars, console_init, println, write_str, breakpoint_handler,
         bga_write_register, draw_row, row_faults, page_fault_handler
<1>1. LogoSizeInBytes' = LogoSizeInBytes /\ \A y : RowEnd(y)' = RowEnd(y)
  BY DEF RowEnd, LogoSizeInBytes
<1>2. CASE draw_row
  <2>1. /\ pc = "logo" /\ status = "running" /\ status' = status
        /\ RowEnd(k - 1) <= screen.mapped
        /\ \/ k < LogoHeight /\ k' = k + 1 /\ pc' = pc
           \/ ~(k < LogoHeight) /\ pc' = "done"
    BY <1>2 DEF draw_row, Running, Goto
  <2>2. PICK n \in 1 .. LogoHeight : n = k
    BY <2>1 DEF LogoInv
  <2>3. LogoHeight \in Nat
    BY DisplayAssumption
  <2>4. CASE k < LogoHeight /\ k' = k + 1 /\ pc' = pc
    <3>1. k' \in 1 .. LogoHeight
      BY <2>2, <2>3, <2>4
    <3> QED BY <1>0, <2>1, <2>4, <3>1 DEF LogoInv
  <2>5. CASE ~(k < LogoHeight) /\ pc' = "done"
    <3>1. n = LogoHeight
      BY <2>2, <2>3, <2>5
    <3>2. LogoSizeInBytes <= screen.mapped
      BY <2>1, <2>2, <3>1, RowsInLogo
    <3> QED BY <1>0, <1>1, <2>1, <2>5, <3>2 DEF LogoInv
  <2> QED BY <2>1, <2>4, <2>5
<1>3. CASE row_faults
  <2>1. pc = "logo" /\ RowEnd(k - 1) > screen.mapped /\ pc' = pc /\ k' = k
    BY <1>3 DEF row_faults
  <2>2. RowEnd(k - 1)' = RowEnd(k - 1)
    BY <2>1 DEF RowEnd
  <2> QED BY <1>0, <2>1, <2>2 DEF LogoInv
<1>4. CASE bga_write_register
  <2>1. /\ pc = "bga_set_video_mode" /\ status = "running" /\ status' = status
        /\ pc' = "bga_set_video_mode" \/ (pc' = "logo" /\ k' = 1)
    BY <1>4 DEF bga_write_register, Running, Goto
  <2>2. 1 \in 1 .. LogoHeight
    BY DisplayAssumption
  <2> QED BY <1>0, <2>1, <2>2 DEF LogoInv
<1>5. CASE page_fault_handler
  <2>1. status' = "running" /\ pc' = pc /\ k' = k
    BY <1>5 DEF page_fault_handler
  <2> QED BY <1>0, <1>1, <2>1 DEF LogoInv
<1>6. CASE console_init \/ println
  <2>1. /\ status = "running" /\ pc \in {"console_init", "println"}
        /\ pc' \in {"console_init", "println", "bga_set_video_mode"}
        /\ status' \in {"running", "panicked", "reset"}
    BY <1>6 DEF console_init, println, Running, Draw, print, Goto
  <2> QED BY <1>0, <2>1 DEF LogoInv
<1>7. CASE write_str \/ breakpoint_handler
  <2>1. status = "running" /\ pc' = pc /\ k' = k /\ status' \in {"running", "panicked"}
    BY <1>7 DEF write_str, breakpoint_handler, Running, Draw, print
  <2> QED BY <1>0, <1>1, <2>1 DEF LogoInv
<1>8. CASE UNCHANGED displayVars
  <2>1. pc' = pc /\ k' = k /\ status' = status
    BY <1>8 DEF displayVars
  <2>2. RowEnd(k - 1)' = RowEnd(k - 1)
    BY <2>1 DEF RowEnd
  <2> QED BY <1>0, <1>1, <2>1, <2>2 DEF LogoInv
<1> QED BY <1>2, <1>3, <1>4, <1>5, <1>6, <1>7, <1>8 DEF DisplayNext, kernel_main

\* What LogoShown has of safety: the loop in kernel_main ends only if all of the
\* logo lies within the memory mapped, and faults only if it does not.
THEOREM LogoFits ==
    DisplaySpec => []/\ pc = "done" => LogoSizeInBytes <= screen.mapped
                     /\ status = "fault" => LogoSizeInBytes > screen.mapped
<1>1. DisplayInit => LogoInv
  BY DEF DisplayInit, LogoInv
<1>2. LogoInv => /\ pc = "done" => LogoSizeInBytes <= screen.mapped
                 /\ status = "fault" => LogoSizeInBytes > screen.mapped
  <2> SUFFICES ASSUME LogoInv, status = "fault" PROVE LogoSizeInBytes > screen.mapped
    BY DEF LogoInv
  <2>1. PICK n \in 1 .. LogoHeight : n = k
    BY DEF LogoInv
  <2>2. RowEnd(n - 1) > screen.mapped /\ RowEnd(n - 1) <= LogoSizeInBytes /\ RowEnd(n - 1) \in Nat
    BY <2>1, RowsInLogo DEF LogoInv
  <2>3. screen.mapped \in Nat
    BY ScreenFacts DEF LogoInv
  <2>4. LogoSizeInBytes \in Int
    <3>1. LogoHeight \in Int /\ LogoWidth \in Int
      BY DisplayAssumption
    <3>2. LogoHeight * LogoWidth \in Int
      BY ONLY <3>1
    <3> QED BY ONLY <3>2 DEF LogoSizeInBytes
  <2> QED BY <2>2, <2>3, <2>4
<1>3. LogoInv /\ [DisplayNext]_displayVars => LogoInv'
  BY DisplayNextLogo
<1> QED BY <1>1, <1>2, <1>3, PTL DEF DisplaySpec
=============================================================================
