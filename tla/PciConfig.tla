----------------------------- MODULE PciConfig ------------------------------
(***************************************************************************)
(* The PCI configuration accessors that AcpiHandler and AmlHandler give    *)
(* the acpi and aml crates (kernel/src/acpi/handler.rs).  Each is a        *)
(* sequence of accesses to the address port 0xCF8, a latch, and the data   *)
(* port 0xCFC, which reads or writes one dword; the narrower writes read   *)
(* the dword, change part of it and write it back.                         *)
(*                                                                         *)
(* A dword is a function from byte position to byte.  Masks and shifts are *)
(* by whole bytes, so how many values a byte has does not matter.          *)
(***************************************************************************)
EXTENDS PciAddress, Sequences

CONSTANTS
    Functions,  \* the functions present: <<bus, device, function>>
    Dwords,     \* offsets of the registers that are modelled
    Offsets,    \* offsets that are asked for (u16)
    Byte,       \* values of a byte
    MaxCalls    \* bound: calls

ASSUME RegistersAssumption ==
    /\ Functions \subseteq (0 .. 255) \X (0 .. 31) \X (0 .. 7)
    /\ \A d \in Dwords : d \in 0 .. 255 /\ d % 4 = 0
    /\ \A o \in Offsets : o \in Nat /\ o < 65536 /\ DwordOffset(o) \in Dwords

ASSUME CallsAssumption == 0 \in Byte /\ Byte \subseteq Nat /\ MaxCalls \in Nat

VARIABLES
    config,     \* <<function, dword offset>> -> dword
    latch,      \* the last address written to 0xCF8
    call,       \* the call in progress, or Idle
    step,       \* its next access
    old,        \* the dword it has read
    result,     \* what it returns
    calls       \* calls made so far

accessVars == <<config, latch, call, step, old, result, calls>>

Idle == [op |-> "none"]

AccessInit ==
    /\ \E b \in Byte : config = [cell \in Functions \X Dwords |-> [i \in 0 .. 3 |-> b]]
    /\ latch \in {pci_config_address(fn, d) : fn \in Functions, d \in Dwords}
    /\ call = Idle /\ step = 1
    /\ old = [i \in 0 .. 3 |-> 0] /\ result = <<>>
    /\ calls = 0

----------------------------------------------------------------------------
\* Plausible mistake; no specification uses it.
NoAddressBeforeWrite(op, width) ==
    IF op = "read" THEN <<"address", "in">>
    ELSE IF width = 4 THEN <<"out">>
    ELSE <<"address", "in", "address", "out">>

\* The accesses of a call, in order.
accesses(op, width) ==
    IF op = "read" THEN <<"address", "in">>
    ELSE IF width = 4 THEN <<"address", "out">>
    ELSE <<"address", "in", "address", "out">>

\* The shift in bytes: offset & 3 for a byte, offset & 2 for a word.
shift(offset, width) ==
    CASE width = 1 -> offset % 4
      [] width = 2 -> (offset % 4) - (offset % 2)
      [] width = 4 -> 0

\* (old & mask) | value << shift
merged(dword, offset, width, value) ==
    LET s == shift(offset, width)
    IN  [i \in 0 .. 3 |-> IF i \in s .. s + width - 1 THEN value[i - s] ELSE dword[i]]

\* read_pci_u8, u16 and u32 and write_pci_u8, u16 and u32 of both handlers.
begin(op, width, fn, offset, value) ==
    /\ call = Idle /\ calls < MaxCalls
    /\ call' = [op |-> op, width |-> width, fn |-> fn, offset |-> offset, value |-> value]
    /\ step' = 1 /\ calls' = calls + 1
    /\ UNCHANGED <<config, latch, old, result>>

Access(a) == call # Idle /\ accesses(call.op, call.width)[step] = a

\* The last access ends the call.
Advance ==
    IF step = Len(accesses(call.op, call.width))
    THEN call' = Idle /\ UNCHANGED step
    ELSE step' = step + 1 /\ UNCHANGED call

write_address ==
    /\ Access("address")
    /\ latch' = pci_config_address(call.fn, call.offset)
    /\ Advance
    /\ UNCHANGED <<config, old, result, calls>>

\* A read accessor casts the dword to the width it returns (`as u8`).
pci_config_read_u32 ==
    /\ Access("in")
    /\ old' = config[Selected(latch)]
    /\ result' = IF call.op = "read"
                 THEN [at |-> <<call.fn, call.offset>>,
                       value |-> [i \in 0 .. call.width - 1 |-> config[Selected(latch)][i]]]
                 ELSE result
    /\ Advance
    /\ UNCHANGED <<config, latch, calls>>

pci_config_write_u32 ==
    /\ Access("out")
    /\ config' = [config EXCEPT ![Selected(latch)] =
                     merged(old, call.offset, call.width, call.value)]
    /\ Advance
    /\ UNCHANGED <<latch, old, result, calls>>

AccessNext ==
    \/ \E width \in {1, 2, 4}, fn \in Functions, offset \in Offsets :
          \/ begin("read", width, fn, offset, <<>>)
          \/ \E value \in [0 .. width - 1 -> Byte] : begin("write", width, fn, offset, value)
    \/ write_address \/ pci_config_read_u32 \/ pci_config_write_u32

----------------------------------------------------------------------------
\* The byte of a configuration at an offset below 256.
ByteAt(c, fn, offset) == c[<<fn, DwordOffset(offset)>>][offset % 4]

\* Calls that get the bytes they name: below offset 256, a write at a multiple
\* of its width, a read at a multiple of four.
Honoured(c) == c.offset < 256 /\ c.offset % (IF c.op = "read" THEN 4 ELSE c.width) = 0

\* The offset of the first byte that a call reads or writes.  A read of any width
\* starts at the dword (read_pci_u8 and read_pci_u16 do not shift), a write at
\* its offset rounded down to a multiple of its width (`offset & 2` drops the
\* lowest bit of a word's, & 0xFC the lowest two of a dword's), and offsets from
\* 256 on wrap (u16 offsets, & 0xFC).
First(c) ==
    IF Honoured(c) THEN c.offset
    ELSE IF c.op = "read" THEN DwordOffset(c.offset)
    ELSE (c.offset % 256) - (c.offset % c.width)

\* A call at any offset, aligned or not, through whatever address an earlier
\* call left in the latch, accesses `width` bytes of the function it names: the
\* ones it names if it is Honoured, else the ones from First on, in the dword its
\* offset lies in (mod 256).  A write gives these bytes their values and changes
\* no other byte of any function though it writes back a whole dword; a read
\* returns what they hold.
AccessesNamedBytes ==
    [][call # Idle =>
        /\ config' # config =>
              \A fn \in Functions, d \in Dwords, i \in 0 .. 3 :
                 ByteAt(config', fn, d + i) =
                     IF fn = call.fn /\ d + i \in First(call) .. First(call) + call.width - 1
                     THEN call.value[d + i - First(call)]
                     ELSE ByteAt(config, fn, d + i)
        /\ result' # result =>
              \A i \in 0 .. call.width - 1 :
                 result'.value[i] = ByteAt(config, call.fn, First(call) + i)]_accessVars
=============================================================================
