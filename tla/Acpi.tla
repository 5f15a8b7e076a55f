-------------------------------- MODULE Acpi --------------------------------
(***************************************************************************)
(* kernel/src/acpi/mod.rs: init, which looks for the PM1a control block    *)
(* and the S5 sleep type in the firmware's tables and gives up at the      *)
(* first step that fails, and shutdown, which the keyboard handler calls.  *)
(*                                                                         *)
(* The tables are a record of what each step finds.  Numbers keep their    *)
(* widths: the sleep type is a u64 cut to u16, the address a u64 cut to    *)
(* the u16 of a port.                                                      *)
(***************************************************************************)
EXTENDS Integers, Sequences

CONSTANTS
    Addresses,  \* values of the FADT's PM1a control block (u64)
    SleepTypes  \* values of \_S5[0] (u64)

ASSUME AcpiAssumption == Addresses \subseteq Nat /\ SleepTypes \subseteq Nat

VARIABLES
    firmware,   \* what the tables hold, and whether there is a heap
    pc,         \* "init", then "ready"; "halted" by a panic or an allocation without a heap
    step,       \* the next step of init
    info,       \* ACPI_SHUTDOWN
    port,       \* the last port written by shutdown and the value
    power       \* "on" or "off"

vars == <<firmware, pc, step, info, port, power>>

\* The steps of init that can fail, in order.
Steps == <<"from_rsdp", "dsdt", "find_fadt", "pm1a", "aml_length", "parse_table", "get_S5">>

\* good: the steps that succeed.  \_S5 exists but is no package of integers
\* when get_S5 fails in one of its three ways.  debug_exit: QEMU was started
\* with its isa-debug-exit device (the tests' arguments in kernel/Cargo.toml
\* name it, the launcher src/main.rs does not).
Firmware == [good : SUBSET {Steps[i] : i \in 1 .. Len(Steps)}, heap : BOOLEAN,
             debug_exit : BOOLEAN, pm1a : Addresses, s5 : SleepTypes]

U16 == 0 .. (65536 - 1)

AcpiShutdown == [pm1a_control_block : Nat, slp_typ_a : U16, slp_len : U16,
                 use_qemu_fallback : BOOLEAN]

Fallback == [pm1a_control_block |-> 0, slp_typ_a |-> 0, slp_len |-> 0,
             use_qemu_fallback |-> TRUE]

NoPort == <<>>

Init ==
    /\ firmware \in Firmware
    /\ pc = "init" /\ step = 1
    /\ info = Fallback
    /\ port = NoPort
    /\ power = "on"

----------------------------------------------------------------------------
\* Plausible mistakes; no specification uses them.
OrDropped(x) == x

as_u16(n) == n % 65536

\* x | 1 << 13: bit 13 of PM1a_CNT is SLP_EN.
SlpEn == 8192
OrSlpEn(x) == IF (x \div SlpEn) % 2 = 1 THEN x ELSE x + SlpEn

\* Parsing the AML allocates, and an allocation without a heap halts.
Allocates == Steps[step] = "parse_table"

\* Plausible mistake; no specification uses it.
HalfStored ==
    /\ pc = "init" /\ step <= Len(Steps) /\ Steps[step] \in firmware.good
    /\ pc' = IF Allocates /\ ~firmware.heap THEN "halted" ELSE pc
    /\ step' = step + 1
    /\ info' = IF Steps[step] = "pm1a"
               THEN [info EXCEPT !.pm1a_control_block = firmware.pm1a,
                                 !.use_qemu_fallback = FALSE]
               ELSE info
    /\ UNCHANGED <<firmware, port, power>>

\* What one successful init stores, all at once under the lock.
Found == [pm1a_control_block |-> firmware.pm1a, slp_typ_a |-> as_u16(firmware.s5),
          slp_len |-> SlpEn, use_qemu_fallback |-> FALSE]

next_step ==
    /\ pc = "init" /\ step <= Len(Steps) /\ Steps[step] \in firmware.good
    /\ pc' = IF Allocates /\ ~firmware.heap THEN "halted" ELSE pc
    /\ step' = step + 1
    /\ UNCHANGED <<firmware, info, port, power>>

\* A step that fails: init returns with ACPI_SHUTDOWN as it is.
give_up ==
    /\ pc = "init" /\ step <= Len(Steps) /\ Steps[step] \notin firmware.good
    /\ pc' = IF Allocates /\ ~firmware.heap THEN "halted" ELSE "ready"
    /\ UNCHANGED <<firmware, step, info, port, power>>

\* The length of a DSDT shorter than its header underflows.  With overflow
\* checks that is a panic, which halts; without them a slice of nearly 2^64
\* bytes, on which the parser faults for ever or fails (give_up).
underflow ==
    /\ pc = "init" /\ step <= Len(Steps)
    /\ Steps[step] = "aml_length" /\ Steps[step] \notin firmware.good
    /\ pc' = "halted"
    /\ UNCHANGED <<firmware, step, info, port, power>>

store ==
    /\ pc = "init" /\ step > Len(Steps)
    /\ info' = Found
    /\ pc' = "ready"
    /\ UNCHANGED <<firmware, step, port, power>>

\* External: what the machine does with a write to a port.  QEMU's debug exit
\* ends it; the PM1a control register enters the sleep state in bits 10-12
\* when SLP_EN is set, and S5 is the one the firmware names.
SleepTypeOf(value) == (value \div 1024) % 8
EntersS5(addr, value) ==
    /\ addr = firmware.pm1a
    /\ (value \div SlpEn) % 2 = 1
    /\ SleepTypeOf(value) = firmware.s5 % 8
PowersOff(addr, value) == (addr = 244 /\ firmware.debug_exit) \/ EntersS5(addr, value)

\* shutdown: the port and the value it writes.  It returns if the machine is
\* still on, and Enter calls it again.
Written ==
    IF info.use_qemu_fallback THEN <<244, 16>>
    ELSE <<as_u16(info.pm1a_control_block), OrSlpEn(info.slp_typ_a)>>

shutdown ==
    /\ pc = "ready" /\ power = "on"
    /\ port' = Written
    /\ power' = IF PowersOff(Written[1], Written[2]) THEN "off" ELSE "on"
    /\ UNCHANGED <<firmware, pc, step, info>>

Next == next_step \/ give_up \/ underflow \/ store \/ shutdown

Spec == Init /\ [][Next]_vars

----------------------------------------------------------------------------
\* Whatever step of init fails, the fallback is in force, never a record half
\* filled in; and a complete set of tables is never ignored.
FallbackOrFound ==
    /\ info \in AcpiShutdown /\ info \in {Fallback, Found}
    /\ pc = "ready" =>
          (info = Found <=> firmware.good = {Steps[i] : i \in 1 .. Len(Steps)})

\* shutdown leaves the machine on in two cases only: the fallback is in
\* force and there is no debug exit device, or the tables were found and what
\* they say does not survive the encoding, because the sleep type is written
\* to bits 0-2 and not 10-12, or the address is no port.
StaysOnOnlyIfMisencoded ==
    port # NoPort /\ power = "on" =>
        IF info.use_qemu_fallback THEN ~firmware.debug_exit
        ELSE \/ firmware.pm1a > 65535
             \/ firmware.s5 % 8 # SleepTypeOf(OrSlpEn(as_u16(firmware.s5)))
=============================================================================
