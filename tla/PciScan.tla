------------------------------ MODULE PciScan -------------------------------
(***************************************************************************)
(* enumerate_pci (kernel/src/pcie.rs): three nested loops over buses,      *)
(* devices and functions that read the configuration space and report each *)
(* function found.  What is on the buses is an arbitrary machine.          *)
(***************************************************************************)
EXTENDS PciAddress, Sequences

CONSTANTS LastBus, LastDevice, LastFunction  \* 255, 31 and 7 in the code

ASSUME PciScanAssumption == LastBus \in 0 .. 255 /\ LastDevice \in 0 .. 31 /\ LastFunction \in 0 .. 7

Function == (0 .. LastBus) \X (0 .. LastDevice) \X (0 .. LastFunction)

VARIABLES
    answers,    \* functions whose vendor register is not 0xFFFFFFFF
    multi,      \* those of them with bit 7 of the header type set
    at,         \* the function the loops have reached
    done,       \* have the loops ended?
    reported    \* the functions reported, in order

scanVars == <<answers, multi, at, done, reported>>

\* A device with one function may answer for the others as well.
ScanInit ==
    /\ answers \in SUBSET Function
    /\ multi \in SUBSET {fn \in answers : fn[3] = 0}
    /\ at = <<0, 0, 0>> /\ done = FALSE
    /\ reported = <<>>

\* Plausible mistake; no specification uses it.
BreakOnEveryFunction(fn) == fn \notin multi

\* The next device, or the next bus: `0u8..=255` ends after 255.
NextDevice(b, d) ==
    \/ d < LastDevice /\ at' = <<b, d + 1, 0>> /\ UNCHANGED done
    \/ d = LastDevice /\ b < LastBus /\ at' = <<b + 1, 0, 0>> /\ UNCHANGED done
    \/ d = LastDevice /\ b = LastBus /\ done' = TRUE /\ UNCHANGED at

NextFunction(b, d, f) ==
    IF f < LastFunction THEN at' = <<b, d, f + 1>> /\ UNCHANGED done ELSE NextDevice(b, d)

\* if function == 0 && (header_type & 0x80) == 0 { break; }
SingleFunction(fn) == fn[3] = 0 /\ fn \notin multi

\* The function that the bridge selects for the address of the loops.
Read == Selected(pci_config_address(at, 0))[1]

\* One round of the innermost loop; `continue` when nobody answers.
enumerate_pci ==
    /\ ~done
    /\ IF Read \in answers
       THEN /\ reported' = Append(reported, Read)
            /\ IF SingleFunction(Read) THEN NextDevice(at[1], at[2])
                                      ELSE NextFunction(at[1], at[2], at[3])
       ELSE NextFunction(at[1], at[2], at[3]) /\ UNCHANGED reported
    /\ UNCHANGED <<answers, multi>>

----------------------------------------------------------------------------
\* A function is there if it answers and does not merely echo function 0.
Present ==
    {fn \in answers : fn[3] = 0 \/ LET f0 == <<fn[1], fn[2], 0>> IN f0 \in answers => f0 \in multi}

\* The functions that are there, each one exactly once.
ReportedExactly ==
    /\ {reported[i] : i \in 1 .. Len(reported)} = Present
    /\ \A i, j \in 1 .. Len(reported) : reported[i] = reported[j] => i = j

\* The scan ends, although its counters are as narrow as their ranges, and has
\* then reported the functions that are there, each one exactly once, whatever
\* mixture of single and multifunction devices, holes and echoes the buses hold.
ScanReportsPresent == <>(done /\ ReportedExactly)
=============================================================================
