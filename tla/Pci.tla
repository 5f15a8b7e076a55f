-------------------------------- MODULE Pci ---------------------------------
(***************************************************************************)
(* The two users of the configuration ports: the AML interpreter, through  *)
(* the accessors of PciConfig.tla, in acpi::init, and enumerate_pci of     *)
(* PciScan.tla in pcie::init, later on the same thread.  They never        *)
(* overlap, and what one leaves in the latch the other overwrites, so a    *)
(* behaviour has one of them.                                              *)
(***************************************************************************)
EXTENDS PciConfig, PciScan

vars == <<accessVars, scanVars>>

NoScan == answers = {} /\ multi = {} /\ at = <<0, 0, 0>> /\ done = TRUE /\ reported = <<>>

NoCallsLeft ==
    /\ config = [cell \in Functions \X Dwords |-> [i \in 0 .. 3 |-> 0]]
    /\ latch = pci_config_address(<<0, 0, 0>>, 0)
    /\ call = Idle /\ step = 1
    /\ old = [i \in 0 .. 3 |-> 0] /\ result = <<>>
    /\ calls = MaxCalls

Init == (AccessInit /\ NoScan) \/ (NoCallsLeft /\ ScanInit)

Next ==
    \/ AccessNext /\ UNCHANGED scanVars
    \/ enumerate_pci /\ UNCHANGED accessVars

\* kernel_main scans before interrupts are enabled: nothing stops it.
Spec == Init /\ [][Next]_vars /\ WF_vars(enumerate_pci /\ UNCHANGED accessVars)
=============================================================================
