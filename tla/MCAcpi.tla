------------------------------- MODULE MCAcpi -------------------------------
(* Acpi.tla with the port of QEMU's q35 PM1a block (0x604) and an address     *)
(* that is no port; sleep types that real firmware uses (0, 5, 7), and one    *)
(* wider than a u16.                                                         *)
EXTENDS Acpi

MCAddresses == {1540, 65536 + 1540}
MCSleepTypes == {0, 5, 7, 65536}
=============================================================================
