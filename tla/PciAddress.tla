----------------------------- MODULE PciAddress -----------------------------
(* The address that the kernel writes to port 0xCF8, as packed by               *)
(* pci_config_address (acpi/handler.rs) and pci_config_read (pcie.rs), and   *)
(* what the host bridge makes of it.                                         *)
EXTENDS Integers

Enable == 1

\* offset & 0xFC, for a u16 offset.
DwordOffset(offset) == (offset % 256) - (offset % 4)

\* bus << 16 | device << 11 | function << 8 | offset & 0xFC, as a sum: the
\* fields do not overlap for a device below 32 and a function below 8.  The
\* enable bit (1 << 31) is kept apart, TLC's integers being 32 bits wide.
pci_config_address(fn, offset) ==
    [enable |-> Enable,
     low |-> fn[1] * 65536 + fn[2] * 2048 + fn[3] * 256 + DwordOffset(offset)]

\* External: the bridge takes the fields apart again.
Selected(address) ==
    <<<<(address.low \div 65536) % 256, (address.low \div 2048) % 32, (address.low \div 256) % 8>>,
      address.low % 256>>
=============================================================================
