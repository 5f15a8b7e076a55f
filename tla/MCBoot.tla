------------------------------- MODULE MCBoot -------------------------------
(* Boot.tla on every machine with at most two IO APICs; four pins of each are *)
(* enough, as one is the keyboard's.  The firmware leaves each 8259 as the   *)
(* BIOS does, with its vectors on the CPU's exceptions, or masked in the     *)
(* middle of an initialisation; and each IO APIC masked, wholly unmasked on  *)
(* the exceptions' vectors, or with the keyboard masked and a pin of another *)
(* device unmasked on a vector without a handler.                            *)
EXTENDS Boot

AllMachines == [heap : BOOLEAN, tables : BOOLEAN, apic : BOOLEAN, lapic : BOOLEAN,
                ioapics : 0 .. 2]
FourPins == 0 .. 3
MCPicsLeft == {[icw |-> 0, base |-> 8, mask |-> 0], [icw |-> 3, base |-> 104, mask |-> 255]}
MCPinsLeft ==
    {[p \in FourPins |-> [vector |-> 0, masked |-> TRUE]],
     [p \in FourPins |-> [vector |-> 8 + p, masked |-> FALSE]],
     [p \in FourPins |-> [vector |-> 104 + p, masked |-> p # 2]]}
=============================================================================
