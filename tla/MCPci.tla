------------------------------- MODULE MCPci --------------------------------
(* Pci.tla: two accesses of any width to two functions of one device, with   *)
(* two registers of each, at every offset of the first, an odd one of the    *)
(* second and an odd one that aliases the first, and bytes of two values;    *)
(* and the scan of every machine of 2 buses, 2 devices and 3 functions.      *)
EXTENDS Pci

MCFunctions == {<<0, 3, 0>>, <<0, 3, 1>>}
MCDwords == {4, 8}
MCOffsets == (4 .. 7) \cup {9, 263}
=============================================================================
