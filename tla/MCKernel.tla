------------------------------ MODULE MCKernel ------------------------------
(* Kernel.tla as shipped: the boot thread and two demo threads. *)
EXTENDS Kernel

VectorsAndNmi == Vectors \cup {NMI}
TimerKeysAndMachineCheck == {Timer, Keyboard, MachineCheck}
TimerAndKeyboard == {Timer, Keyboard}
=============================================================================
