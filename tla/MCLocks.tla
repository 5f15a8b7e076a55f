------------------------------ MODULE MCLocks -------------------------------
(* Locks.tla with the boot context and two demo threads.                      *)
EXTENDS Locks
=============================================================================
