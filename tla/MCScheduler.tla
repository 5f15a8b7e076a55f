---------------------------- MODULE MCScheduler ----------------------------
(* Scheduler.tla on a small table. *)
EXTENDS Scheduler

MCTids == 0 .. 4
MCPids == 0 .. 2
=============================================================================
