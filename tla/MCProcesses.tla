---------------------------- MODULE MCProcesses ----------------------------
(* Processes.tla with the two demo threads, and those they create, as the    *)
(* callers.  Both demo threads create and exit, one of them adds threads as  *)
(* well, and new threads create.                                             *)
EXTENDS Processes

MCCalls ==
    [t \in Callers |-> {"create_process"}
                       \cup (IF t <= 2 THEN {"exit_process"} ELSE {})
                       \cup (IF t = 1 THEN {"spawn_thread"} ELSE {})]

CreateAndExit == [t \in Callers |-> {"create_process", "exit_process"}]
=============================================================================
