SPECIFICATION Spec
CONSTANTS
    LastTid = 2
INVARIANTS NoWaitCycle
PROPERTIES LocksReleased
CHECK_DEADLOCK FALSE
