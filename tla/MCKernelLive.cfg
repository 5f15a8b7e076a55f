SPECIFICATION Spec
CONSTANTS
    Logging = FALSE
    Raised <- TimerKeysAndMachineCheck
PROPERTIES EnterStops ReadyGetsCpu
CHECK_DEADLOCK FALSE
