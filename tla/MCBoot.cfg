SPECIFICATION Spec
CONSTANTS
    Firmwares <- AllMachines
    Pins <- FourPins
    PicsLeft <- MCPicsLeft
    PinsLeft <- MCPinsLeft
    MaxKeys = 3
INVARIANTS GatesValid ReadyBeforeInterrupts OnlyHandledVectors
PROPERTIES EnterHeard
CHECK_DEADLOCK FALSE
