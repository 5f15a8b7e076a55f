SPECIFICATION Spec
CONSTANTS
    Functions <- MCFunctions
    Dwords <- MCDwords
    Offsets <- MCOffsets
    Byte = {0, 1}
    MaxCalls = 2
    LastBus = 1
    LastDevice = 1
    LastFunction = 2
PROPERTIES AccessesNamedBytes ScanReportsPresent
CHECK_DEADLOCK FALSE
