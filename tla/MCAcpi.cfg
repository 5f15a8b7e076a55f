SPECIFICATION Spec
CONSTANTS
    Addresses <- MCAddresses
    SleepTypes <- MCSleepTypes
INVARIANTS FallbackOrFound StaysOnOnlyIfMisencoded
CHECK_DEADLOCK FALSE
