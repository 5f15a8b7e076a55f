SPECIFICATION SafeSpec
CONSTANTS
    MaxThreads = 5
    MaxProcs = 5
    Calls <- MCCalls
INVARIANTS TypeOK PcbNamesItsThreads LocksProtectSections UnrecordedHasCreator
PROPERTIES ImplementsScheduler
CHECK_DEADLOCK FALSE
