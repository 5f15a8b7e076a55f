SPECIFICATION SafeSpec
CONSTANTS
    MaxThreads = 4
    MaxProcs = 4
    Calls <- CreateAndExit
PROPERTIES ExitProcessExitsThreads
CHECK_DEADLOCK FALSE
