SPECIFICATION Spec
CONSTANTS
    Tids <- MCTids
    Pids <- MCPids
    MaxThreads = 5
INVARIANTS TypeOK CpuOwner
PROPERTIES ExitedForever NoOvertaking ExitedYields ReadyRuns
