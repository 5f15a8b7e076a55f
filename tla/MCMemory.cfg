SPECIFICATION Spec
CONSTANTS
    PageSize = 2
    MIN_USABLE_PA = 2
    Maps <- MCMaps
    Fanout = 2
    Cr3 <- MCCr3
    BootTables <- MCBootTables
    Bit7 <- MCBit7
    HeapStart = 10
    HeapPages = 4
INVARIANTS TypeOK FramesExclusive FramesUsable HeapMapped WalkAgreesWithCpu HeapIffEnoughFrames
PROPERTIES TranslationStable
CHECK_DEADLOCK FALSE
