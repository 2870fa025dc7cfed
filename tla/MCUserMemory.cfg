\* The idle loop and up to two modules in a heap that can run full.
CONSTANTS
    MaxEntries = 10
    Counts = {1, 2, 3}
    Pids = {0, 1, 2}
    RawUsed <- SomeUsed
    RawDirty <- SomeDirty
    RawPids <- SomePid
    RawData <- None
    Processes = 3
    ObjEntries = 2
    LowFrames = 2
SPECIFICATION UMSpec
CHECK_DEADLOCK FALSE
INVARIANTS IInv MappedIsHeld HaltsExplained
PROPERTIES GrantsForget ImplementsPool
