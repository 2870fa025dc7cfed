CONSTANTS
    MaxEntries = 4
    Counts = {1, 2}
    Pids = {0, 1}
    RawUsed <- SomeSlots
    RawDirty <- SomeSlots
    RawPids <- ZeroPid
    RawData <- SomePages
SPECIFICATION Spec
INVARIANTS ScanInBounds
PROPERTIES ImplementsHeap CallReturns
