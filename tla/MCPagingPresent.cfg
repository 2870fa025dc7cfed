\* Two processes at most; one is destroyed.
CONSTANTS
    MaxFrames = 7
    KernelSlots = 1
    UserSlots = 1
    TableSize = 2
    Phys = {1, 2}
    MaxProcesses = 2
    MaxUnmaps = 0
SPECIFICATION Spec
CHECK_DEADLOCK FALSE
INVARIANTS PresentInMemory
