\* Room for the kernel and three pages: two of three processes share the directory
\* at address 0, or one goes without a table; one unmapping.
CONSTANTS
    MaxFrames = 6
    KernelSlots = 1
    UserSlots = 1
    TableSize = 2
    Phys = {1}
    MaxProcesses = 3
    MaxUnmaps = 1
SPECIFICATION Spec
CHECK_DEADLOCK FALSE
INVARIANTS  PrivateTables HeldExactly
