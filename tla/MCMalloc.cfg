CONSTANTS
    Arena = 27
    ENTRY_SZ = 16
    Word = 256
    HalfWord = 5
    Requests = {2, 4, 5}
    Onward = 1
SPECIFICATION Spec
CHECK_DEADLOCK FALSE
INVARIANTS Apart HeadersIntact PagesCover
PROPERTIES HeldDataStable CallReturns
