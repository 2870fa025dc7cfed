\* Up to four modules, which may store into the memory palloc gives them.
CONSTANTS
    Modules = 4
    Steps = 2
    ClientsWrite = TRUE
    Signals <- NoSignals
    Signalled <- NobodySignalled
    ZeroWords <- SomeCode
SPECIFICATION Spec
CHECK_DEADLOCK FALSE
INVARIANTS SyscallActsOnCaller TableExact OwnAddressSpace Resumes DeadNeverRuns WellDefined
PROPERTIES ContextKept ContextLostOnlyAfterExit EveryoneRuns
