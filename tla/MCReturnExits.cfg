\* One module at most, whose main may return.
CONSTANTS
    Modules = 1
    Steps = 3
    ClientsWrite = FALSE
    Signals <- NoSignals
    Signalled <- NobodySignalled
    ZeroWords <- NoCode
SPECIFICATION Spec
CHECK_DEADLOCK FALSE
INVARIANTS ReturnExits
