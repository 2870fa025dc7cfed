\* Two modules that kernel code stops, wakes and crashes at any moment.
CONSTANTS
    Modules = 2
    Steps = 2
    ClientsWrite = FALSE
    Signals <- AllSignals
    Signalled <- AllModules
    ZeroWords <- AllCode
SPECIFICATION Spec
CHECK_DEADLOCK FALSE
PROPERTIES IdleRuns
