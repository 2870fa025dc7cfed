CONSTANTS
    Lines <- SomeLines
    NProcs = 2
SPECIFICATION ISpec
CHECK_DEADLOCK FALSE
INVARIANTS ServiceMatches
PROPERTIES HaltIsFinal TimerServed FaultHalts
