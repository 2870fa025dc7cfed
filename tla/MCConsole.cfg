CONSTANTS
    columns = 3
    rows = 3
    Chars = {"a", "b"}
SPECIFICATION Spec
CHECK_DEADLOCK FALSE
INVARIANTS CursorOnScreen NoJunk
PROPERTIES ImplementsTerminal
