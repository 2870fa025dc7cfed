CONSTANTS
    Block = 2
    Page = 4
    Names = {"kern", "other"}
    Archives <- SomeArchives
    Images <- SomeImages
    Ends = {8, 40}
    Buffers = {40, 41}
    TablePages = 2
    Shown = {3}
    Touched <- SomeTouched
    Object = {2}
    Kern = "kern"
SPECIFICATION LSpec
CHECK_DEADLOCK FALSE
INVARIANTS  StaysInBuffer OutcomeExplained
