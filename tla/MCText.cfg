CONSTANTS
    Word = 256
    Texts <- ShortTexts
    Args <- SomeArgs
    Strings <- ShortStrings
    Numbers = {0, 1, 7, 9, 10, 109}
SPECIFICATION TextSpec
CHECK_DEADLOCK FALSE
INVARIANTS PrintsAsAsked AnswersRight NumbersReadBack RuinExplained
