SPECIFICATION AskSpec
CONSTANTS
    Dotted <- MCDotted
    Numerals <- MCNumerals
    ValueOf <- MCValueOf
    MaxNesting = 3
    Questions <- MCQuestions
    MaxFault = 20
INVARIANTS
    OutIffOK
    FreesAll
    BothEncodings
    BackPointers
    UndefinedOnlyThen
\* One call ends the run.
CHECK_DEADLOCK FALSE
