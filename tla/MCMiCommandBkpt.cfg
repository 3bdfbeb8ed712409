SPECIFICATION AskSpec
CONSTANTS
    Dotted <- MCDotted
    Numerals <- MCNumerals
    ValueOf <- MCValueOf
    MaxNesting = 3
    Questions <- MCQuestions
    MaxFault = 0
INVARIANTS
    BkptIffOK
\* One call ends the run.
CHECK_DEADLOCK FALSE
