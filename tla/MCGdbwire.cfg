SPECIFICATION Spec
CONSTANTS
    Kinds <- MCKinds
    Records <- MCRecords
    Texts <- MCTexts
    Makes <- MCMakes
    MaxCommands = 4
    MaxLines = 3
    MaxFault = 4
INVARIANTS
    CommandIffOK
    OnlyResultRecords
    NothingDangles
    LosesOnlyThen
\* The front end may run out of commands it can ask for.
CHECK_DEADLOCK FALSE
