SPECIFICATION MCSpec
CONSTANTS
    Words <- MCWords
    Positions <- MCPositions
    MaxDepth = 14
    Callbacks <- MCCallbacks
    Faults <- MCFaults
    MaxCalls = 2
    MaxLine = 9
    MaxJudged = 7
    MaxFaulty = 6
    MaxNested = 3
    MaxCut = 1
INVARIANTS
    OneOwner
    AllIsFreed
    TreeIsTheLine
PROPERTIES
    EachToItsCallback
    ErrorsAreInTime
\* The bound on the line's length stops the run, and so does a crash.
CHECK_DEADLOCK FALSE
