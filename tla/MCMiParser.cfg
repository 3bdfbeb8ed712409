SPECIFICATION FairSpec
CONSTANTS
    Words <- MCWords
    Positions <- MCPositions
    Width <- MCWidth
    Verdict <- MCVerdict
    Input <- StreamInput
    MaxDepth = 100
    MaxPushed = 5
    MaxChunk = 2
    MaxCalls = 2
    MaxFaults = 1
INVARIANTS
    Conservation
    NothingLeftBehind
    DeliversText
    ErrorsPointAtTheirToken
    FailsOnlyOnNul
    OnlyCutLinesLinger
    CleanLinesStandAlone
PROPERTIES
    ImplementsProtocol
    PushReturns
