SPECIFICATION Spec
CONSTANTS
    Words <- MCWords
    Positions <- MCPositions
    Width <- MCWidth
    Verdict <- MCVerdict
    Input <- CrLfInput
    MaxDepth = 100
    MaxPushed = 4
    MaxChunk = 2
    MaxCalls = 2
    MaxFaults = 0
INVARIANTS
    DeliversAll
