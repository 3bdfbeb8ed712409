SPECIFICATION Spec
CONSTANTS
    Words <- MCWords
    Positions <- MCPositions
    Width <- MCWidth
    Verdict <- MCVerdict
    Input <- NulInput
    MaxDepth = 100
    MaxPushed = 6
    MaxChunk = 2
    MaxCalls = 2
    MaxFaults = 0
INVARIANTS
    ErrorsAreBoundToTheirLine
