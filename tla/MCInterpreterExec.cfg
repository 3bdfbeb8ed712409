SPECIFICATION FairExecSpec
CONSTANTS
    Words <- MCWords
    Positions <- MCPositions
    Width <- MCWidth
    Input <- MCInput
    MaxDepth = 8
    MaxPushed = 32
    MaxChunk = 0
    MaxCalls = 1
    MaxFaults = 1
    Texts <- MCTexts
    AskedKinds <- MCKinds
    RecordOf <- MCRecordOf
    Makes <- MCMakes
    Verdict <- MCVerdict
    MaxLines = 3
    MaxAlloc = 2
INVARIANTS
    NothingOutlives
    OkIffOnlyRecords
PROPERTIES
    ImplementsExec
    ExecReturns
