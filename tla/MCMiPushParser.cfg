SPECIFICATION FairPushSpec
CONSTANTS
    Words <- MCWords
    Positions <- MCPositions
    MaxDepth <- MCMaxDepth
INVARIANTS
    PushInv
    Resync
    LineHasOutput
    NoLeak
PROPERTIES
    Returns
