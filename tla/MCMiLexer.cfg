SPECIFICATION StringsSpec
CONSTANTS
    Texts <- MCTexts
    Pairs <- MCPairs
    Scanned <- MCScanned
    Chars <- MCChars
    MaxText = 5
    Intended <- MCIntended
    MaxString = 3
    MaxSecond = 2
INVARIANTS
    ColumnsTile
    NewlineEndsLine
    GivesBackTheStrings
