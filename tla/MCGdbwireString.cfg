SPECIFICATION Spec
CONSTANTS
    a = a
    b = b
    NUL = NUL
    Junk = Junk
    Bytes = {a, b, NUL}
    First = 1
    Step = 2
    Texts <- MCTexts
    Modes = {"append_data", "append_cstr"}
    Counts <- MCCounts
    CharSets <- MCCharSets
    MaxSize = 6
INVARIANTS
    StringInv
    AppendedIsTerminated
PROPERTIES
    ImplementsByteString
