SPECIFICATION Spec
CONSTANTS
    HeaderFiles <- MCHeaders
    SourceFiles <- MCSources
    Contents <- MCContents
INVARIANTS
    NeverInsideItself
    SameAsTheFiles
