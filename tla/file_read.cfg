SPECIFICATION ProgSpec
CONSTANTS
    BlockSize = 3
    MaxBlocks = 3
    WordSize = 16
    Lengths <- MCLengths
    Requests <- MCRequests
    BUFSIZE = 4
    a = a
    b = b
    NL = NL
    NUL = NUL
    Texts <- MCTexts
    LaterTexts <- MCLater
    Patterns <- MCPatterns
    Garbage <- MCGarbage
CHECK_DEADLOCK FALSE
INVARIANTS BufferIsFile ReadNeverFails CatCopiesFile GrepPrintsMatches
PROPERTY ImplementsDescriptor
