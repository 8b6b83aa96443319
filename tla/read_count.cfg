SPECIFICATION Spec
CONSTANTS
    NumTerminals = 2
    BufferSize = 3
    TabWidth = 2
    PointerSize = 1
    Keys = {a}
    NUL = NUL
    SPACE = SPACE
    OLD = OLD
    Readers <- MCReaders
    Sizes <- MCSizes
    MaxNested = 1
    Hazards <- AllHazards
INVARIANT ReadReturnsCount
