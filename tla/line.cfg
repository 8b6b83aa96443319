SPECIFICATION Spec
CONSTANTS
    NumTerminals = 2
    BufferSize = 2
    TabWidth = 2
    PointerSize = 1
    Keys = {a}
    NUL = NUL
    SPACE = SPACE
    OLD = OLD
    Readers <- MCReaders
    Sizes <- MCSizes
    MaxNested = 2
    Hazards <- NoHazards
INVARIANTS TypeOK BufferNeverOverflows BufferIsLine ReadDeliversLine
