SPECIFICATION Spec
CONSTANTS
    NumTerminals = 2
    BufferSize = 2
    TabWidth = 2
    PointerSize = 1
    Keys = {}
    NUL = NUL
    SPACE = SPACE
    OLD = OLD
    Readers <- MCReaders
    Sizes <- OneByte
    MaxNested = 1
    Hazards <- KeyHazard
PROPERTIES EnterEndsRead KeyboardComesBack
