SPECIFICATION Spec
CONSTANTS
    NumTerminals = 2
    NumCols = 2
    NumRows = 2
    TabSpaces = 2
    BufferSize = 2
    Chars = {a}
    BLANK = BLANK
    Drawers <- MCDrawers
    Kept = FALSE
    Hazards <- NoHazards
INVARIANTS PictureIsConsole EraseStaysOnScreen VidmapIsPicture
