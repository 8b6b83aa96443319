SPECIFICATION Spec
CONSTANTS
    NumTerminals = 2
    FD_TABLE_SIZE = 4
    NAME_LENGTH = 2
    DENTRIES_NUM = 5
    Directory <- MCDirectory
    Names <- MCNames
    Executables <- MCExecutables
    Commands <- MCCommands
    Shell <- MCShell
    SPACE = 9
    NONE = NONE
    MaxDepth = 2
    MaxOpen = 2
    Hazards <- NoHazards
PROPERTY ArgsAreOwn
