CONSTANTS
    NumTerminals = 3
    MaxProcesses = 6
    CountFloor <- MCCountFloor
    Hazards <- NoHazards
    NULL = NULL
    BOOT = BOOT
SPECIFICATION MemSpec
INVARIANTS
    TypeOK
    PidsArePrefix
    RunningIsCurrent
    ContextsSaved
    ParentWaits
    RunsItsImage
PROPERTIES
    OutputReachesTerminal
    HaltReturnsToParent
    EveryTerminalRuns
    BaseShellRestarts
    ImplementsStacks
